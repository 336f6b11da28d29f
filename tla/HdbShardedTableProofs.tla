------------------------- MODULE HdbShardedTableProofs -------------------------
(***************************************************************************)
(* Proofs about HdbShardedTable, for any calendar, queries and limits.     *)
(* Where no midnight is skipped a query names exactly the days of its      *)
(* range; a dataset whose route field is not updatable keeps every row in  *)
(* its day; PostgreSQL refuses a statement only for a day table that does  *)
(* not exist; and the day tables together implement HdbLogicalTable.       *)
(***************************************************************************)
EXTENDS HdbShardedTable, FiniteSetTheorems, WellFoundedInduction, TLAPS

(* The least element of a set of naturals, and the greatest of a bounded   *)
(* one.                                                                    *)
LEMMA LeastNatural ==
  ASSUME NEW S, S \subseteq Nat, S # {}
  PROVE  \E x \in S : \A y \in S : x <= y
<1>1. PICK x \in S : \A y \in S : ~(<<y, x>> \in OpToRel(<, Nat))
  BY NatLessThanWellFounded, WFMin
<1>2. \A y \in S : ~(y < x)
  BY <1>1 DEF OpToRel
<1>. QED  BY <1>2

LEMMA GreatestNatural ==
  ASSUME NEW n \in Nat, NEW S, S \subseteq 0 .. n, S # {}
  PROVE  \E x \in S : \A y \in S : y <= x
<1>. DEFINE T == {n - y : y \in S}
<1>1. T \subseteq Nat /\ T # {}
  <2>1. \A y \in S : n - y \in Nat
    OBVIOUS
  <2>2. PICK y \in S : TRUE
    OBVIOUS
  <2>3. n - y \in T
    OBVIOUS
  <2>. QED  BY <2>1, <2>3
<1>2. PICK t \in T : \A u \in T : t <= u
  BY <1>1, LeastNatural
<1>3. PICK x \in S : t = n - x
  BY <1>2
<1>4. ASSUME NEW y \in S PROVE y <= x
  <2>1. n - x <= n - y
    BY <1>2, <1>3
  <2>. QED  BY <2>1
<1>. QED  BY <1>4

-----------------------------------------------------------------------------
(* The condition trees of a query: four recursions over children that      *)
(* stand before their parent.                                              *)

OfLeaf(what, x, node, id) ==
  CASE what = "leaves"  -> {id}
    [] what = "anded"   -> {id}
    [] what = "anchors" -> JoinOn!LeafAnchors(x.query, node, x.target)
    [] what = "holds"   -> Logical!LeafHolds(node, x)

OfGroup(what, node, kids) ==
  CASE what = "leaves"  -> UNION {kids[j] : j \in DOMAIN kids}
    [] what = "anded"   -> IF node.logic = "OR" THEN {} ELSE UNION {kids[j] : j \in DOMAIN kids}
    [] what = "anchors" -> IF Len(node.children) < 2 THEN <<>>
                           ELSE JoinOn!GroupBranches(node.logic, kids)
    [] what = "holds"   -> IF node.logic = "AND" THEN \A j \in DOMAIN kids : kids[j]
                           ELSE \E j \in DOMAIN kids : kids[j]

KidsOf(node, f) == [j \in DOMAIN node.children |-> f[node.children[j]]]

NodeValue(what, x, A, f, id) ==
  IF A.conditions[id + 1].type # "GROUP" THEN OfLeaf(what, x, A.conditions[id + 1], id)
  ELSE OfGroup(what, A.conditions[id + 1], KidsOf(A.conditions[id + 1], f))

Computes(what, x, A, f, n) == f = [id \in 0 .. n - 1 |-> NodeValue(what, x, A, f, id)]

(* The children of the first n nodes stand before them.                    *)
Ordered(A, n) ==
  \A id \in 0 .. n - 1 : A.conditions[id + 1].type = "GROUP" =>
    /\ A.conditions[id + 1].logic \in {"AND", "OR"}
    /\ \A j \in DOMAIN A.conditions[id + 1].children :
         A.conditions[id + 1].children[j] \in 0 .. id - 1

(* A node over equal values of its children.                               *)
LEMMA ValueSame ==
  ASSUME NEW what, NEW x, NEW A, NEW f, NEW g, NEW id,
         A.conditions[id + 1].type = "GROUP" => \A j \in DOMAIN A.conditions[id + 1].children :
           f[A.conditions[id + 1].children[j]] = g[A.conditions[id + 1].children[j]]
  PROVE  NodeValue(what, x, A, f, id) = NodeValue(what, x, A, g, id)
<1>1. CASE A.conditions[id + 1].type # "GROUP"
  BY <1>1 DEF NodeValue
<1>2. CASE A.conditions[id + 1].type = "GROUP"
  <2>1. KidsOf(A.conditions[id + 1], f) = KidsOf(A.conditions[id + 1], g)
    BY <1>2 DEF KidsOf
  <2>. QED  BY <2>1 DEF NodeValue
<1>. QED  BY <1>1, <1>2

(* What a computation says of one node.                                    *)
LEMMA ComputesElement ==
  ASSUME NEW what, NEW x, NEW A, NEW f, NEW n, Computes(what, x, A, f, n), NEW id \in 0 .. n - 1
  PROVE  f[id] = NodeValue(what, x, A, f, id)
<1>. DEFINE g == [k \in 0 .. n - 1 |-> NodeValue(what, x, A, f, k)]
<1>1. f = g
  BY DEF Computes
<1>2. g[id] = NodeValue(what, x, A, f, id)
  OBVIOUS
<1>. QED  BY <1>1, <1>2

(* Children before parents: every node has a value.                        *)
LEMMA ComputesExist ==
  ASSUME NEW what, NEW x, NEW A, NEW n \in Nat, Ordered(A, n)
  PROVE  \E f : Computes(what, x, A, f, n)
<1>. DEFINE bad == {m \in 0 .. n : ~\E f : Computes(what, x, A, f, m)}
<1>1. SUFFICES ASSUME bad # {} PROVE FALSE
  OBVIOUS
<1>2. PICK m \in bad : \A k \in bad : m <= k
  <2>1. bad \subseteq Nat
    OBVIOUS
  <2>. HIDE DEF bad
  <2>. QED  BY <1>1, <2>1, LeastNatural
<1>3. m # 0
  <2>1. 0 .. 0 - 1 = {}
    OBVIOUS
  <2>2. Computes(what, x, A, [i \in 0 .. 0 - 1 |-> 0], 0)
    BY <2>1 DEF Computes
  <2>. QED  BY <1>2, <2>2
<1>4. m \in 0 .. n /\ m - 1 \in 0 .. n /\ ~(m <= m - 1)
  BY <1>2, <1>3
<1>5. PICK f : Computes(what, x, A, f, m - 1)
  BY <1>2, <1>4
<1>. DEFINE g == [i \in 0 .. m - 1 |-> IF i = m - 1 THEN NodeValue(what, x, A, f, m - 1) ELSE f[i]]
<1>6. ASSUME NEW i \in 0 .. m - 1 PROVE g[i] = NodeValue(what, x, A, g, i)
  <2>1. ASSUME A.conditions[i + 1].type = "GROUP", NEW j \in DOMAIN A.conditions[i + 1].children
        PROVE  f[A.conditions[i + 1].children[j]] = g[A.conditions[i + 1].children[j]]
    <3>1. A.conditions[i + 1].children[j] \in 0 .. i - 1
      BY <1>4, <2>1 DEF Ordered
    <3>. QED  BY <1>4, <3>1
  <2>2. NodeValue(what, x, A, f, i) = NodeValue(what, x, A, g, i)
    <3>. HIDE DEF g
    <3>. QED  BY <2>1, ValueSame
  <2>3. CASE i = m - 1
    BY <2>2, <2>3
  <2>4. CASE i # m - 1
    <3>1. i \in 0 .. m - 1 - 1
      BY <1>4, <2>4
    <3>2. f[i] = NodeValue(what, x, A, f, i)
      BY <1>5, <3>1, ComputesElement
    <3>. QED  BY <2>2, <2>4, <3>2
  <2>. QED  BY <2>3, <2>4
<1>7. Computes(what, x, A, g, m)
  BY <1>6 DEF Computes
<1>. QED  BY <1>2, <1>7

(* The leaves below one node, from its children's.                         *)
LeavesAt(A, f, id) ==
  LET c == A.conditions[id + 1]
  IN IF c.type = "GROUP" THEN UNION {f[c.children[j]] : j \in DOMAIN c.children} ELSE {id}

LeavesAre(A, n, f) == \A id \in 0 .. n - 1 : f[id] = LeavesAt(A, f, id)

LEMMA LeavesComputed ==
  ASSUME NEW A, NEW n \in Nat \ {0}, Ordered(A, n)
  PROVE  \E f : JoinOn!Leaves(A, n - 1) = f[n - 1] /\ LeavesAre(A, n, f)
<1>. DEFINE P(f) == f = [id \in 0 .. n - 1 |-> LeavesAt(A, f, id)]
            h == CHOOSE f : P(f)
<1>1. PICK f : Computes("leaves", 0, A, f, n)
  BY ComputesExist
<1>2. \A id \in 0 .. n - 1 : LeavesAt(A, f, id) = NodeValue("leaves", 0, A, f, id)
  BY DEF LeavesAt, NodeValue, OfLeaf, OfGroup, KidsOf
<1>3. P(f)
  BY <1>1, <1>2 DEF Computes
<1>4. P(h)
  <2>. HIDE DEF P
  <2>. QED  BY <1>3
<1>5. JoinOn!Leaves(A, n - 1) = h[n - 1]
  BY DEF JoinOn!Leaves, LeavesAt
<1>. HIDE DEF h
<1>6. \A id \in 0 .. n - 1 : h[id] = LeavesAt(A, h, id)
  <2>1. h = [id \in 0 .. n - 1 |-> LeavesAt(A, h, id)]
    BY <1>4
  <2>2. \A id \in 0 .. n - 1 : [i \in 0 .. n - 1 |-> LeavesAt(A, h, i)][id] = LeavesAt(A, h, id)
    OBVIOUS
  <2>. QED  BY <2>1, <2>2
<1>. QED  BY <1>5, <1>6 DEF LeavesAre

(* The leaves every matching row satisfies, from its children's.           *)
AndedAt(A, f, id) ==
  LET c == A.conditions[id + 1]
  IN IF c.type # "GROUP" THEN {id}
     ELSE IF c.logic = "OR" THEN {}
     ELSE UNION {f[c.children[j]] : j \in DOMAIN c.children}

AndedAre(A, n, f) == \A id \in 0 .. n - 1 : f[id] = AndedAt(A, f, id)

LEMMA AndedComputed ==
  ASSUME NEW A, A.root \in Nat, Ordered(A, A.root + 1)
  PROVE  \E f : AndedNodes(A) = f[A.root] /\ AndedAre(A, A.root + 1, f)
<1>. DEFINE n == A.root + 1
            P(f) == f = [id \in 0 .. A.root |-> AndedAt(A, f, id)]
            h == CHOOSE f : P(f)
<1>0. n \in Nat \ {0} /\ 0 .. n - 1 = 0 .. A.root /\ Ordered(A, n)
  OBVIOUS
<1>1. PICK f : Computes("anded", 0, A, f, n)
  <2>. HIDE DEF n
  <2>. QED  BY <1>0, ComputesExist
<1>2. ASSUME NEW id \in 0 .. n - 1 PROVE AndedAt(A, f, id) = NodeValue("anded", 0, A, f, id)
  <2>. DEFINE c == A.conditions[id + 1]
              kids == KidsOf(c, f)
  <2>1. CASE c.type # "GROUP"
    BY <2>1 DEF AndedAt, NodeValue, OfLeaf
  <2>2. CASE c.type = "GROUP"
    <3>1. NodeValue("anded", 0, A, f, id) =
            IF c.logic = "OR" THEN {} ELSE UNION {kids[j] : j \in DOMAIN kids}
      <4>. HIDE DEF kids
      <4>. QED  BY <2>2 DEF NodeValue, OfGroup, kids
    <3>2. {kids[j] : j \in DOMAIN kids} = {f[c.children[j]] : j \in DOMAIN c.children}
      BY DEF KidsOf
    <3>3. AndedAt(A, f, id) =
            IF c.logic = "OR" THEN {} ELSE UNION {f[c.children[j]] : j \in DOMAIN c.children}
      BY <2>2 DEF AndedAt
    <3>. HIDE DEF c, kids
    <3>. QED  BY <3>1, <3>2, <3>3
  <2>. QED  BY <2>1, <2>2
<1>. HIDE DEF n
<1>3. P(f)
  BY <1>0, <1>1, <1>2 DEF Computes
<1>4. P(h)
  <2>. HIDE DEF P
  <2>. QED  BY <1>3
<1>5. AndedNodes(A) = h[A.root]
  <2>1. A.root # -1
    OBVIOUS
  <2>. QED  BY <2>1 DEF AndedNodes, AndedAt
<1>. HIDE DEF h
<1>6. \A id \in 0 .. A.root : h[id] = AndedAt(A, h, id)
  <2>1. h = [id \in 0 .. A.root |-> AndedAt(A, h, id)]
    BY <1>4
  <2>2. \A id \in 0 .. A.root : [i \in 0 .. A.root |-> AndedAt(A, h, i)][id] = AndedAt(A, h, id)
    OBVIOUS
  <2>. QED  BY <2>1, <2>2
<1>. QED  BY <1>0, <1>5, <1>6 DEF AndedAre, n

(* Whether a node holds, from whether its children do.                     *)
HoldsAt(A, joined, f, id) ==
  LET c == A.conditions[id + 1]
  IN IF c.type # "GROUP" THEN Logical!LeafHolds(c, joined)
     ELSE IF c.logic = "AND" THEN \A j \in DOMAIN c.children : f[c.children[j]]
     ELSE \E j \in DOMAIN c.children : f[c.children[j]]

HoldsAre(A, joined, n, f) == \A id \in 0 .. n - 1 : f[id] = HoldsAt(A, joined, f, id)

LEMMA HoldsComputed ==
  ASSUME NEW A, NEW root \in Nat, NEW joined, Ordered(A, root + 1)
  PROVE  \E f : (Logical!TreeHolds(A, root, joined) <=> f[root]) /\ HoldsAre(A, joined, root + 1, f)
<1>. DEFINE n == root + 1
            P(f) == f = [id \in 0 .. root |-> HoldsAt(A, joined, f, id)]
            h == CHOOSE f : P(f)
<1>0. n \in Nat \ {0} /\ 0 .. n - 1 = 0 .. root /\ Ordered(A, n)
  OBVIOUS
<1>1. PICK f : Computes("holds", joined, A, f, n)
  <2>. HIDE DEF n
  <2>. QED  BY <1>0, ComputesExist
<1>2. \A id \in 0 .. n - 1 : HoldsAt(A, joined, f, id) = NodeValue("holds", joined, A, f, id)
  BY DEF HoldsAt, NodeValue, OfLeaf, OfGroup, KidsOf
<1>. HIDE DEF n
<1>3. P(f)
  BY <1>0, <1>1, <1>2 DEF Computes
<1>4. P(h)
  <2>. HIDE DEF P
  <2>. QED  BY <1>3
<1>5. Logical!TreeHolds(A, root, joined) <=> h[root]
  <2>1. root # -1
    OBVIOUS
  <2>. QED  BY <2>1 DEF Logical!TreeHolds, HoldsAt
<1>. HIDE DEF h
<1>6. \A id \in 0 .. root : h[id] = HoldsAt(A, joined, h, id)
  <2>1. h = [id \in 0 .. root |-> HoldsAt(A, joined, h, id)]
    BY <1>4
  <2>2. \A id \in 0 .. root : [i \in 0 .. root |-> HoldsAt(A, joined, h, i)][id] = HoldsAt(A, joined, h, id)
    OBVIOUS
  <2>. QED  BY <2>1, <2>2
<1>. QED  BY <1>0, <1>5, <1>6 DEF HoldsAre, n

(* The branches of one node, from its children's.                          *)
AnchorsAt(A, target, f, id) ==
  LET c     == A.conditions[id + 1]
      child == [j \in DOMAIN c.children |-> f[c.children[j]]]
  IN IF c.type # "GROUP" THEN JoinOn!LeafAnchors(A, c, target)
     ELSE IF Len(c.children) < 2 THEN <<>> ELSE JoinOn!GroupBranches(c.logic, child)

AnchorsAre(A, target, n, f) == \A id \in 0 .. n - 1 : f[id] = AnchorsAt(A, target, f, id)

LEMMA AnchorsComputed ==
  ASSUME NEW A, NEW target, NEW root \in Nat, Ordered(A, root + 1)
  PROVE  \E f : JoinOn!BranchAnchors(A, target, root) = f[root] /\ AnchorsAre(A, target, root + 1, f)
<1>. DEFINE n == root + 1
            x == [query |-> A, target |-> target]
            P(f) == f = [id \in 0 .. root |-> AnchorsAt(A, target, f, id)]
            h == CHOOSE f : P(f)
<1>0. n \in Nat \ {0} /\ 0 .. n - 1 = 0 .. root /\ Ordered(A, n)
  OBVIOUS
<1>1. PICK f : Computes("anchors", x, A, f, n)
  <2>. HIDE DEF n, x
  <2>. QED  BY <1>0, ComputesExist
<1>2. \A id \in 0 .. n - 1 : AnchorsAt(A, target, f, id) = NodeValue("anchors", x, A, f, id)
  BY DEF AnchorsAt, NodeValue, OfLeaf, OfGroup, KidsOf
<1>. HIDE DEF n, x
<1>3. P(f)
  BY <1>0, <1>1, <1>2 DEF Computes
<1>4. P(h)
  <2>. HIDE DEF P
  <2>. QED  BY <1>3
<1>5. JoinOn!BranchAnchors(A, target, root) = h[root]
  BY DEF JoinOn!BranchAnchors, AnchorsAt
<1>. HIDE DEF h
<1>6. \A id \in 0 .. root : h[id] = AnchorsAt(A, target, h, id)
  <2>1. h = [id \in 0 .. root |-> AnchorsAt(A, target, h, id)]
    BY <1>4
  <2>2. \A id \in 0 .. root :
          [i \in 0 .. root |-> AnchorsAt(A, target, h, i)][id] = AnchorsAt(A, target, h, id)
    OBVIOUS
  <2>. QED  BY <2>1, <2>2
<1>. QED  BY <1>0, <1>5, <1>6 DEF AnchorsAre, n

(* The sizes of a query.                                                   *)
LEMMA QuerySizes ==
  ASSUME NEW query \in Queries
  PROVE  /\ IsQuery(query)
         /\ Len(query.sources) \in Nat \ {0} /\ DOMAIN query.sources = 1 .. Len(query.sources)
         /\ Len(query.conditions) \in Nat /\ DOMAIN query.conditions = 1 .. Len(query.conditions)
         /\ query.root \in -1 .. Len(query.conditions) - 1
BY QueryAssumption DEF IsQuery

LEMMA QueryOrdered ==
  ASSUME NEW A, IsQuery(A), NEW n \in 0 .. Len(A.conditions)
  PROVE  Ordered(A, n)
<1>1. Len(A.conditions) \in Nat /\ DOMAIN A.conditions = 1 .. Len(A.conditions)
  BY DEF IsQuery
<1>2. ASSUME NEW i \in DOMAIN A.conditions, A.conditions[i].type = "GROUP"
      PROVE  /\ A.conditions[i].logic \in {"AND", "OR"}
             /\ \A j \in DOMAIN A.conditions[i].children : A.conditions[i].children[j] \in 0 .. i - 2
  BY <1>2 DEF IsQuery
<1>3. ASSUME NEW id \in 0 .. n - 1 PROVE id + 1 \in DOMAIN A.conditions /\ (id + 1) - 2 = id - 1
  BY <1>1
<1>. QED  BY <1>2, <1>3 DEF Ordered

(* A node of a query is a group or a leaf.                                 *)
LEMMA QueryNode ==
  ASSUME NEW A, IsQuery(A), NEW id \in 0 .. Len(A.conditions) - 1, A.conditions[id + 1].type # "GROUP"
  PROVE  IsLeaf(A, A.conditions[id + 1])
<1>1. id + 1 \in DOMAIN A.conditions
  BY DEF IsQuery
<1>. QED  BY <1>1 DEF IsQuery

(* The first node at which a property of the nodes fails has children for  *)
(* which it holds.                                                         *)
LEMMA FirstBadNode ==
  ASSUME NEW A, NEW n \in Nat, Ordered(A, n), NEW bad, bad \subseteq 0 .. n - 1, bad # {}
  PROVE  \E id \in bad : A.conditions[id + 1].type = "GROUP" =>
           \A j \in DOMAIN A.conditions[id + 1].children :
             A.conditions[id + 1].children[j] \in (0 .. n - 1) \ bad
<1>1. PICK id \in bad : \A k \in bad : id <= k
  <2>1. bad \subseteq Nat
    OBVIOUS
  <2>. QED  BY <2>1, LeastNatural
<1>2. \A k \in 0 .. id - 1 : k \in (0 .. n - 1) \ bad
  BY <1>1
<1>. QED  BY <1>1, <1>2 DEF Ordered

LEMMA LeavesAreLeaves ==
  ASSUME NEW A, NEW root \in Nat, Ordered(A, root + 1), NEW leaf \in JoinOn!Leaves(A, root)
  PROVE  leaf \in 0 .. root /\ A.conditions[leaf + 1].type # "GROUP"
<1>. DEFINE n == root + 1
            good(x) == x \in 0 .. root /\ A.conditions[x + 1].type # "GROUP"
<1>1. n \in Nat \ {0} /\ n - 1 = root /\ Ordered(A, n)
  OBVIOUS
<1>. HIDE DEF n
<1>2. PICK f : JoinOn!Leaves(A, n - 1) = f[n - 1] /\ LeavesAre(A, n, f)
  BY <1>1, LeavesComputed
<1>. DEFINE bad == {id \in 0 .. n - 1 : ~\A x \in f[id] : good(x)}
<1>3. ASSUME NEW id \in bad,
             A.conditions[id + 1].type = "GROUP" =>
               \A j \in DOMAIN A.conditions[id + 1].children :
                 A.conditions[id + 1].children[j] \in (0 .. n - 1) \ bad
      PROVE  FALSE
  <2>1. f[id] = LeavesAt(A, f, id)
    BY <1>2 DEF LeavesAre
  <2>2. CASE A.conditions[id + 1].type = "GROUP"
    <3>1. \A j \in DOMAIN A.conditions[id + 1].children :
            \A x \in f[A.conditions[id + 1].children[j]] : good(x)
      BY <1>3, <2>2
    <3>. HIDE DEF good
    <3>2. f[id] = UNION {f[A.conditions[id + 1].children[j]] : j \in DOMAIN A.conditions[id + 1].children}
      BY <2>1, <2>2 DEF LeavesAt
    <3>3. \A x \in f[id] : good(x)
      BY <3>1, <3>2
    <3>. QED  BY <3>3
  <2>3. CASE A.conditions[id + 1].type # "GROUP"
    <3>1. f[id] = {id}
      BY <2>1, <2>3 DEF LeavesAt
    <3>2. good(id)
      BY <1>1, <2>3
    <3>. HIDE DEF good
    <3>. QED  BY <3>1, <3>2
  <2>. QED  BY <2>2, <2>3
<1>4. bad \subseteq 0 .. n - 1
  OBVIOUS
<1>5. bad = {}
  <2>. HIDE DEF bad
  <2>. QED  BY <1>1, <1>3, <1>4, FirstBadNode
<1>. QED  BY <1>1, <1>2, <1>5

(* The leaves every matching row satisfies are leaves.                     *)
LEMMA AndedAreLeaves ==
  ASSUME NEW A, A.root \in Nat, Ordered(A, A.root + 1), NEW leaf \in AndedNodes(A)
  PROVE  leaf \in 0 .. A.root /\ A.conditions[leaf + 1].type # "GROUP"
<1>. DEFINE root == A.root
            n == root + 1
            good(x) == x \in 0 .. root /\ A.conditions[x + 1].type # "GROUP"
<1>1. n \in Nat \ {0} /\ n - 1 = root /\ Ordered(A, n) /\ root \in Nat
  OBVIOUS
<1>2. PICK f : AndedNodes(A) = f[root] /\ AndedAre(A, n, f)
  BY <1>1, AndedComputed
<1>. HIDE DEF n, root
<1>. DEFINE bad == {id \in 0 .. n - 1 : ~\A x \in f[id] : good(x)}
<1>3. ASSUME NEW id \in bad,
             A.conditions[id + 1].type = "GROUP" =>
               \A j \in DOMAIN A.conditions[id + 1].children :
                 A.conditions[id + 1].children[j] \in (0 .. n - 1) \ bad
      PROVE  FALSE
  <2>1. f[id] = AndedAt(A, f, id)
    BY <1>2 DEF AndedAre
  <2>2. CASE A.conditions[id + 1].type = "GROUP"
    <3>1. \A j \in DOMAIN A.conditions[id + 1].children :
            \A x \in f[A.conditions[id + 1].children[j]] : good(x)
      BY <1>3, <2>2
    <3>. HIDE DEF good
    <3>2. f[id] \subseteq
            UNION {f[A.conditions[id + 1].children[j]] : j \in DOMAIN A.conditions[id + 1].children}
      BY <2>1, <2>2 DEF AndedAt
    <3>3. \A x \in f[id] : good(x)
      BY <3>1, <3>2
    <3>. QED  BY <3>3
  <2>3. CASE A.conditions[id + 1].type # "GROUP"
    <3>1. f[id] = {id}
      BY <2>1, <2>3 DEF AndedAt
    <3>2. good(id)
      BY <1>1, <2>3
    <3>. HIDE DEF good
    <3>. QED  BY <3>1, <3>2
  <2>. QED  BY <2>2, <2>3
<1>4. bad \subseteq 0 .. n - 1
  OBVIOUS
<1>5. bad = {}
  <2>. HIDE DEF bad
  <2>. QED  BY <1>1, <1>3, <1>4, FirstBadNode
<1>6. \A x \in f[root] : good(x)
  BY <1>1, <1>5
<1>. QED  BY <1>2, <1>6 DEF root

(* A row that satisfies the tree satisfies every leaf that is not below an *)
(* OR group.                                                               *)
LEMMA AndedHold ==
  ASSUME NEW A, A.root \in Nat, Ordered(A, A.root + 1), NEW joined,
         Logical!TreeHolds(A, A.root, joined), NEW leaf \in AndedNodes(A)
  PROVE  Logical!LeafHolds(A.conditions[leaf + 1], joined)
<1>. DEFINE root == A.root
            n == root + 1
            good(x) == Logical!LeafHolds(A.conditions[x + 1], joined)
<1>1. n \in Nat \ {0} /\ n - 1 = root /\ Ordered(A, n) /\ root \in Nat
  OBVIOUS
<1>2. PICK f : AndedNodes(A) = f[root] /\ AndedAre(A, n, f)
  BY <1>1, AndedComputed
<1>3. PICK g : (Logical!TreeHolds(A, root, joined) <=> g[root]) /\ HoldsAre(A, joined, n, g)
  BY <1>1, HoldsComputed
<1>. HIDE DEF n, root
<1>. DEFINE bad == {id \in 0 .. n - 1 : ~(g[id] => \A x \in f[id] : good(x))}
<1>4. ASSUME NEW id \in bad,
             A.conditions[id + 1].type = "GROUP" =>
               \A j \in DOMAIN A.conditions[id + 1].children :
                 A.conditions[id + 1].children[j] \in (0 .. n - 1) \ bad
      PROVE  FALSE
  <2>1. f[id] = AndedAt(A, f, id) /\ g[id] = HoldsAt(A, joined, g, id)
    BY <1>2, <1>3 DEF AndedAre, HoldsAre
  <2>2. CASE A.conditions[id + 1].type = "GROUP"
    <3>1. \A j \in DOMAIN A.conditions[id + 1].children :
            g[A.conditions[id + 1].children[j]] =>
              \A x \in f[A.conditions[id + 1].children[j]] : good(x)
      BY <1>4, <2>2
    <3>. HIDE DEF good
    <3>2. g[id]
      OBVIOUS
    <3>3. CASE A.conditions[id + 1].logic = "OR"
      <4>1. f[id] = {}
        BY <2>1, <2>2, <3>3 DEF AndedAt
      <4>. QED  BY <4>1
    <3>4. A.conditions[id + 1].logic \in {"AND", "OR"}
      BY <1>1, <2>2 DEF Ordered
    <3>5. CASE A.conditions[id + 1].logic = "AND"
      <4>1. f[id] = UNION {f[A.conditions[id + 1].children[j]] : j \in DOMAIN A.conditions[id + 1].children}
        BY <2>1, <2>2, <3>5 DEF AndedAt
      <4>2. \A j \in DOMAIN A.conditions[id + 1].children : g[A.conditions[id + 1].children[j]]
        BY <2>1, <2>2, <3>2, <3>5 DEF HoldsAt
      <4>3. \A x \in f[id] : good(x)
        BY <3>1, <4>1, <4>2
      <4>. QED  BY <4>3
    <3>. QED  BY <3>3, <3>4, <3>5
  <2>3. CASE A.conditions[id + 1].type # "GROUP"
    <3>1. f[id] = {id}
      BY <2>1, <2>3 DEF AndedAt
    <3>2. g[id] => good(id)
      BY <1>1, <2>1, <2>3 DEF HoldsAt
    <3>. HIDE DEF good
    <3>. QED  BY <3>1, <3>2
  <2>. QED  BY <2>2, <2>3
<1>5. bad \subseteq 0 .. n - 1
  OBVIOUS
<1>6. bad = {}
  <2>. HIDE DEF bad
  <2>. QED  BY <1>1, <1>4, <1>5, FirstBadNode
<1>7. g[root] => \A x \in f[root] : good(x)
  BY <1>1, <1>6
<1>8. good(leaf)
  <2>. HIDE DEF good
  <2>. QED  BY <1>2, <1>3, <1>7 DEF root
<1>. QED  BY <1>8 DEF root

(* B has the groups of A and leaves in the places of A's.                  *)
SameShape(A, B) ==
  \A i \in DOMAIN A.conditions :
    /\ B.conditions[i].type = A.conditions[i].type
    /\ A.conditions[i].type = "GROUP" => B.conditions[i] = A.conditions[i]

(* Two trees of one shape whose leaves agree hold together.                *)
LEMMA TreeSame ==
  ASSUME NEW A, NEW B, NEW root \in Nat, Ordered(A, root + 1), SameShape(A, B),
         \A id \in 0 .. root : id + 1 \in DOMAIN A.conditions,
         NEW j, NEW k,
         \A id \in JoinOn!Leaves(A, root) :
           Logical!LeafHolds(A.conditions[id + 1], j) <=> Logical!LeafHolds(B.conditions[id + 1], k)
  PROVE  Logical!TreeHolds(A, root, j) <=> Logical!TreeHolds(B, root, k)
<1>. DEFINE n == root + 1
            same(x) == Logical!LeafHolds(A.conditions[x + 1], j)
                         <=> Logical!LeafHolds(B.conditions[x + 1], k)
<1>1. n \in Nat \ {0} /\ n - 1 = root /\ Ordered(A, n) /\ 0 .. n - 1 = 0 .. root
  OBVIOUS
<1>2. Ordered(B, n)
  BY <1>1 DEF Ordered, SameShape
<1>3. PICK l : JoinOn!Leaves(A, n - 1) = l[n - 1] /\ LeavesAre(A, n, l)
  <2>. HIDE DEF n
  <2>. QED  BY <1>1, LeavesComputed
<1>4. PICK f : (Logical!TreeHolds(A, root, j) <=> f[root]) /\ HoldsAre(A, j, n, f)
  BY <1>1, HoldsComputed
<1>5. PICK g : (Logical!TreeHolds(B, root, k) <=> g[root]) /\ HoldsAre(B, k, n, g)
  BY <1>2, HoldsComputed
<1>. HIDE DEF n
<1>. DEFINE bad == {id \in 0 .. n - 1 : ~((\A x \in l[id] : same(x)) => (f[id] <=> g[id]))}
<1>6. ASSUME NEW id \in bad,
             A.conditions[id + 1].type = "GROUP" =>
               \A i \in DOMAIN A.conditions[id + 1].children :
                 A.conditions[id + 1].children[i] \in (0 .. n - 1) \ bad
      PROVE  FALSE
  <2>1. /\ l[id] = LeavesAt(A, l, id)
        /\ f[id] = HoldsAt(A, j, f, id) /\ g[id] = HoldsAt(B, k, g, id)
    BY <1>3, <1>4, <1>5 DEF LeavesAre, HoldsAre
  <2>2. id + 1 \in DOMAIN A.conditions
    BY <1>1
  <2>3. CASE A.conditions[id + 1].type = "GROUP"
    <3>. DEFINE c == A.conditions[id + 1]
    <3>1. \A i \in DOMAIN c.children :
            (\A x \in l[c.children[i]] : same(x)) => (f[c.children[i]] <=> g[c.children[i]])
      BY <1>6, <2>3
    <3>2. B.conditions[id + 1] = c /\ c.type = "GROUP"
      BY <2>2, <2>3 DEF SameShape
    <3>3. ~((\A x \in l[id] : same(x)) => (f[id] <=> g[id]))
      OBVIOUS
    <3>. HIDE DEF same
    <3>4. l[id] = UNION {l[c.children[i]] : i \in DOMAIN c.children}
      BY <2>1, <3>2 DEF LeavesAt
    <3>5. \A i \in DOMAIN c.children : f[c.children[i]] <=> g[c.children[i]]
      BY <3>1, <3>3, <3>4
    <3>6. f[id] <=> IF c.logic = "AND" THEN \A i \in DOMAIN c.children : f[c.children[i]]
                    ELSE \E i \in DOMAIN c.children : f[c.children[i]]
      BY <2>1, <3>2 DEF HoldsAt
    <3>7. g[id] <=> IF c.logic = "AND" THEN \A i \in DOMAIN c.children : g[c.children[i]]
                    ELSE \E i \in DOMAIN c.children : g[c.children[i]]
      BY <2>1, <3>2 DEF HoldsAt
    <3>. HIDE DEF c
    <3>8. f[id] <=> g[id]
      BY <3>5, <3>6, <3>7
    <3>. QED  BY <3>3, <3>8
  <2>4. CASE A.conditions[id + 1].type # "GROUP"
    <3>1. l[id] = {id}
      BY <2>1, <2>4 DEF LeavesAt
    <3>2. B.conditions[id + 1].type # "GROUP"
      BY <2>2, <2>4 DEF SameShape
    <3>3. same(id) => (f[id] <=> g[id])
      BY <2>1, <2>4, <3>2 DEF HoldsAt
    <3>. HIDE DEF same
    <3>. QED  BY <3>1, <3>3
  <2>. QED  BY <2>3, <2>4
<1>7. bad \subseteq 0 .. n - 1
  OBVIOUS
<1>8. bad = {}
  <2>. HIDE DEF bad
  <2>. QED  BY <1>1, <1>6, <1>7, FirstBadNode
<1>9. (\A x \in l[root] : same(x)) => (f[root] <=> g[root])
  BY <1>1, <1>8
<1>10. \A x \in l[root] : same(x)
  BY <1>1, <1>3
<1>. HIDE DEF same
<1>. QED  BY <1>4, <1>5, <1>9, <1>10

(* An accepted ON condition compares only sources joined by then.          *)
Allowed(A, c, target) ==
  /\ c.type \in {"VALUE", "FIELD_COMPARE"}
  /\ JoinOn!FieldAllowed(A, c.source, target)
  /\ c.type = "FIELD_COMPARE" => JoinOn!FieldAllowed(A, c.right, target)

LEMMA LeavesAllowed ==
  ASSUME NEW A, NEW root \in Nat, Ordered(A, root + 1), NEW target,
         JoinOn!BranchAnchors(A, target, root) # <<>>, NEW leaf \in JoinOn!Leaves(A, root)
  PROVE  Allowed(A, A.conditions[leaf + 1], target)
<1>. DEFINE n == root + 1
            good(x) == Allowed(A, A.conditions[x + 1], target)
<1>1. n \in Nat \ {0} /\ n - 1 = root /\ Ordered(A, n) /\ 0 .. n - 1 = 0 .. root
  OBVIOUS
<1>2. PICK l : JoinOn!Leaves(A, n - 1) = l[n - 1] /\ LeavesAre(A, n, l)
  <2>. HIDE DEF n
  <2>. QED  BY <1>1, LeavesComputed
<1>3. PICK f : JoinOn!BranchAnchors(A, target, root) = f[root] /\ AnchorsAre(A, target, n, f)
  BY <1>1, AnchorsComputed
<1>. HIDE DEF n
<1>. DEFINE bad == {id \in 0 .. n - 1 : ~(f[id] # <<>> => \A x \in l[id] : good(x))}
<1>4. ASSUME NEW id \in bad,
             A.conditions[id + 1].type = "GROUP" =>
               \A i \in DOMAIN A.conditions[id + 1].children :
                 A.conditions[id + 1].children[i] \in (0 .. n - 1) \ bad
      PROVE  FALSE
  <2>1. l[id] = LeavesAt(A, l, id) /\ f[id] = AnchorsAt(A, target, f, id)
    BY <1>2, <1>3 DEF LeavesAre, AnchorsAre
  <2>2. f[id] # <<>>
    OBVIOUS
  <2>3. CASE A.conditions[id + 1].type = "GROUP"
    <3>. DEFINE c == A.conditions[id + 1]
                child == [i \in DOMAIN c.children |-> f[c.children[i]]]
    <3>1. \A i \in DOMAIN c.children :
            f[c.children[i]] # <<>> => \A x \in l[c.children[i]] : good(x)
      BY <1>4, <2>3
    <3>2. ~(\A x \in l[id] : good(x))
      OBVIOUS
    <3>. HIDE DEF good
    <3>3. l[id] = UNION {l[c.children[i]] : i \in DOMAIN c.children}
      BY <2>1, <2>3 DEF LeavesAt
    <3>4. f[id] = IF Len(c.children) < 2 THEN <<>> ELSE JoinOn!GroupBranches(c.logic, child)
      BY <2>1, <2>3 DEF AnchorsAt
    <3>5. \A i \in DOMAIN child : child[i] # <<>>
      <4>. HIDE DEF child
      <4>. QED  BY <2>2, <3>4 DEF JoinOn!GroupBranches
    <3>6. \A i \in DOMAIN c.children : f[c.children[i]] # <<>>
      BY <3>5
    <3>. HIDE DEF c
    <3>. QED  BY <3>1, <3>2, <3>3, <3>6
  <2>4. CASE A.conditions[id + 1].type # "GROUP"
    <3>1. l[id] = {id}
      BY <2>1, <2>4 DEF LeavesAt
    <3>2. f[id] = JoinOn!LeafAnchors(A, A.conditions[id + 1], target)
      BY <2>1, <2>4 DEF AnchorsAt
    <3>3. good(id)
      BY <2>2, <3>2 DEF JoinOn!LeafAnchors, Allowed
    <3>. HIDE DEF good
    <3>. QED  BY <3>1, <3>3
  <2>. QED  BY <2>3, <2>4
<1>5. bad \subseteq 0 .. n - 1
  OBVIOUS
<1>6. bad = {}
  <2>. HIDE DEF bad
  <2>. QED  BY <1>1, <1>4, <1>5, FirstBadNode
<1>7. f[root] # <<>> => \A x \in l[root] : good(x)
  BY <1>1, <1>6
<1>. HIDE DEF good
<1>8. good(leaf)
  BY <1>1, <1>2, <1>3, <1>7
<1>. QED  BY <1>8 DEF good

(* The nodes of a tree a query uses are nodes it has.                      *)
LEMMA QueryLeaves ==
  ASSUME NEW A, IsQuery(A), NEW root \in 0 .. Len(A.conditions) - 1,
         NEW id \in JoinOn!Leaves(A, root)
  PROVE  /\ root \in Nat /\ id \in 0 .. root /\ id + 1 \in DOMAIN A.conditions
         /\ A.conditions[id + 1].type # "GROUP" /\ IsLeaf(A, A.conditions[id + 1])
<1>1. /\ Len(A.conditions) \in Nat /\ DOMAIN A.conditions = 1 .. Len(A.conditions)
      /\ root \in Nat /\ root + 1 \in 0 .. Len(A.conditions)
  BY DEF IsQuery
<1>2. Ordered(A, root + 1)
  BY <1>1, QueryOrdered
<1>3. id \in 0 .. root /\ A.conditions[id + 1].type # "GROUP"
  BY <1>1, <1>2, LeavesAreLeaves
<1>4. id \in 0 .. Len(A.conditions) - 1
  BY <1>1, <1>3
<1>. QED  BY <1>1, <1>3, <1>4, QueryNode


-----------------------------------------------------------------------------
(* The calendar.                                                           *)

LEMMA DayBeforeDay ==
  ASSUME NEW H \in Nat \ {0}, NEW a \in Nat, NEW b \in Nat,
         NEW x \in 0 .. H - 1, NEW y \in 0 .. H - 1,
         a * H + x <= b * H + y
  PROVE  a <= b
<1>. SUFFICES ASSUME b < a PROVE FALSE
  OBVIOUS
<1>. DEFINE k == a - b - 1
<1>1. k \in Nat /\ a = b + 1 + k
  OBVIOUS
<1>. HIDE DEF k
<1>2. a * H = b * H + H + k * H /\ k * H \in Nat /\ b * H \in Nat
  BY <1>1
<1>. QED  BY <1>2

(* Stamps tell days apart.                                                 *)
LEMMA DayOrder ==
  ASSUME NEW t \in DOMAIN Clock, NEW u \in DOMAIN Clock, Stamp(t) <= Stamp(u)
  PROVE  Clock[t].day <= Clock[u].day
BY ShardAssumption, DayBeforeDay DEF Stamp, HourNumber

LEMMA TimesInClock == Times \subseteq 0 .. MaxTime /\ Times \subseteq DOMAIN Clock
<1>1. MaxTime \in Nat /\ 0 .. MaxTime \subseteq DOMAIN Clock
  BY ShardAssumption
<1>2. Times \subseteq 0 .. MaxTime
  BY <1>1 DEF Times
<1>. QED  BY <1>1, <1>2

LEMMA Stamps ==
  ASSUME NEW t \in DOMAIN Clock
  PROVE  /\ t \in Int /\ Stamp(t) \in Nat /\ Clock[t].day \in Nat
         /\ Instant(Stamp(t)) \in DOMAIN Clock /\ Stamp(Instant(Stamp(t))) = Stamp(t)
<1>1. t \in Int /\ Clock[t].day \in Nat /\ Clock[t].hour \in Nat /\ HoursPerDay \in Nat
  BY ShardAssumption
<1>2. Stamp(t) \in Nat
  BY <1>1 DEF Stamp, HourNumber
<1>3. \E u \in DOMAIN Clock : Stamp(u) = Stamp(t)
  OBVIOUS
<1>4. Instant(Stamp(t)) \in DOMAIN Clock /\ Stamp(Instant(Stamp(t))) = Stamp(t)
  BY <1>3 DEF Instant
<1>. QED  BY <1>1, <1>2, <1>4

(* What is written for an instant is read back as one of the same day.     *)
LEMMA StampKeepsDay ==
  ASSUME NEW t \in DOMAIN Clock
  PROVE  Clock[Instant(Stamp(t))].day = Clock[t].day
<1>1. /\ Instant(Stamp(t)) \in DOMAIN Clock /\ Stamp(Instant(Stamp(t))) = Stamp(t)
      /\ Stamp(t) \in Nat
  BY Stamps
<1>2. Clock[Instant(Stamp(t))].day <= Clock[t].day
  BY <1>1, DayOrder
<1>3. Clock[t].day <= Clock[Instant(Stamp(t))].day
  BY <1>1, DayOrder
<1>. QED  BY <1>1, <1>2, <1>3, Stamps

LEMMA StampOrder ==
  ASSUME NEW t \in DOMAIN Clock, NEW u \in DOMAIN Clock
  PROVE  Stamp(t) <= Stamp(u) <=> t <= u
<1>1. t \in Int /\ u \in Int /\ Stamp(t) \in Nat /\ Stamp(u) \in Nat
  BY Stamps
<1>2. t < u => Stamp(t) < Stamp(u)
  BY ClockAssumption
<1>3. u < t => Stamp(u) < Stamp(t)
  BY ClockAssumption
<1>. QED  BY <1>1, <1>2, <1>3

(* mktime of a local time that exists is that instant.                     *)
LEMMA MktimeExact ==
  ASSUME NEW u \in DOMAIN Clock
  PROVE  Mktime(Clock[u].day, Clock[u].hour) = u
<1>. DEFINE S == {t \in DOMAIN Clock : Stamp(t) >= HourNumber(Clock[u].day, Clock[u].hour)}
<1>1. Stamp(u) = HourNumber(Clock[u].day, Clock[u].hour)
  BY DEF Stamp
<1>2. u \in S
  BY <1>1, Stamps
<1>3. \A t \in S : u <= t
  BY <1>1, Stamps, StampOrder
<1>4. \A t \in S : (\A v \in S : t <= v) => t = u
  BY <1>2, <1>3, Stamps
<1>. HIDE DEF S
<1>5. Min(S) = u
  BY <1>2, <1>3, <1>4 DEF Min
<1>. QED  BY <1>5 DEF Mktime, S

(* The midnight a day begins with.                                         *)
Midnight(day) == CHOOSE u \in DOMAIN Clock : Clock[u].day = day /\ Clock[u].hour = 0

(* The days the loop of ResolveQueryTables may come to.                    *)
LoopDays == UNION {Clock[0].day .. Clock[t].day + 1 : t \in Times}

LEMMA Midnights ==
  ASSUME NoMidnightSkipped, NEW day \in LoopDays
  PROVE  /\ Midnight(day) \in DOMAIN Clock /\ day \in Nat
         /\ Clock[Midnight(day)].day = day /\ Clock[Midnight(day)].hour = 0
         /\ Mktime(day, 0) = Midnight(day)
<1>1. PICK t \in Times : day \in Clock[0].day .. Clock[t].day + 1
  BY DEF LoopDays
<1>2. \E u \in DOMAIN Clock : Clock[u].day = day /\ Clock[u].hour = 0
  BY <1>1 DEF NoMidnightSkipped
<1>3. /\ Midnight(day) \in DOMAIN Clock
      /\ Clock[Midnight(day)].day = day /\ Clock[Midnight(day)].hour = 0
  BY <1>2 DEF Midnight
<1>. QED  BY <1>3, MktimeExact, Stamps

LEMMA MidnightOrder ==
  ASSUME NoMidnightSkipped, NEW d \in LoopDays, NEW e \in LoopDays
  PROVE  Midnight(d) <= Midnight(e) <=> d <= e
<1>. DEFINE u == Midnight(d)
            v == Midnight(e)
<1>1. /\ u \in DOMAIN Clock /\ v \in DOMAIN Clock /\ d \in Nat /\ e \in Nat
      /\ Clock[u].day = d /\ Clock[u].hour = 0 /\ Clock[v].day = e /\ Clock[v].hour = 0
  BY Midnights
<1>. HIDE DEF u, v
<1>2. u \in Int /\ v \in Int
  BY <1>1, Stamps
<1>3. u <= v => d <= e
  BY <1>1, StampOrder, DayOrder
<1>4. v <= u => e <= d
  BY <1>1, StampOrder, DayOrder
<1>5. d = e => u = v
  BY DEF u, v
<1>. QED  BY <1>1, <1>2, <1>3, <1>4, <1>5 DEF u, v

(* LocalDayStartMs and NextLocalDayStartMs.                                *)
LEMMA DayStarts ==
  ASSUME NoMidnightSkipped
  PROVE  /\ \A t \in Times : Clock[t].day \in LoopDays
                             /\ LocalDayStart(t) = Midnight(Clock[t].day)
         /\ \A d \in LoopDays : d + 1 \in LoopDays =>
              NextLocalDayStart(Midnight(d)) = Midnight(d + 1)
<1>1. ASSUME NEW t \in Times
      PROVE  Clock[t].day \in LoopDays /\ LocalDayStart(t) = Midnight(Clock[t].day)
  <2>1. 0 \in DOMAIN Clock /\ t \in DOMAIN Clock /\ 0 <= t
    BY ShardAssumption DEF Times
  <2>2. Clock[0].day \in Nat /\ Clock[t].day \in Nat /\ Clock[0].day <= Clock[t].day
    BY <2>1, Stamps, StampOrder, DayOrder
  <2>3. Clock[t].day \in LoopDays
    BY <2>2 DEF LoopDays
  <2>. QED  BY <2>3, Midnights DEF LocalDayStart
<1>2. ASSUME NEW d \in LoopDays, d + 1 \in LoopDays
      PROVE  NextLocalDayStart(Midnight(d)) = Midnight(d + 1)
  BY <1>2, Midnights DEF NextLocalDayStart
<1>. QED  BY <1>1, <1>2

(* The loop of ResolveQueryTables visits the midnights of the range in     *)
(* order and stops after the last one or after MaxDayTables turns.         *)
LEMMA DayTablesExact ==
  ASSUME NoMidnightSkipped, NEW begin \in Times, NEW end \in 1 .. MaxTime, begin < end
  PROVE  LET first == Clock[begin].day
             last  == Clock[end - 1].day
             count == IF last - first <= MaxDayTables THEN last - first + 1 ELSE MaxDayTables + 1
         IN /\ first \in Nat /\ last \in Nat /\ first <= last
            /\ DayTables(begin, end) = [n \in 1 .. count |-> first + n - 1]
<1>. DEFINE first == Clock[begin].day
            last  == Clock[end - 1].day
            M     == MaxDayTables
            count == IF last - first <= M THEN last - first + 1 ELSE M + 1
            lastStart == LastDayStart(end)
            E(f, n) == IF n = 0 THEN LocalDayStart(begin)
                       ELSE IF f[n - 1] > lastStart THEN f[n - 1] ELSE NextLocalDayStart(f[n - 1])
            start[n \in 0 .. M] ==
              IF n = 0 THEN LocalDayStart(begin)
              ELSE LET previous == start[n - 1]
                   IN IF previous > lastStart THEN previous ELSE NextLocalDayStart(previous)
            turns == {n \in 0 .. M : start[n] <= lastStart}
<1>1. DayTables(begin, end) = [n \in 1 .. Cardinality(turns) |-> DayTable(start[n - 1])]
  BY DEF DayTables
<1>2. /\ M \in Nat \ {0} /\ begin \in DOMAIN Clock /\ end - 1 \in DOMAIN Clock /\ 0 \in DOMAIN Clock
      /\ begin \in Times /\ end - 1 \in Times /\ 0 <= begin /\ begin <= end - 1
  BY ShardAssumption DEF Times
<1>3. /\ first \in Nat /\ last \in Nat /\ first <= last
      /\ Clock[0].day \in Nat /\ Clock[0].day <= first
  BY <1>2, Stamps, StampOrder, DayOrder
<1>4. /\ LocalDayStart(begin) = Midnight(first) /\ lastStart = Midnight(last)
      /\ \A d \in LoopDays : d + 1 \in LoopDays => NextLocalDayStart(Midnight(d)) = Midnight(d + 1)
  BY <1>2, DayStarts DEF LastDayStart
<1>5. \A d \in first .. last + 1 : d \in LoopDays
  BY <1>2, <1>3 DEF LoopDays
<1>. HIDE DEF first, last, lastStart, M
<1>. DEFINE day(n) == IF n <= last - first THEN first + n ELSE last + 1
            g == [n \in 0 .. M |-> Midnight(day(n))]
<1>6. \A n \in Nat : day(n) \in first .. last + 1 /\ day(n) \in LoopDays
  BY <1>3, <1>5
<1>7. ASSUME NEW n \in 0 .. M
      PROVE  g[n] <= lastStart <=> n <= last - first
  <2>1. last \in LoopDays /\ day(n) \in LoopDays
    BY <1>2, <1>3, <1>5, <1>6
  <2>2. g[n] <= lastStart <=> day(n) <= last
    BY <1>4, <2>1, MidnightOrder
  <2>. QED  BY <1>2, <1>3, <2>2
<1>8. ASSUME NEW n \in 0 .. M
      PROVE  g[n] = E(g, n)
  <2>1. CASE n = 0
    BY <1>2, <1>3, <1>4, <2>1
  <2>2. CASE n # 0
    <3>1. n \in Nat /\ n - 1 \in 0 .. M /\ n - 1 \in Nat
      BY <1>2, <2>2
    <3>2. CASE n - 1 <= last - first
      <4>1. ~(g[n - 1] > lastStart)
        <5>1. g[n - 1] \in Int /\ lastStart \in Int
          BY <1>2, <1>3, <1>4, <1>5, <1>6, <3>1, Midnights, Stamps
        <5>. QED  BY <1>7, <3>1, <3>2, <5>1
      <4>2. day(n - 1) = first + (n - 1) /\ day(n) = day(n - 1) + 1
        BY <1>2, <1>3, <3>1, <3>2
      <4>3. day(n - 1) \in LoopDays /\ day(n) \in LoopDays
        BY <1>6, <3>1
      <4>4. NextLocalDayStart(g[n - 1]) = g[n]
        BY <1>4, <3>1, <4>2, <4>3
      <4>. QED  BY <2>2, <4>1, <4>4
    <3>3. CASE ~(n - 1 <= last - first)
      <4>1. g[n - 1] > lastStart
        <5>1. g[n - 1] \in Int /\ lastStart \in Int
          BY <1>2, <1>3, <1>4, <1>5, <1>6, <3>1, Midnights, Stamps
        <5>. QED  BY <1>7, <3>1, <3>3, <5>1
      <4>2. day(n - 1) = last + 1 /\ day(n) = last + 1
        BY <1>2, <1>3, <3>1, <3>3
      <4>3. g[n] = g[n - 1]
        BY <3>1, <4>2
      <4>. QED  BY <2>2, <4>1, <4>3
    <3>. QED  BY <3>2, <3>3
  <2>. QED  BY <2>1, <2>2
<1>9. g = [n \in 0 .. M |-> E(g, n)]
  BY <1>8
<1>10. start = [n \in 0 .. M |-> E(start, n)]
  <2>. HIDE DEF g
  <2>. QED  BY <1>9
<1>11. ASSUME NEW n \in 0 .. M
       PROVE  start[n] = g[n]
  <2>. DEFINE wrong == {m \in 0 .. M : start[m] # g[m]}
  <2>1. M \in Nat /\ wrong \subseteq Nat
    BY <1>2
  <2>2. \A m \in 0 .. M : start[m] = E(start, m)
    <3>. HIDE DEF start, E
    <3>. QED  BY <1>10
  <2>3. \A m \in 0 .. M : g[m] = E(g, m)
    BY <1>8
  <2>. HIDE DEF start, g
  <2>4. ASSUME wrong # {} PROVE FALSE
    <3>1. PICK m \in wrong : \A k \in wrong : m <= k
      BY <2>1, <2>4, LeastNatural
    <3>2. m \in 0 .. M /\ start[m] # g[m]
      OBVIOUS
    <3>3. m # 0
      BY <2>2, <2>3, <3>2
    <3>4. m - 1 \in 0 .. M /\ ~(m <= m - 1)
      BY <2>1, <3>2, <3>3
    <3>5. start[m - 1] = g[m - 1]
      BY <3>1, <3>4
    <3>6. E(start, m) = E(g, m)
      BY <3>5
    <3>. QED  BY <2>2, <2>3, <3>2, <3>6
  <2>. QED  BY <2>4
<1>12. count \in Nat \ {0} /\ turns = 0 .. count - 1
  <2>. HIDE DEF start, g
  <2>1. count \in Nat \ {0}
    BY <1>2, <1>3
  <2>2. \A n \in 0 .. M : n \in turns <=> n <= last - first
    BY <1>7, <1>11
  <2>3. \A n \in 0 .. M : n <= last - first <=> n <= count - 1
    BY <1>2, <1>3
  <2>4. count - 1 \in 0 .. M
    BY <1>2, <1>3
  <2>5. turns \subseteq 0 .. M
    OBVIOUS
  <2>. HIDE DEF turns, count
  <2>6. 0 .. count - 1 \subseteq 0 .. M
    BY <1>2, <2>1, <2>4
  <2>7. \A n \in 0 .. M : n <= count - 1 <=> n \in 0 .. count - 1
    BY <1>2, <2>1
  <2>8. \A n \in 0 .. M : n \in turns <=> n \in 0 .. count - 1
    BY <2>2, <2>3, <2>7
  <2>9. turns \subseteq 0 .. count - 1
    BY <2>5, <2>8
  <2>10. 0 .. count - 1 \subseteq turns
    BY <2>6, <2>8
  <2>. QED  BY <2>1, <2>9, <2>10
<1>13. Cardinality(turns) = count
  <2>. HIDE DEF turns, count
  <2>1. Cardinality(0 .. count - 1) = count
    BY <1>12, FS_Interval
  <2>. QED  BY <1>12, <2>1
<1>14. ASSUME NEW n \in 1 .. count
       PROVE  DayTable(start[n - 1]) = first + n - 1
  <2>1. n - 1 \in 0 .. M /\ n - 1 <= last - first /\ n - 1 \in Nat
    BY <1>2, <1>3
  <2>2. start[n - 1] = Midnight(day(n - 1)) /\ day(n - 1) = first + (n - 1)
    BY <1>11, <2>1
  <2>3. Clock[Midnight(day(n - 1))].day = day(n - 1)
    BY <1>6, <2>1, Midnights
  <2>. HIDE DEF start
  <2>. QED  BY <1>3, <2>2, <2>3 DEF DayTable
<1>15. DayTables(begin, end) = [n \in 1 .. count |-> first + n - 1]
  <2>. HIDE DEF start, turns, count
  <2>. QED  BY <1>1, <1>13, <1>14
<1>. QED  BY <1>3, <1>15 DEF first, last, count, M

(* The local days of a range are those between its first and its last.     *)
LEMMA DaysOfRange ==
  ASSUME NoMidnightSkipped, NEW begin \in Times, NEW end \in 1 .. MaxTime, begin < end
  PROVE  /\ {Clock[t].day : t \in begin .. end - 1} = Clock[begin].day .. Clock[end - 1].day
         /\ Clock[begin].day .. Clock[end - 1].day \subseteq Days
<1>. DEFINE first == Clock[begin].day
            last  == Clock[end - 1].day
<1>1. /\ begin \in DOMAIN Clock /\ end - 1 \in Times /\ end - 1 \in DOMAIN Clock
      /\ 0 \in DOMAIN Clock /\ begin \in begin .. end - 1 /\ MaxTime \in Nat
      /\ begin .. end - 1 \subseteq Times /\ Times \subseteq DOMAIN Clock /\ DOMAIN Clock \subseteq Int
  BY ShardAssumption DEF Times
<1>2. /\ first \in Nat /\ last \in Nat /\ first <= last /\ Clock[0].day \in Nat
      /\ Clock[0].day <= first
  <2>1. 0 <= begin /\ begin <= end - 1
    BY <1>1, ShardAssumption DEF Times
  <2>. QED  BY <1>1, <2>1, Stamps, StampOrder, DayOrder
<1>3. ASSUME NEW t \in begin .. end - 1
      PROVE  Clock[t].day \in first .. last
  <2>1. t \in DOMAIN Clock /\ begin <= t /\ t <= end - 1
    BY <1>1
  <2>. QED  BY <1>1, <1>2, <2>1, Stamps, StampOrder, DayOrder
<1>4. ASSUME NEW d \in first .. last
      PROVE  \E t \in begin .. end - 1 : Clock[t].day = d
  <2>1. CASE d = first
    BY <1>1, <2>1
  <2>2. CASE d # first
    <3>1. d \in LoopDays
      BY <1>1, <1>2 DEF LoopDays
    <3>. DEFINE u == Midnight(d)
    <3>2. u \in DOMAIN Clock /\ Clock[u].day = d /\ Clock[u].hour = 0
      BY <3>1, Midnights
    <3>. HIDE DEF u
    <3>3. begin <= u
      <4>1. ~(u <= begin)
        <5>1. ~(d <= first)
          BY <1>2, <2>2
        <5>. QED  BY <1>1, <3>2, <5>1, StampOrder, DayOrder
      <4>. QED  BY <1>1, <3>2, <4>1, Stamps
    <3>4. Stamp(u) <= Stamp(end - 1)
      <4>. DEFINE v == end - 1
      <4>1. /\ Clock[v].hour \in Nat /\ Clock[v].day = last /\ HoursPerDay \in Nat
        BY <1>1, ShardAssumption
      <4>. HIDE DEF v
      <4>2. d * HoursPerDay <= last * HoursPerDay
        <5>1. last - d \in Nat
          BY <1>2
        <5>2. (last - d) * HoursPerDay \in Nat
          BY <4>1, <5>1
        <5>3. last * HoursPerDay = d * HoursPerDay + (last - d) * HoursPerDay
          BY <1>2, <4>1
        <5>. QED  BY <1>2, <4>1, <5>2, <5>3
      <4>3. Stamp(u) = d * HoursPerDay + 0 /\ Stamp(v) = last * HoursPerDay + Clock[v].hour
        BY <3>2, <4>1 DEF Stamp, HourNumber
      <4>4. d * HoursPerDay \in Nat /\ last * HoursPerDay \in Nat
        BY <1>2, <4>1
      <4>5. Stamp(u) <= Stamp(v)
        BY <4>1, <4>2, <4>3, <4>4
      <4>. QED  BY <4>5 DEF v
    <3>5. u \in begin .. end - 1
      BY <1>1, <3>2, <3>3, <3>4, StampOrder
    <3>. QED  BY <3>2, <3>5
  <2>. QED  BY <2>1, <2>2
<1>5. {Clock[t].day : t \in begin .. end - 1} = first .. last
  <2>. HIDE DEF first, last
  <2>. QED  BY <1>3, <1>4
<1>6. first .. last \subseteq Days
  <2>. HIDE DEF first, last
  <2>. QED  BY <1>1, <1>5 DEF Days
<1>. QED  BY <1>5, <1>6

-----------------------------------------------------------------------------
(* The conditions the route range is taken from.                           *)
LEMMA RouteLeaf ==
  ASSUME NEW query \in Queries, NEW leaf \in RouteLeaves(query)
  PROVE  /\ IsLeaf(query, leaf) /\ leaf.source = 0 /\ leaf.field = "time"
         /\ leaf.type \in {"VALUE", "BETWEEN"}
         /\ \/ leaf \in Range(query.wheres)
            \/ \E id \in AndedNodes(query) : query.root \in Nat /\ leaf = query.conditions[id + 1]
<1>1. IsQuery(query)
  BY QueryAssumption
<1>2. /\ leaf.type \in {"VALUE", "BETWEEN"} /\ leaf.source = 0 /\ leaf.field = "time"
      /\ leaf \in Range(query.wheres) \cup {query.conditions[id + 1] : id \in AndedNodes(query)}
  BY DEF RouteLeaves
<1>3. CASE leaf \in Range(query.wheres)
  BY <1>1, <1>2, <1>3 DEF IsQuery, Range
<1>4. ASSUME NEW id \in AndedNodes(query), leaf = query.conditions[id + 1]
      PROVE  IsLeaf(query, leaf) /\ query.root \in Nat
  <2>1. query.root # -1
    BY <1>4 DEF AndedNodes
  <2>2. /\ Len(query.conditions) \in Nat /\ query.root \in Nat
        /\ query.root + 1 \in 0 .. Len(query.conditions)
    BY <1>1, <2>1 DEF IsQuery
  <2>3. Ordered(query, query.root + 1)
    BY <1>1, <2>2, QueryOrdered
  <2>4. id \in 0 .. query.root /\ query.conditions[id + 1].type # "GROUP"
    BY <1>4, <2>2, <2>3, AndedAreLeaves
  <2>5. id \in 0 .. Len(query.conditions) - 1
    BY <2>2, <2>4
  <2>. QED  BY <1>1, <1>4, <2>2, <2>4, <2>5, QueryNode
<1>. QED  BY <1>2, <1>3, <1>4

(* ResolveRouteTimeRange: an accepted range lies in the calendar.          *)
LEMMA RouteRange ==
  ASSUME NEW query \in Queries, RangeCode(query) = "HDB_OK"
  PROVE  /\ RouteBegin(query) \in Times /\ RouteEnd(query) \in 1 .. MaxTime
         /\ RouteBegin(query) < RouteEnd(query)
         /\ RouteBegin(query) \in Begins(query) /\ RouteEnd(query) \in Ends(query)
         /\ \A b \in Begins(query) : b <= RouteBegin(query)
         /\ \A e \in Ends(query) : RouteEnd(query) <= e
<1>. DEFINE B == Begins(query)
            E == Ends(query)
<1>1. /\ \A leaf \in RouteLeaves(query) : ~BadLeaf(leaf)
      /\ \A b \in B, e \in E : ~(b >= e)
      /\ B # {} /\ E # {}
  BY DEF RangeCode
<1>2. /\ MaxTime \in Nat
      /\ query.time # <<>> => query.time[1] \in 0 .. MaxTime /\ query.time[2] \in 0 .. MaxTime
  BY ShardAssumption, QueryAssumption DEF IsQuery
<1>3. \A leaf \in RouteLeaves(query) :
        /\ leaf.low \in 0 .. MaxTime
        /\ leaf.op \in {"EQ", "GT", "LE"} => leaf.low + 1 \in 0 .. MaxTime
        /\ leaf.op = "BETWEEN" => leaf.high + 1 \in 0 .. MaxTime
  <2>1. ASSUME NEW leaf \in RouteLeaves(query)
        PROVE  /\ leaf.low \in 0 .. MaxTime
               /\ leaf.op = "BETWEEN" => leaf.high \in 0 .. MaxTime
    BY RouteLeaf DEF IsLeaf
  <2>. QED  BY <1>1, <1>2, <2>1 DEF BadLeaf
<1>4. B \subseteq 0 .. MaxTime /\ E \subseteq 0 .. MaxTime
  BY <1>2, <1>3 DEF Begins, Ends
<1>. HIDE DEF B, E
<1>5. \E b \in B : \A y \in B : b >= y
  <2>1. \E b \in B : \A y \in B : y <= b
    BY <1>1, <1>2, <1>4, GreatestNatural
  <2>. QED  BY <1>2, <1>4, <2>1
<1>6. Max(B) \in B /\ \A y \in B : Max(B) >= y
  BY <1>5 DEF Max
<1>7. \E e \in E : \A y \in E : e <= y
  <2>1. E \subseteq Nat
    BY <1>2, <1>4
  <2>. QED  BY <1>1, <2>1, LeastNatural
<1>8. Min(E) \in E /\ \A y \in E : Min(E) <= y
  BY <1>7 DEF Min
<1>9. RouteBegin(query) = Max(B) /\ RouteEnd(query) = Min(E)
  BY DEF RouteBegin, RouteEnd, B, E
<1>10. Max(B) \in 0 .. MaxTime /\ Min(E) \in 0 .. MaxTime /\ ~(Max(B) >= Min(E))
  BY <1>1, <1>4, <1>6, <1>8
<1>11. RouteBegin(query) \in Begins(query) /\ RouteEnd(query) \in Ends(query)
  BY <1>6, <1>8, <1>9 DEF B, E
<1>12. /\ \A b \in Begins(query) : b <= RouteBegin(query)
       /\ \A e \in Ends(query) : RouteEnd(query) <= e
  <2>1. \A b \in B : b <= Max(B)
    BY <1>2, <1>4, <1>6
  <2>. QED  BY <1>8, <1>9, <2>1 DEF B, E
<1>. HIDE DEF B, E
<1>. QED  BY <1>2, <1>9, <1>10, <1>11, <1>12 DEF Times

(* The tables of an accepted query are the days of its range, each once.   *)
LEMMA AcceptedTables ==
  ASSUME NoMidnightSkipped, NEW query \in Queries, QueryCode(query) = "HDB_OK"
  PROVE  /\ RouteBegin(query) \in Nat /\ RouteEnd(query) \in Nat
         /\ TablesOf(query) \in BoundedSeq(Days, MaxDayTables)
         /\ Range(TablesOf(query)) =
              {Clock[t].day : t \in RouteBegin(query) .. RouteEnd(query) - 1}
         /\ IsInjective(TablesOf(query))
<1>. DEFINE begin == RouteBegin(query)
            end   == RouteEnd(query)
            first == Clock[begin].day
            last  == Clock[end - 1].day
            count == IF last - first <= MaxDayTables THEN last - first + 1 ELSE MaxDayTables + 1
            T     == TablesOf(query)
<1>1. RangeCode(query) = "HDB_OK" /\ ~(Len(T) > MaxDayTables)
  BY DEF QueryCode
<1>2. begin \in Times /\ end \in 1 .. MaxTime /\ begin < end
  BY <1>1, RouteRange
<1>3. T = DayTables(begin, end)
  BY <1>1 DEF TablesOf, Routes
<1>. HIDE DEF begin, end, T
<1>4. /\ first \in Nat /\ last \in Nat /\ first <= last
      /\ T = [n \in 1 .. count |-> first + n - 1]
  BY <1>2, <1>3, DayTablesExact
<1>5. /\ {Clock[t].day : t \in begin .. end - 1} = first .. last
      /\ first .. last \subseteq Days
  BY <1>2, DaysOfRange
<1>. HIDE DEF first, last
<1>6. MaxDayTables \in Nat /\ count \in Nat
  BY <1>4, ShardAssumption
<1>7. Len(T) = count
  <2>. HIDE DEF count
  <2>. QED  BY <1>4, <1>6
<1>8. count = last - first + 1 /\ count \in 0 .. MaxDayTables
  BY <1>1, <1>4, <1>6, <1>7
<1>. HIDE DEF count
<1>9. \A n \in 1 .. count : T[n] = first + n - 1 /\ T[n] \in first .. last
  BY <1>4, <1>8
<1>10. T \in BoundedSeq(Days, MaxDayTables)
  <2>1. T \in [1 .. count -> Days]
    BY <1>4, <1>5, <1>9
  <2>2. BoundedSeq(Days, MaxDayTables) = UNION {[1 .. m -> Days] : m \in 0 .. MaxDayTables}
    BY DEF BoundedSeq, SeqOf
  <2>. QED  BY <1>8, <2>1, <2>2
<1>11. Range(T) = first .. last
  <2>1. DOMAIN T = 1 .. count
    BY <1>4
  <2>2. ASSUME NEW d \in first .. last
        PROVE  \E n \in 1 .. count : T[n] = d
    <3>1. d - first + 1 \in 1 .. count /\ first + (d - first + 1) - 1 = d
      BY <1>4, <1>8
    <3>. QED  BY <1>9, <3>1
  <2>. QED  BY <1>9, <2>1, <2>2 DEF Range
<1>12. IsInjective(T)
  <2>1. DOMAIN T = 1 .. count
    BY <1>4
  <2>2. \A m, n \in 1 .. count : first + m - 1 = first + n - 1 => m = n
    BY <1>4, <1>6
  <2>. QED  BY <1>9, <2>1, <2>2 DEF IsInjective
<1>13. begin \in Nat /\ end \in Nat
  BY <1>2, ShardAssumption DEF Times
<1>. QED  BY <1>5, <1>10, <1>11, <1>12, <1>13 DEF begin, end, T

-----------------------------------------------------------------------------
(* The rows.  The inductive invariant says of a stored row that it has the *)
(* stamp of an instant of the calendar, and of its day what holds where    *)
(* the route field is not updatable.                                       *)

TablesOK ==
  /\ tables \in [Days -> SUBSET StoredRows]
  /\ statement \in {Logical!Nothing} \cup Logical!Statements

RowsInv == TablesOK /\ (~RouteUpdatable => RowsInTheirDay)

LEMMA RowsInitially == Init => RowsInv
BY DEF Init, RowsInv, TablesOK, RowsInTheirDay

RowOfDay(r, day) ==
  /\ r \in StoredRows
  /\ ~RouteUpdatable => Clock[Instant(r.time)].day = day

(* A statement that replaces rows of one table by rows of the same day.    *)
LEMMA ReplaceRows ==
  ASSUME RowsInv, NEW day, NEW hit, NEW new,
         day \in Days => \A r \in new : RowOfDay(r, day),
         tables' = [tables EXCEPT ![day] = (@ \ hit) \cup new], UNCHANGED statement
  PROVE  RowsInv'
<1>1. /\ tables \in [Days -> SUBSET StoredRows]
      /\ \A d \in Days : \A r \in tables[d] : RowOfDay(r, d)
      /\ statement \in {Logical!Nothing} \cup Logical!Statements
  BY DEF RowsInv, TablesOK, RowsInTheirDay, RowOfDay
<1>2. /\ \A d \in Days : tables'[d] = IF d = day THEN (tables[d] \ hit) \cup new ELSE tables[d]
      /\ DOMAIN tables' = Days /\ tables' = [d \in Days |-> tables'[d]]
  BY <1>1
<1>3. \A d \in Days : \A r \in tables'[d] : RowOfDay(r, d)
  BY <1>1, <1>2
<1>4. tables' \in [Days -> SUBSET StoredRows]
  BY <1>2, <1>3 DEF RowOfDay
<1>. QED  BY <1>1, <1>3, <1>4 DEF RowsInv, TablesOK, RowsInTheirDay, RowOfDay

LEMMA SameRows ==
  ASSUME RowsInv, UNCHANGED <<tables, statement>>
  PROVE  RowsInv'
BY DEF RowsInv, TablesOK, RowsInTheirDay

LEMMA InsertStep ==
  ASSUME RowsInv, Insert, statement # Logical!Nothing, UNCHANGED statement
  PROVE  RowsInv'
<1>1. CASE Fails(InsertCode)
  BY <1>1, SameRows DEF Fails
<1>2. CASE /\ InsertCode = "HDB_OK"
           /\ tables' = [tables EXCEPT ![DayTable(statement.row.time)] =
                           @ \cup {[key |-> statement.row.key, level |-> statement.row.level,
                                    time |-> Stamp(statement.row.time)]}]
  <2>. DEFINE t   == statement.row.time
              new == [key |-> statement.row.key, level |-> statement.row.level, time |-> Stamp(t)]
  <2>1. statement \in Logical!Statements /\ statement.kind = "insert"
    BY <1>2 DEF RowsInv, TablesOK, Insert, InsertCode
  <2>2. statement.row \in Logical!Row
    BY <2>1 DEF Logical!Statements
  <2>3. statement.row.key \in Keys /\ statement.row.level \in Levels /\ t \in Times
        /\ t \in DOMAIN Clock
    BY <2>2, TimesInClock, ShardAssumption DEF Logical!Row
  <2>4. Clock[Instant(Stamp(t))].day = Clock[t].day
    BY <2>3, StampKeepsDay
  <2>5. RowOfDay(new, DayTable(t))
    BY <2>3, <2>4 DEF RowOfDay, StoredRows, DayTable
  <2>. HIDE DEF new
  <2>6. tables' = [tables EXCEPT ![DayTable(t)] = (@ \ {}) \cup {new}]
    BY <1>2 DEF new
  <2>7. \A r \in {new} : RowOfDay(r, DayTable(t))
    BY <2>5
  <2>. QED  BY <2>6, <2>7, ReplaceRows
<1>. QED  BY <1>1, <1>2 DEF Insert

LEMMA DeleteStep ==
  ASSUME RowsInv, NEW query, Delete(query), UNCHANGED statement
  PROVE  RowsInv'
<1>1. CASE Fails(DmlCode(query))
  BY <1>1, SameRows DEF Fails
<1>2. CASE Changes(query, {})
  <2>. DEFINE day == TablesOf(query)[1]
              hit == Hit(query)
              new == {}
  <2>1. tables' = [tables EXCEPT ![day] = (@ \ hit) \cup new]
    BY <1>2 DEF Changes
  <2>2. day \in Days => \A r \in new : RowOfDay(r, day)
    OBVIOUS
  <2>. HIDE DEF day, hit, new
  <2>. QED  BY <2>1, <2>2, ReplaceRows
<1>. QED  BY <1>1, <1>2 DEF Delete

(* Without HDB_FIELD_UPDATE on the route field only the level can be set.  *)
LEMMA UpdateStep ==
  ASSUME RowsInv, NEW query, NEW set \in Logical!Set, Update(query, set), UNCHANGED statement
  PROVE  RowsInv'
<1>. DEFINE day == TablesOf(query)[1]
            hit == Hit(query)
            new == {Assigned(r, set) : r \in hit}
<1>1. CASE Fails(UpdateCode(query, set))
  BY <1>1, SameRows DEF Fails
<1>2. CASE UpdateCode(query, set) = "HDB_OK" /\ Changes(query, new)
  <2>1. ASSUME day \in Days, NEW r \in hit
        PROVE  RowOfDay(Assigned(r, set), day)
    <3>1. r \in tables[day]
      BY <2>1 DEF Hit, DmlRows
    <3>2. r \in StoredRows /\ (~RouteUpdatable => Clock[Instant(r.time)].day = day)
      BY <2>1, <3>1 DEF RowsInv, TablesOK, RowsInTheirDay
    <3>. HIDE DEF day
    <3>3. CASE set.field # "time"
      <4>1. set.value \in Levels /\ Assigned(r, set) = [r EXCEPT !.level = set.value]
        BY <3>3 DEF Assigned, Logical!Set
      <4>2. Assigned(r, set) \in StoredRows /\ Assigned(r, set).time = r.time
        BY <3>2, <4>1 DEF StoredRows
      <4>. QED  BY <3>2, <4>2 DEF RowOfDay
    <3>4. CASE set.field = "time"
      <4>1. RouteUpdatable
        BY <1>2, <3>4 DEF UpdateCode
      <4>2. set.value \in Times /\ Assigned(r, set) = [r EXCEPT !.time = Stamp(set.value)]
        BY <3>4, ShardAssumption DEF Assigned, Logical!Set
      <4>3. Assigned(r, set) \in StoredRows
        BY <3>2, <4>2 DEF StoredRows
      <4>. QED  BY <4>1, <4>3 DEF RowOfDay
    <3>. QED  BY <3>3, <3>4
  <2>. HIDE DEF day, hit
  <2>2. day \in Days => \A r \in new : RowOfDay(r, day)
    BY <2>1
  <2>3. tables' = [tables EXCEPT ![day] = (@ \ hit) \cup new]
    BY <1>2 DEF Changes, day, hit
  <2>. HIDE DEF new
  <2>. QED  BY <2>2, <2>3, ReplaceRows
<1>. QED  BY <1>1, <1>2 DEF Update

LEMMA RowsStep ==
  ASSUME RowsInv, [Next]_vars
  PROVE  RowsInv'
<1>1. CASE UNCHANGED vars
  BY <1>1, SameRows DEF vars
<1>2. ASSUME NEW s \in Logical!Statements, Send(s)
      PROVE  RowsInv'
  BY <1>2 DEF Send, RowsInv, TablesOK, RowsInTheirDay
<1>3. CASE Return
  BY <1>3 DEF Return, RowsInv, TablesOK, RowsInTheirDay
<1>4. CASE Execute
  <2>1. statement # Logical!Nothing /\ UNCHANGED statement /\ statement \in Logical!Statements
    BY <1>4 DEF Execute, RowsInv, TablesOK
  <2>2. CASE Insert
    BY <2>1, <2>2, InsertStep
  <2>3. CASE Select(statement.query)
    BY <2>1, <2>3, SameRows DEF Select, Fails
  <2>4. CASE statement.kind = "update" /\ Update(statement.query, statement.set)
    <3>1. statement.set \in Logical!Set
      BY <2>1, <2>4 DEF Logical!Statements
    <3>. QED  BY <2>1, <2>4, <3>1, UpdateStep
  <2>5. CASE Delete(statement.query)
    BY <2>1, <2>5, DeleteStep
  <2>. QED  BY <1>4, <2>2, <2>3, <2>4, <2>5 DEF Execute
<1>. QED  BY <1>1, <1>2, <1>3, <1>4 DEF Next

LEMMA RowsAlways == Spec => []RowsInv
<1>1. RowsInv /\ [Next]_vars => RowsInv'
  BY RowsStep
<1>. QED  BY <1>1, RowsInitially, PTL DEF Spec

(* A dataset whose route field lacks HDB_FIELD_UPDATE keeps every row in   *)
(* the table of its own day, where the router will look for it.            *)
THEOREM RowsStayInTheirDay ==
  ASSUME ~RouteUpdatable
  PROVE  Spec => []RowsInTheirDay
<1>1. RowsInv => RowsInTheirDay
  BY DEF RowsInv
<1>. QED  BY <1>1, RowsAlways, PTL

-----------------------------------------------------------------------------
(* What a statement names.                                                 *)

NamedInv ==
  /\ named = NoTables \/ \E query \in Queries : QueryCode(query) = "HDB_OK" /\ named = Named(query)
  /\ statement \in {Logical!Nothing} \cup Logical!Statements
  /\ answer = Logical!Nothing \/ answer.kind \in {"failed", "rows", "affected"}

LEMMA NamedStep ==
  ASSUME NamedInv, [Next]_vars
  PROVE  NamedInv'
<1>1. CASE UNCHANGED vars
  BY <1>1 DEF vars, NamedInv
<1>2. ASSUME NEW s \in Logical!Statements, Send(s)
      PROVE  NamedInv'
  BY <1>2 DEF Send, NamedInv
<1>3. CASE Return
  BY <1>3 DEF Return, NamedInv
<1>4. CASE Execute
  <2>1. statement \in Logical!Statements /\ UNCHANGED statement
    BY <1>4 DEF Execute, NamedInv
  <2>2. ASSUME NEW code, Fails(code)
        PROVE  NamedInv'
    BY <2>1, <2>2 DEF Fails, NamedInv
  <2>3. ASSUME NEW query \in Queries, QueryCode(query) = "HDB_OK", named' = Named(query),
               answer'.kind \in {"rows", "affected"}
        PROVE  NamedInv'
    BY <2>1, <2>3 DEF NamedInv
  <2>4. CASE Insert
    BY <2>1, <2>2, <2>4 DEF Insert, NamedInv
  <2>5. CASE statement.kind = "select" /\ Select(statement.query)
    <3>1. statement.query \in Queries
      BY <2>1, <2>5 DEF Logical!Statements
    <3>. DEFINE query == statement.query
    <3>2. CASE Fails(SelectCode(query))
      BY <2>2, <3>2
    <3>3. CASE SelectCode(query) = "HDB_OK" /\ named' = Named(query)
               /\ \E rows : answer' = [kind |-> "rows", found |-> rows]
      <4>1. QueryCode(query) = "HDB_OK"
        BY <3>3 DEF SelectCode
      <4>2. answer'.kind = "rows"
        BY <3>3
      <4>. QED  BY <2>3, <3>1, <3>3, <4>1, <4>2
    <3>. HIDE DEF query
    <3>4. Select(query) =>
            \/ Fails(SelectCode(query))
            \/ /\ SelectCode(query) = "HDB_OK" /\ named' = Named(query)
               /\ \E rows : answer' = [kind |-> "rows", found |-> rows]
      BY Zenon DEF Select
    <3>. QED  BY <2>5, <3>2, <3>3, <3>4 DEF query
  <2>6. ASSUME NEW query \in Queries, DmlCode(query) = "HDB_OK", NEW rows, Changes(query, rows)
        PROVE  NamedInv'
    BY <2>3, <2>6 DEF DmlCode, Changes
  <2>7. CASE statement.kind = "update" /\ Update(statement.query, statement.set)
    <3>1. statement.query \in Queries
      BY <2>1, <2>7 DEF Logical!Statements
    <3>. DEFINE query == statement.query
                code  == UpdateCode(query, statement.set)
    <3>2. CASE Fails(code)
      BY <2>2, <3>2
    <3>3. CASE code = "HDB_OK" /\ \E rows : Changes(query, rows)
      <4>1. DmlCode(query) = "HDB_OK"
        BY <3>3 DEF UpdateCode
      <4>2. PICK rows : Changes(query, rows)
        BY <3>3
      <4>. QED  BY <2>6, <3>1, <4>1, <4>2
    <3>. QED  BY <2>7, <3>2, <3>3 DEF Update
  <2>8. CASE statement.kind = "delete" /\ Delete(statement.query)
    <3>1. statement.query \in Queries
      BY <2>1, <2>8 DEF Logical!Statements
    <3>. DEFINE query == statement.query
    <3>2. CASE Fails(DmlCode(query))
      BY <2>2, <3>2
    <3>3. CASE DmlCode(query) = "HDB_OK" /\ Changes(query, {})
      BY <2>6, <3>1, <3>3
    <3>. QED  BY <2>8, <3>2, <3>3 DEF Delete
  <2>. QED  BY <1>4, <2>4, <2>5, <2>7, <2>8 DEF Execute
<1>. QED  BY <1>1, <1>2, <1>3, <1>4 DEF Next

LEMMA NamedAlways == Spec => []NamedInv
<1>1. Init => NamedInv
  BY DEF Init, NamedInv
<1>2. NamedInv /\ [Next]_vars => NamedInv'
  BY NamedStep
<1>. QED  BY <1>1, <1>2, PTL DEF Spec

(* Where no midnight is skipped, the loop of ResolveQueryTables names      *)
(* exactly the local days of the half-open route range, each once: no day  *)
(* is scanned for nothing and none is left out, however long the range.    *)
THEOREM NamedDaysExact ==
  ASSUME NoMidnightSkipped
  PROVE  Spec => []TablesAreTheDays
<1>1. ASSUME NamedInv PROVE TablesAreTheDays
  <2>1. CASE named = NoTables
    BY <2>1 DEF TablesAreTheDays, NoTables
  <2>2. ASSUME NEW query \in Queries, QueryCode(query) = "HDB_OK", named = Named(query)
        PROVE  TablesAreTheDays
    BY <2>2, AcceptedTables DEF TablesAreTheDays, Named
  <2>. QED  BY <1>1, <2>1, <2>2 DEF NamedInv
<1>. QED  BY <1>1, NamedAlways, PTL

(* The day tables hold rows, and a statement names at most MaxDayTables of *)
(* them.                                                                   *)
THEOREM TypeCorrect ==
  ASSUME NoMidnightSkipped
  PROVE  Spec => []TypeOK
<1>1. ASSUME RowsInv, NamedInv PROVE TypeOK
  <2>. DEFINE T == [begin : Nat, end : Nat, days : BoundedSeq(Days, MaxDayTables)]
  <2>1. ASSUME named = NoTables PROVE named \in T
    <3>1. <<>> \in BoundedSeq(Days, MaxDayTables)
      <4>1. 0 \in 0 .. MaxDayTables /\ <<>> \in [1 .. 0 -> Days]
        BY ShardAssumption
      <4>. QED  BY <4>1 DEF BoundedSeq, SeqOf
    <3>. QED  BY <2>1, <3>1 DEF NoTables
  <2>2. ASSUME NEW query \in Queries, QueryCode(query) = "HDB_OK", named = Named(query)
        PROVE  named \in T
    BY <2>2, AcceptedTables DEF Named
  <2>3. named \in T
    BY <1>1, <2>1, <2>2 DEF NamedInv
  <2>. QED  BY <1>1, <2>3 DEF TypeOK, RowsInv, TablesOK, NamedInv
<1>. QED  BY <1>1, RowsAlways, NamedAlways, PTL

(* The day tables of a query are a sequence.                               *)
LEMMA TablesSequence ==
  ASSUME NEW query \in Queries
  PROVE  Len(TablesOf(query)) \in Nat /\ DOMAIN TablesOf(query) = 1 .. Len(TablesOf(query))
<1>1. CASE RangeCode(query) # "HDB_OK"
  <2>1. TablesOf(query) = <<>>
    BY <1>1 DEF TablesOf, Routes
  <2>. QED  BY <2>1
<1>2. CASE RangeCode(query) = "HDB_OK"
  <2>. DEFINE begin == RouteBegin(query)
              end == RouteEnd(query)
              last == LastDayStart(end)
              start[n \in 0 .. MaxDayTables] ==
                IF n = 0 THEN LocalDayStart(begin)
                ELSE LET previous == start[n - 1]
                     IN IF previous > last THEN previous ELSE NextLocalDayStart(previous)
              turns == {n \in 0 .. MaxDayTables : start[n] <= last}
              day(n) == DayTable(start[n - 1])
              count == Cardinality(turns)
  <2>1. TablesOf(query) = [n \in 1 .. count |-> day(n)]
    BY <1>2 DEF TablesOf, Routes, DayTables
  <2>. HIDE DEF start, day
  <2>2. count \in Nat
    <3>1. IsFiniteSet(0 .. MaxDayTables)
      BY ShardAssumption, FS_Interval
    <3>2. IsFiniteSet(turns)
      BY <3>1, FS_Subset
    <3>. QED  BY <3>2, FS_CardinalityType
  <2>. HIDE DEF count
  <2>. QED  BY <2>1, <2>2
<1>. QED  BY <1>1, <1>2

(* What CollectRootColumns gathers is all the outer statement names.       *)
LEMMA ColumnsReturned ==
  ASSUME NEW query \in Queries
  PROVE  OuterColumns(query) \subseteq RootColumns(query)
<1>. DEFINE roots == {query.root} \cup {query.sources[n].on : n \in DOMAIN query.sources}
            ids    == UNION {JoinOn!Leaves(query, root) : root \in roots \ {-1}}
            leaves == {query.conditions[id + 1] : id \in ids}
            refs   == query.selects \cup ConditionFields(query)
                        \cup {[source |-> w.source, field |-> w.field] : w \in Range(query.wheres)}
                        \cup {[source |-> o.source, field |-> o.field] : o \in Range(query.orders)}
            named_ == {ref.field : ref \in {x \in refs : x.source = 0}}
<1>1. IsQuery(query)
  BY QueryAssumption
<1>2. roots \ {-1} \subseteq 0 .. Len(query.conditions) - 1
  BY <1>1 DEF IsQuery
<1>3. \A c \in leaves : c \in Range(query.conditions) /\ c.type # "GROUP"
  <2>1. \A root \in roots \ {-1} : \A id \in JoinOn!Leaves(query, root) :
          id + 1 \in DOMAIN query.conditions /\ query.conditions[id + 1].type # "GROUP"
    <3>. HIDE DEF roots
    <3>. QED  BY <1>1, <1>2, QueryLeaves
  <2>. HIDE DEF roots
  <2>. QED  BY <2>1 DEF Range
<1>4. RootColumns(query) = {"time"} \cup named_
  BY DEF RootColumns
<1>5. ASSUME NEW ref \in query.selects, ref.source = 0 PROVE ref.field \in named_
  BY <1>5
<1>6. ASSUME NEW o \in Range(query.orders), o.source = 0 PROVE o.field \in named_
  <2>1. [source |-> o.source, field |-> o.field] \in refs
    OBVIOUS
  <2>. HIDE DEF refs
  <2>. QED  BY <1>6, <2>1
<1>7. ASSUME NEW c \in leaves, c.source = 0 PROVE c.field \in named_
  <2>1. [source |-> c.source, field |-> c.field] \in refs
    <3>1. [source |-> c.source, field |-> c.field] \in LeftFields(query)
      <4>. HIDE DEF leaves
      <4>. QED  BY <1>3 DEF LeftFields
    <3>. QED  BY <3>1 DEF ConditionFields
  <2>. HIDE DEF refs, leaves
  <2>. QED  BY <1>7, <2>1
<1>8. ASSUME NEW c \in leaves, c.type = "FIELD_COMPARE", c.right = 0 PROVE c.rightField \in named_
  <2>1. [source |-> c.right, field |-> c.rightField] \in refs
    <3>1. [source |-> c.right, field |-> c.rightField] \in RightFields(query)
      <4>. HIDE DEF leaves
      <4>. QED  BY <1>3, <1>8 DEF RightFields
    <3>. QED  BY <3>1 DEF ConditionFields
  <2>. HIDE DEF refs, leaves
  <2>. QED  BY <1>8, <2>1
<1>9. OuterColumns(query) =
        {ref.field : ref \in {x \in query.selects : x.source = 0}}
        \cup {o.field : o \in {x \in Range(query.orders) : x.source = 0}}
        \cup {c.field : c \in {x \in leaves : x.source = 0}}
        \cup {c.rightField : c \in {x \in leaves : x.type = "FIELD_COMPARE" /\ x.right = 0}}
  BY DEF OuterColumns
<1>. HIDE DEF leaves, named_
<1>. QED  BY <1>4, <1>5, <1>6, <1>7, <1>8, <1>9

-----------------------------------------------------------------------------
(* What fails.                                                             *)

(* BuildJoins refuses an ON condition before the database sees it.         *)
LEMMA RefusedJoin ==
  ASSUME NEW query
  PROVE  JoinsRefusal(query) \in {"HDB_ERR_FIELD_REF", "HDB_ERR_QUERY_RANGE"}
BY DEF JoinsRefusal, JoinOn!JoinOnRefusal

FailsInv ==
  /\ statement \in {Logical!Nothing} \cup Logical!Statements
  /\ statement = Logical!Nothing => answer = Logical!Nothing
  /\ OnlyMissingTablesFail

LEMMA FailsStep ==
  ASSUME FailsInv, [Next]_vars
  PROVE  FailsInv'
<1>1. CASE UNCHANGED vars
  BY <1>1 DEF vars, FailsInv, OnlyMissingTablesFail
<1>2. ASSUME NEW s \in Logical!Statements, Send(s)
      PROVE  FailsInv'
  <2>1. answer' = Logical!Nothing /\ statement' \in Logical!Statements
    BY <1>2 DEF Send, FailsInv
  <2>2. OnlyMissingTablesFail'
    BY <2>1 DEF OnlyMissingTablesFail, Logical!Nothing
  <2>. QED  BY <2>1, <2>2 DEF FailsInv
<1>3. CASE Return
  <2>1. answer' = Logical!Nothing /\ statement' = Logical!Nothing
    BY <1>3 DEF Return
  <2>2. OnlyMissingTablesFail'
    BY <2>1 DEF OnlyMissingTablesFail, Logical!Nothing
  <2>. QED  BY <2>1, <2>2 DEF FailsInv
<1>4. CASE Execute
  <2>1. /\ statement \in Logical!Statements /\ UNCHANGED statement
        /\ statement # Logical!Nothing
    BY <1>4 DEF Execute, FailsInv
  <2>2. SUFFICES OnlyMissingTablesFail'
    BY <2>1 DEF FailsInv
  <2>3. ASSUME answer'.kind # "failed" PROVE OnlyMissingTablesFail'
    BY <2>3 DEF OnlyMissingTablesFail
  <2>4. CASE Insert
    <3>1. CASE InsertCode = "HDB_OK"
      <4>1. answer'.kind = "affected"
        BY <2>4, <3>1 DEF Insert
      <4>. QED  BY <2>3, <4>1
    <3>2. CASE InsertCode # "HDB_OK"
      <4>1. answer'.code = InsertCode
        BY <2>4, <3>2 DEF Insert, Fails
      <4>2. answer'.code = "HDB_ERR_DB_EXEC" =>
              statement.kind = "insert" /\ DayTable(statement.row.time) \notin Existing
        BY <2>4, <4>1 DEF Insert, InsertCode
      <4>. QED  BY <2>1, <4>2 DEF OnlyMissingTablesFail
    <3>. QED  BY <3>1, <3>2
  <2>5. ASSUME statement.kind # "insert", NEW code, Fails(code),
               code = "HDB_ERR_DB_EXEC" => ~(Range(TablesOf(statement.query)) \subseteq Existing)
        PROVE  OnlyMissingTablesFail'
    <3>1. answer'.code = code
      BY <2>5 DEF Fails
    <3>. QED  BY <2>1, <2>5, <3>1 DEF OnlyMissingTablesFail
  <2>6. QueryCode(statement.query) # "HDB_ERR_DB_EXEC"
    BY DEF QueryCode, RangeCode
  <2>7. SourcesCode(statement.query) # "HDB_ERR_DB_EXEC"
    BY DEF SourcesCode, SourceCode
  <2>8. ASSUME statement.kind \in {"update", "delete"}, DmlCode(statement.query) = "HDB_ERR_DB_EXEC"
        PROVE  ~(Range(TablesOf(statement.query)) \subseteq Existing)
    <3>. DEFINE days == TablesOf(statement.query)
    <3>1. Len(days) = 1 /\ days[1] \notin Existing
      BY <2>6, <2>7, <2>8 DEF DmlCode
    <3>2. statement.query \in Queries
      BY <2>1, <2>8 DEF Logical!Statements
    <3>3. DOMAIN days = 1 .. Len(days)
      BY <3>2, TablesSequence
    <3>. QED  BY <3>1, <3>3 DEF Range
  <2>9. CASE statement.kind = "select" /\ Select(statement.query)
    <3>1. CASE Fails(SelectCode(statement.query))
      <4>1. statement.query \in Queries
        BY <2>1, <2>9 DEF Logical!Statements
      <4>2. OuterColumns(statement.query) \subseteq RootColumns(statement.query)
        BY <4>1, ColumnsReturned
      <4>3. SelectCode(statement.query) = "HDB_ERR_DB_EXEC" =>
              ~(Range(TablesOf(statement.query)) \subseteq Existing)
        BY <2>6, <2>7, <4>2, RefusedJoin DEF SelectCode
      <4>. QED  BY <2>5, <2>9, <3>1, <4>3
    <3>2. CASE \E rows : answer' = [kind |-> "rows", found |-> rows]
      BY <2>3, <3>2
    <3>3. Select(statement.query) =>
            \/ Fails(SelectCode(statement.query))
            \/ \E rows : answer' = [kind |-> "rows", found |-> rows]
      BY Zenon DEF Select
    <3>. QED  BY <2>9, <3>1, <3>2, <3>3
  <2>10. ASSUME NEW rows, Changes(statement.query, rows) PROVE OnlyMissingTablesFail'
    <3>1. answer'.kind = "affected"
      BY <2>10 DEF Changes
    <3>. QED  BY <2>3, <3>1
  <2>11. CASE statement.kind = "update" /\ Update(statement.query, statement.set)
    <3>1. CASE Fails(UpdateCode(statement.query, statement.set))
      <4>1. UpdateCode(statement.query, statement.set) = "HDB_ERR_DB_EXEC" =>
              DmlCode(statement.query) = "HDB_ERR_DB_EXEC"
        BY DEF UpdateCode
      <4>. QED  BY <2>5, <2>8, <2>11, <3>1, <4>1
    <3>. QED  BY <2>10, <2>11, <3>1 DEF Update
  <2>12. CASE statement.kind = "delete" /\ Delete(statement.query)
    <3>1. CASE Fails(DmlCode(statement.query))
      BY <2>5, <2>8, <2>12, <3>1
    <3>. QED  BY <2>10, <2>12, <3>1 DEF Delete
  <2>. QED  BY <1>4, <2>4, <2>9, <2>11, <2>12 DEF Execute
<1>. QED  BY <1>1, <1>2, <1>3, <1>4 DEF Next

THEOREM OnlyMissingTables == Spec => []OnlyMissingTablesFail
<1>1. Init => FailsInv
  BY DEF Init, FailsInv, OnlyMissingTablesFail, Logical!Nothing
<1>2. FailsInv /\ [Next]_vars => FailsInv'
  BY FailsStep
<1>3. FailsInv => OnlyMissingTablesFail
  BY DEF FailsInv
<1>. QED  BY <1>1, <1>2, <1>3, PTL DEF Spec

-----------------------------------------------------------------------------
(* The day tables as one table.  Joined rows of the logical table are the  *)
(* joined rows of the database with instants for stamps and with all the   *)
(* columns of the root.                                                    *)

IsRow(r) ==
  /\ r = [key |-> r.key, level |-> r.level, time |-> r.time]
  /\ r.time \in 0 .. MaxTime

Store(r) == [r EXCEPT !.time = Stamp(@)]
Real(r)  == [r EXCEPT !.time = Instant(@)]

Coded(field, value) == IF field = "time" THEN Stamp(value) ELSE value

Stored(cols, joined) ==
  [k \in DOMAIN joined |->
     IF joined[k] = Logical!NoRow THEN Logical!NoRow
     ELSE IF k = 1 THEN [column \in cols |-> Store(joined[1])[column]]
     ELSE Store(joined[k])]

LEMMA InstantOfStamp ==
  ASSUME NEW t \in DOMAIN Clock
  PROVE  Instant(Stamp(t)) = t
<1>. DEFINE u == Instant(Stamp(t))
<1>1. t \in Int /\ u \in DOMAIN Clock /\ Stamp(u) = Stamp(t) /\ Stamp(t) \in Nat
  BY Stamps
<1>. HIDE DEF u
<1>2. u \in Int
  BY <1>1, Stamps
<1>3. Stamp(u) <= Stamp(t) /\ Stamp(t) <= Stamp(u)
  BY <1>1
<1>4. u <= t /\ t <= u
  BY <1>1, <1>3, StampOrder
<1>5. u = t
  BY <1>1, <1>2, <1>4
<1>. QED  BY <1>5 DEF u

LEMMA MomentsInClock ==
  ASSUME NEW t \in 0 .. MaxTime
  PROVE  t \in DOMAIN Clock /\ t \in Int /\ Stamp(t) \in Nat /\ Instant(Stamp(t)) = t
<1>1. t \in DOMAIN Clock
  BY ShardAssumption
<1>. QED  BY <1>1, Stamps, InstantOfStamp

LEMMA StoreFields ==
  ASSUME NEW r, IsRow(r)
  PROVE  /\ DOMAIN r = FieldNames /\ DOMAIN Store(r) = FieldNames
         /\ r # Logical!NoRow /\ Store(r) # Logical!NoRow
         /\ \A field \in FieldNames : Store(r)[field] = Coded(field, r[field])
         /\ Store(r).time = Stamp(r.time) /\ Store(r).key = r.key /\ Store(r).level = r.level
<1>1. r = [key |-> r.key, level |-> r.level, time |-> r.time]
  BY DEF IsRow
<1>2. DOMAIN r = FieldNames
  <2>1. DOMAIN [key |-> r.key, level |-> r.level, time |-> r.time] = FieldNames
    BY DEF FieldNames
  <2>. QED  BY <1>1, <2>1
<1>3. DOMAIN Store(r) = FieldNames
  BY <1>2 DEF Store
<1>4. DOMAIN Logical!NoRow = {"kind"}
  BY DEF Logical!NoRow
<1>5. "key" \in FieldNames /\ "key" \notin {"kind"}
  BY DEF FieldNames
<1>6. \A field \in FieldNames : Store(r)[field] = Coded(field, r[field])
  BY <1>2 DEF Store, Coded
<1>7. "key" \in FieldNames /\ "level" \in FieldNames /\ "time" \in FieldNames
  BY DEF FieldNames
<1>8. Store(r).time = Stamp(r.time) /\ Store(r).key = r.key /\ Store(r).level = r.level
  BY <1>6, <1>7 DEF Coded
<1>. QED  BY <1>2, <1>3, <1>4, <1>5, <1>6, <1>8

LEMMA StoreInjective ==
  ASSUME NEW r, NEW s, IsRow(r), IsRow(s), Store(r) = Store(s)
  PROVE  r = s
<1>1. r.key = s.key /\ r.level = s.level /\ Stamp(r.time) = Stamp(s.time)
  BY StoreFields
<1>2. r.time = s.time
  BY <1>1, MomentsInClock DEF IsRow
<1>. QED  BY <1>1, <1>2 DEF IsRow

(* A stored row and the row it stands for.                                 *)
LEMMA RealRow ==
  ASSUME NEW r \in StoredRows
  PROVE  /\ IsRow(Real(r)) /\ Store(Real(r)) = r /\ Real(r).time \in Times
         /\ Real(r).key = r.key /\ Real(r).level = r.level /\ Real(r).time = Instant(r.time)
<1>1. PICK t \in Times : r.time = Stamp(t)
  BY DEF StoredRows
<1>2. r = [key |-> r.key, level |-> r.level, time |-> r.time]
  BY DEF StoredRows
<1>3. t \in 0 .. MaxTime /\ Instant(r.time) = t
  BY <1>1, TimesInClock, MomentsInClock
<1>4. Real(r) = [key |-> r.key, level |-> r.level, time |-> t]
  BY <1>2, <1>3 DEF Real
<1>5. Store(Real(r)) = [key |-> r.key, level |-> r.level, time |-> Stamp(t)]
  BY <1>4 DEF Store
<1>. QED  BY <1>1, <1>2, <1>3, <1>4, <1>5 DEF IsRow

-----------------------------------------------------------------------------
(* Conditions.                                                             *)

(* A column of joined rows the statement can name.                         *)
Covers(joined, cols, source, field) ==
  /\ source \in Nat /\ source + 1 \in DOMAIN joined
  /\ joined[source + 1] = Logical!NoRow \/ IsRow(joined[source + 1])
  /\ field \in FieldNames
  /\ source = 0 => field \in cols

LEMMA ValueStored ==
  ASSUME NEW joined, NEW cols, cols \subseteq FieldNames, NEW source, NEW field,
         Covers(joined, cols, source, field)
  PROVE  \/ /\ Logical!ValueOf(joined, source, field) = <<>>
            /\ Logical!ValueOf(Stored(cols, joined), source, field) = <<>>
         \/ \E value :
              /\ field = "time" => value \in 0 .. MaxTime
              /\ Logical!ValueOf(joined, source, field) = <<value>>
              /\ Logical!ValueOf(Stored(cols, joined), source, field) = <<Coded(field, value)>>
<1>. DEFINE k == source + 1
<1>1. k \in DOMAIN joined /\ (k = 1 <=> source = 0) /\ field \in FieldNames
  BY DEF Covers
<1>2. Stored(cols, joined)[k] =
        IF joined[k] = Logical!NoRow THEN Logical!NoRow
        ELSE IF k = 1 THEN [column \in cols |-> Store(joined[1])[column]]
        ELSE Store(joined[k])
  BY <1>1 DEF Stored
<1>. HIDE DEF k
<1>3. /\ Logical!ValueOf(joined, source, field) =
           IF joined[k] = Logical!NoRow THEN <<>> ELSE <<joined[k][field]>>
      /\ Logical!ValueOf(Stored(cols, joined), source, field) =
           IF Stored(cols, joined)[k] = Logical!NoRow THEN <<>> ELSE <<Stored(cols, joined)[k][field]>>
  BY DEF Logical!ValueOf, k
<1>4. CASE joined[k] = Logical!NoRow
  BY <1>2, <1>3, <1>4
<1>5. CASE joined[k] # Logical!NoRow
  <2>1. IsRow(joined[k])
    BY <1>5 DEF Covers, k
  <2>. DEFINE value == joined[k][field]
              stored == Stored(cols, joined)[k]
  <2>2. field = "time" => value \in 0 .. MaxTime
    BY <2>1 DEF IsRow
  <2>3. stored # Logical!NoRow /\ stored[field] = Coded(field, value)
    <3>1. CASE k = 1
      <4>1. stored = [column \in cols |-> Store(joined[1])[column]] /\ field \in cols
        BY <1>1, <1>2, <1>5, <3>1 DEF Covers
      <4>2. DOMAIN stored = cols
        BY <4>1
      <4>3. DOMAIN Logical!NoRow = {"kind"} /\ "kind" \notin cols
        BY DEF Logical!NoRow, FieldNames
      <4>4. stored[field] = Store(joined[1])[field]
        BY <4>1
      <4>5. Store(joined[1])[field] = Coded(field, joined[1][field])
        BY <1>1, <2>1, <3>1, StoreFields
      <4>. QED  BY <3>1, <4>2, <4>3, <4>4, <4>5
    <3>2. CASE k # 1
      <4>1. stored = Store(joined[k])
        BY <1>2, <1>5, <3>2
      <4>. QED  BY <1>1, <2>1, <4>1, StoreFields
    <3>. QED  BY <3>1, <3>2
  <2>4. Logical!ValueOf(joined, source, field) = <<value>>
    BY <1>3, <1>5
  <2>5. Logical!ValueOf(Stored(cols, joined), source, field) = <<Coded(field, value)>>
    <3>. HIDE DEF value
    <3>. QED  BY <1>3, <2>3
  <2>. HIDE DEF value, stored
  <2>. QED  BY <2>2, <2>4, <2>5
<1>. QED  BY <1>4, <1>5

Comparisons == {"EQ", "NE", "GT", "GE", "LT", "LE"}

(* Comparisons of times are those of their stamps.                         *)
LEMMA CompareSame ==
  ASSUME NEW op \in Comparisons, NEW field,
         NEW a, NEW b, field = "time" => a \in 0 .. MaxTime /\ b \in 0 .. MaxTime
  PROVE  Logical!Compare(op, Coded(field, a), Coded(field, b)) <=> Logical!Compare(op, a, b)
<1>1. CASE field # "time"
  BY <1>1 DEF Coded
<1>2. CASE field = "time"
  <2>1. /\ a \in DOMAIN Clock /\ b \in DOMAIN Clock /\ a \in Int /\ b \in Int
        /\ Stamp(a) \in Nat /\ Stamp(b) \in Nat
    BY <1>2, MomentsInClock
  <2>2. (Stamp(a) <= Stamp(b) <=> a <= b) /\ (Stamp(b) <= Stamp(a) <=> b <= a)
    BY <2>1, StampOrder
  <2>3. Coded(field, a) = Stamp(a) /\ Coded(field, b) = Stamp(b)
    BY <1>2 DEF Coded
  <2>. QED  BY <2>1, <2>2, <2>3 DEF Logical!Compare, Comparisons
<1>. QED  BY <1>1, <1>2

(* The values of a leaf, and what is made of them in the SQL.              *)
LEMMA FormattedLeaf ==
  ASSUME NEW query, NEW c, IsLeaf(query, c)
  PROVE  /\ Formatted(c).type = c.type /\ Formatted(c).source = c.source
         /\ Formatted(c).field = c.field /\ Formatted(c).op = c.op
         /\ Formatted(c).right = c.right /\ Formatted(c).rightField = c.rightField
         /\ c.type \in {"VALUE", "BETWEEN"} => Formatted(c).low = Coded(c.field, c.low)
         /\ c.type = "BETWEEN" => Formatted(c).high = Coded(c.field, c.high)
         /\ c.type = "IN" => Formatted(c).values = {Coded(c.field, v) : v \in c.values}
<1>1. CASE c.type \in {"GROUP", "FIELD_COMPARE", "NULL"} \/ c.field # "time"
  <2>1. Formatted(c) = c
    BY <1>1 DEF Formatted
  <2>2. c.field # "time" => \A v : Coded(c.field, v) = v
    BY DEF Coded
  <2>3. c.field # "time" => {Coded(c.field, v) : v \in c.values} = c.values
    BY <2>2
  <2>. QED  BY <1>1, <2>1, <2>2, <2>3 DEF IsLeaf
<1>2. CASE c.type = "IN" /\ c.field = "time"
  <2>1. Formatted(c) = [c EXCEPT !.values = {Stamp(t) : t \in @}] /\ "values" \in DOMAIN c
    BY <1>2 DEF Formatted, IsLeaf
  <2>2. Formatted(c).values = {Stamp(t) : t \in c.values}
    BY <2>1
  <2>3. {Stamp(t) : t \in c.values} = {Coded(c.field, t) : t \in c.values}
    BY <1>2 DEF Coded
  <2>. QED  BY <1>2, <2>1, <2>2, <2>3
<1>3. CASE c.type \in {"VALUE", "BETWEEN"} /\ c.field = "time"
  <2>1. /\ Formatted(c) = [c EXCEPT !.low = Stamp(@), !.high = Stamp(@)]
        /\ "low" \in DOMAIN c /\ "high" \in DOMAIN c
    BY <1>3 DEF Formatted, IsLeaf
  <2>. QED  BY <1>3, <2>1 DEF Coded
<1>. QED  BY <1>1, <1>2, <1>3 DEF IsLeaf

CoversLeaf(joined, cols, c) ==
  /\ Covers(joined, cols, c.source, c.field)
  /\ c.type = "FIELD_COMPARE" => Covers(joined, cols, c.right, c.rightField)

(* A leaf means in SQL what it means to the caller.                        *)
LEMMA LeafSame ==
  ASSUME NEW query, NEW c, IsLeaf(query, c),
         NEW joined, NEW cols, cols \subseteq FieldNames, CoversLeaf(joined, cols, c)
  PROVE  Logical!LeafHolds(c, joined) <=> Logical!LeafHolds(Formatted(c), Stored(cols, joined))
<1>. DEFINE d == Formatted(c)
            stored == Stored(cols, joined)
            f == c.field
            x == Logical!ValueOf(joined, c.source, f)
            y == Logical!ValueOf(stored, c.source, f)
<1>1. /\ d.type = c.type /\ d.source = c.source /\ d.field = c.field /\ d.op = c.op
      /\ d.right = c.right /\ d.rightField = c.rightField
      /\ c.type \in {"VALUE", "BETWEEN"} => d.low = Coded(c.field, c.low)
      /\ c.type = "BETWEEN" => d.high = Coded(c.field, c.high)
      /\ c.type = "IN" => d.values = {Coded(c.field, v) : v \in c.values}
  BY FormattedLeaf
<1>2. c.type \in {"VALUE", "BETWEEN", "IN", "NULL", "FIELD_COMPARE"}
  BY DEF IsLeaf
<1>3. \/ x = <<>> /\ y = <<>>
      \/ \E value : (f = "time" => value \in 0 .. MaxTime) /\ x = <<value>> /\ y = <<Coded(f, value)>>
  BY ValueStored DEF CoversLeaf
<1>4. \A value : <<value>> # <<>> /\ <<value>>[1] = value
  OBVIOUS
<1>. HIDE DEF d, stored
<1>5. CASE c.type = "NULL"
  <2>1. /\ Logical!LeafHolds(c, joined) <=> (x = <<>>) = (c.op = "IS NULL")
        /\ Logical!LeafHolds(d, stored) <=> (y = <<>>) = (c.op = "IS NULL")
    BY <1>1, <1>5 DEF Logical!LeafHolds
  <2>2. x = <<>> <=> y = <<>>
    <3>. HIDE DEF x, y
    <3>. QED  BY <1>3, <1>4
  <2>. HIDE DEF x, y
  <2>. QED  BY <2>1, <2>2 DEF d, stored
<1>6. CASE c.type = "VALUE"
  <2>1. /\ Logical!LeafHolds(c, joined) <=> x # <<>> /\ Logical!Compare(c.op, x[1], c.low)
        /\ Logical!LeafHolds(d, stored) <=> y # <<>> /\ Logical!Compare(c.op, y[1], Coded(f, c.low))
    BY <1>1, <1>6 DEF Logical!LeafHolds
  <2>2. c.op \in Comparisons /\ (f = "time" => c.low \in 0 .. MaxTime)
    BY <1>6 DEF IsLeaf, Comparisons
  <2>. HIDE DEF x, y, f
  <2>3. CASE x = <<>> /\ y = <<>>
    BY <2>1, <2>3 DEF d, stored
  <2>4. ASSUME NEW value, f = "time" => value \in 0 .. MaxTime,
               x = <<value>>, y = <<Coded(f, value)>>
        PROVE  Logical!LeafHolds(c, joined) <=> Logical!LeafHolds(d, stored)
    <3>1. Logical!Compare(c.op, Coded(f, value), Coded(f, c.low)) <=> Logical!Compare(c.op, value, c.low)
      BY <2>2, <2>4, CompareSame
    <3>2. x # <<>> /\ y # <<>> /\ x[1] = value /\ y[1] = Coded(f, value)
      BY <1>4, <2>4
    <3>. QED  BY <2>1, <3>1, <3>2
  <2>. QED  BY <1>3, <2>3, <2>4 DEF d, stored
<1>7. CASE c.type = "BETWEEN"
  <2>1. /\ Logical!LeafHolds(c, joined) <=> x # <<>> /\ c.low <= x[1] /\ x[1] <= c.high
        /\ Logical!LeafHolds(d, stored) <=>
             y # <<>> /\ Coded(f, c.low) <= y[1] /\ y[1] <= Coded(f, c.high)
    BY <1>1, <1>7 DEF Logical!LeafHolds
  <2>2. f = "time" => c.low \in 0 .. MaxTime /\ c.high \in 0 .. MaxTime
    BY <1>7 DEF IsLeaf
  <2>. HIDE DEF x, y, f
  <2>3. CASE x = <<>> /\ y = <<>>
    BY <2>1, <2>3 DEF d, stored
  <2>4. ASSUME NEW value, f = "time" => value \in 0 .. MaxTime,
               x = <<value>>, y = <<Coded(f, value)>>
        PROVE  Logical!LeafHolds(c, joined) <=> Logical!LeafHolds(d, stored)
    <3>1. /\ Logical!Compare("LE", Coded(f, c.low), Coded(f, value)) <=> Logical!Compare("LE", c.low, value)
          /\ Logical!Compare("LE", Coded(f, value), Coded(f, c.high)) <=> Logical!Compare("LE", value, c.high)
      BY <2>2, <2>4, CompareSame DEF Comparisons
    <3>2. \A a, b : Logical!Compare("LE", a, b) <=> a <= b
      BY DEF Logical!Compare
    <3>3. x # <<>> /\ y # <<>> /\ x[1] = value /\ y[1] = Coded(f, value)
      BY <1>4, <2>4
    <3>. QED  BY <2>1, <3>1, <3>2, <3>3
  <2>. QED  BY <1>3, <2>3, <2>4 DEF d, stored
<1>8. CASE c.type = "IN"
  <2>1. /\ Logical!LeafHolds(c, joined) <=> x # <<>> /\ x[1] \in c.values
        /\ Logical!LeafHolds(d, stored) <=> y # <<>> /\ y[1] \in {Coded(f, v) : v \in c.values}
    BY <1>1, <1>8 DEF Logical!LeafHolds
  <2>2. f = "time" => \A v \in c.values : v \in 0 .. MaxTime
    BY <1>8 DEF IsLeaf
  <2>. HIDE DEF x, y, f
  <2>3. CASE x = <<>> /\ y = <<>>
    BY <2>1, <2>3 DEF d, stored
  <2>4. ASSUME NEW value, f = "time" => value \in 0 .. MaxTime,
               x = <<value>>, y = <<Coded(f, value)>>
        PROVE  Logical!LeafHolds(c, joined) <=> Logical!LeafHolds(d, stored)
    <3>1. \A v \in c.values : Coded(f, value) = Coded(f, v) => value = v
      <4>1. CASE f = "time"
        BY <2>2, <2>4, <4>1, MomentsInClock DEF Coded
      <4>2. CASE f # "time"
        BY <4>2 DEF Coded
      <4>. QED  BY <4>1, <4>2
    <3>2. x # <<>> /\ y # <<>> /\ x[1] = value /\ y[1] = Coded(f, value)
      BY <1>4, <2>4
    <3>3. value \in c.values <=> Coded(f, value) \in {Coded(f, v) : v \in c.values}
      BY <3>1
    <3>. QED  BY <2>1, <3>2, <3>3
  <2>. QED  BY <1>3, <2>3, <2>4 DEF d, stored
<1>9. CASE c.type = "FIELD_COMPARE"
  <2>. DEFINE g == c.rightField
              p == Logical!ValueOf(joined, c.right, g)
              q == Logical!ValueOf(stored, c.right, g)
  <2>1. /\ Logical!LeafHolds(c, joined) <=> x # <<>> /\ p # <<>> /\ Logical!Compare(c.op, x[1], p[1])
        /\ Logical!LeafHolds(d, stored) <=> y # <<>> /\ q # <<>> /\ Logical!Compare(c.op, y[1], q[1])
    BY <1>1, <1>9 DEF Logical!LeafHolds
  <2>2. c.op \in Comparisons /\ (f = "time" <=> g = "time")
    BY <1>9 DEF IsLeaf, Comparisons
  <2>3. \/ p = <<>> /\ q = <<>>
        \/ \E value : (g = "time" => value \in 0 .. MaxTime) /\ p = <<value>> /\ q = <<Coded(g, value)>>
    BY <1>9, ValueStored DEF CoversLeaf, stored
  <2>. HIDE DEF x, y, f, p, q, g
  <2>4. CASE (x = <<>> /\ y = <<>>) \/ (p = <<>> /\ q = <<>>)
    BY <2>1, <2>4 DEF d, stored
  <2>5. ASSUME NEW v, f = "time" => v \in 0 .. MaxTime, x = <<v>>, y = <<Coded(f, v)>>,
               NEW w, g = "time" => w \in 0 .. MaxTime, p = <<w>>, q = <<Coded(g, w)>>
        PROVE  Logical!LeafHolds(c, joined) <=> Logical!LeafHolds(d, stored)
    <3>1. Coded(g, w) = Coded(f, w)
      BY <2>2 DEF Coded
    <3>2. Logical!Compare(c.op, Coded(f, v), Coded(f, w)) <=> Logical!Compare(c.op, v, w)
      BY <2>2, <2>5, CompareSame
    <3>3. /\ x # <<>> /\ y # <<>> /\ x[1] = v /\ y[1] = Coded(f, v)
          /\ p # <<>> /\ q # <<>> /\ p[1] = w /\ q[1] = Coded(g, w)
      BY <1>4, <2>5
    <3>. QED  BY <2>1, <3>1, <3>2, <3>3
  <2>. QED  BY <1>3, <2>3, <2>4, <2>5 DEF d, stored
<1>. QED  BY <1>2, <1>5, <1>6, <1>7, <1>8, <1>9 DEF d, stored

(* The statement's conditions are the query's, with stamps.                *)
LEMMA SqlOfQuery ==
  ASSUME NEW query \in Queries
  PROVE  /\ Sql[query].root = query.root /\ Sql[query].sources = query.sources
         /\ DOMAIN Sql[query].wheres = DOMAIN query.wheres
         /\ \A i \in DOMAIN query.wheres : Sql[query].wheres[i] = Formatted(query.wheres[i])
         /\ DOMAIN Sql[query].conditions = DOMAIN query.conditions
         /\ \A i \in DOMAIN query.conditions : Sql[query].conditions[i] = Formatted(query.conditions[i])
<1>. DEFINE time == [i \in DOMAIN query.time |-> Stamp(query.time[i])]
            wheres == [i \in DOMAIN query.wheres |-> Formatted(query.wheres[i])]
            conditions == [i \in DOMAIN query.conditions |-> Formatted(query.conditions[i])]
<1>1. "time" \in DOMAIN query /\ "wheres" \in DOMAIN query /\ "conditions" \in DOMAIN query
  BY QueryAssumption DEF IsQuery
<1>2. Sql[query] = [query EXCEPT !.time = time, !.wheres = wheres, !.conditions = conditions]
  BY <1>1 DEF Sql
<1>. HIDE DEF time, wheres, conditions
<1>3. /\ Sql[query].root = query.root /\ Sql[query].sources = query.sources
      /\ Sql[query].wheres = wheres /\ Sql[query].conditions = conditions
  BY <1>1, <1>2
<1>. QED  BY <1>3 DEF wheres, conditions

LEMMA SqlShape ==
  ASSUME NEW query \in Queries
  PROVE  SameShape(query, Sql[query])
<1>1. ASSUME NEW i \in DOMAIN query.conditions
      PROVE  /\ Sql[query].conditions[i].type = query.conditions[i].type
             /\ query.conditions[i].type = "GROUP" => Sql[query].conditions[i] = query.conditions[i]
  <2>. DEFINE c == query.conditions[i]
  <2>1. Sql[query].conditions[i] = Formatted(c)
    BY SqlOfQuery
  <2>2. CASE c.type = "GROUP"
    BY <2>1, <2>2 DEF Formatted
  <2>3. CASE c.type # "GROUP"
    <3>1. IsLeaf(query, c)
      BY <2>3, QueryAssumption DEF IsQuery
    <3>2. Formatted(c).type = c.type
      BY <3>1, FormattedLeaf
    <3>. QED  BY <2>1, <2>3, <3>2
  <2>. QED  BY <2>2, <2>3
<1>. QED  BY <1>1 DEF SameShape

(* A tree means in SQL what it means to the caller.                        *)
LEMMA TreeStored ==
  ASSUME NEW query \in Queries, NEW root \in -1 .. Len(query.conditions) - 1,
         NEW joined, NEW cols, cols \subseteq FieldNames,
         root # -1 => \A id \in JoinOn!Leaves(query, root) :
                        CoversLeaf(joined, cols, query.conditions[id + 1])
  PROVE  Logical!TreeHolds(query, root, joined)
           <=> Logical!TreeHolds(Sql[query], root, Stored(cols, joined))
<1>1. CASE root = -1
  BY <1>1 DEF Logical!TreeHolds
<1>2. CASE root # -1
  <2>1. /\ root \in Nat /\ root + 1 \in 0 .. Len(query.conditions)
        /\ root \in 0 .. Len(query.conditions) - 1
        /\ \A id \in 0 .. root : id + 1 \in DOMAIN query.conditions
        /\ IsQuery(query)
    BY <1>2, QuerySizes
  <2>2. Ordered(query, root + 1)
    BY <2>1, QueryOrdered
  <2>3. ASSUME NEW id \in JoinOn!Leaves(query, root)
        PROVE  Logical!LeafHolds(query.conditions[id + 1], joined) <=>
                 Logical!LeafHolds(Sql[query].conditions[id + 1], Stored(cols, joined))
    <3>1. id + 1 \in DOMAIN query.conditions /\ IsLeaf(query, query.conditions[id + 1])
      BY <2>1, QueryLeaves
    <3>2. Sql[query].conditions[id + 1] = Formatted(query.conditions[id + 1])
      BY <3>1, SqlOfQuery
    <3>3. CoversLeaf(joined, cols, query.conditions[id + 1])
      BY <1>2
    <3>4. Logical!LeafHolds(query.conditions[id + 1], joined) <=>
            Logical!LeafHolds(Formatted(query.conditions[id + 1]), Stored(cols, joined))
      BY <3>1, <3>3, LeafSame
    <3>. QED  BY <3>2, <3>4
  <2>4. SameShape(query, Sql[query])
    BY SqlShape
  <2>. DEFINE B == Sql[query]
              k == Stored(cols, joined)
  <2>5. /\ SameShape(query, B)
        /\ \A id \in JoinOn!Leaves(query, root) :
             Logical!LeafHolds(query.conditions[id + 1], joined)
               <=> Logical!LeafHolds(B.conditions[id + 1], k)
    BY <2>3, <2>4
  <2>. HIDE DEF B, k
  <2>6. Logical!TreeHolds(query, root, joined) <=> Logical!TreeHolds(B, root, k)
    BY <2>1, <2>2, <2>5, TreeSame
  <2>. QED  BY <2>6 DEF B, k
<1>. QED  BY <1>1, <1>2

LEMMA WhereStored ==
  ASSUME NEW query \in Queries, NEW i \in DOMAIN query.wheres,
         NEW joined, NEW cols, cols \subseteq FieldNames, CoversLeaf(joined, cols, query.wheres[i])
  PROVE  /\ Logical!LeafHolds(query.wheres[i], joined)
              <=> Logical!LeafHolds(Sql[query].wheres[i], Stored(cols, joined))
         /\ Sql[query].wheres[i].source = query.wheres[i].source
<1>1. IsLeaf(query, query.wheres[i])
  BY QueryAssumption DEF IsQuery
<1>2. Sql[query].wheres[i] = Formatted(query.wheres[i])
  BY SqlOfQuery
<1>. QED  BY <1>1, <1>2, LeafSame, FormattedLeaf

-----------------------------------------------------------------------------
(* The route range.                                                        *)

(* What a comparison of numbers says.                                      *)
LEMMA CompareMeans ==
  ASSUME NEW op \in Comparisons, NEW a \in Int, NEW b \in Int, Logical!Compare(op, a, b)
  PROVE  /\ op \in {"EQ", "GE"} => b <= a
         /\ op = "GT" => a > b
         /\ op = "LT" => a < b
         /\ op \in {"EQ", "LE"} => a <= b
<1>1. CASE op = "EQ"
  BY <1>1 DEF Logical!Compare
<1>2. CASE op = "GE"
  BY <1>2 DEF Logical!Compare
<1>3. CASE op = "GT"
  BY <1>3 DEF Logical!Compare
<1>4. CASE op = "LT"
  BY <1>4 DEF Logical!Compare
<1>5. CASE op = "LE"
  BY <1>5 DEF Logical!Compare
<1>6. CASE op = "NE"
  BY <1>6
<1>. QED  BY <1>1, <1>2, <1>3, <1>4, <1>5, <1>6 DEF Comparisons

(* A row that satisfies the conditions a route range is taken from lies in *)
(* it: no table the row may be in is left out, no filter below the joins   *)
(* hides it.                                                               *)
LEMMA MatchesInRange ==
  ASSUME NEW query \in Queries, RangeCode(query) = "HDB_OK",
         NEW joined, 1 \in DOMAIN joined, IsRow(joined[1]),
         query.time # <<>> => query.time[1] <= joined[1].time /\ joined[1].time < query.time[2],
         \A i \in DOMAIN query.wheres :
           query.wheres[i].source = 0 => Logical!LeafHolds(query.wheres[i], joined),
         Logical!TreeHolds(query, query.root, joined)
  PROVE  RouteBegin(query) <= joined[1].time /\ joined[1].time < RouteEnd(query)
<1>. DEFINE t == joined[1].time
<1>1. t \in 0 .. MaxTime /\ MaxTime \in Nat
  BY ShardAssumption DEF IsRow
<1>2. ASSUME NEW leaf \in RouteLeaves(query)
      PROVE  Logical!LeafHolds(leaf, joined)
  <2>1. CASE leaf \in Range(query.wheres)
    BY <2>1, RouteLeaf DEF Range
  <2>2. ASSUME NEW id \in AndedNodes(query), query.root \in Nat, leaf = query.conditions[id + 1]
        PROVE  Logical!LeafHolds(leaf, joined)
    <3>1. IsQuery(query) /\ query.root + 1 \in 0 .. Len(query.conditions)
      BY <2>2, QuerySizes
    <3>2. Ordered(query, query.root + 1)
      BY <3>1, QueryOrdered
    <3>. QED  BY <2>2, <3>2, AndedHold
  <2>. QED  BY <2>1, <2>2, RouteLeaf
<1>3. Logical!ValueOf(joined, 0, "time") = <<t>>
  <2>1. joined[1] # Logical!NoRow
    BY StoreFields
  <2>2. 0 + 1 = 1
    OBVIOUS
  <2>. QED  BY <2>1, <2>2 DEF Logical!ValueOf
<1>4. ASSUME NEW leaf \in RouteLeaves(query)
      PROVE  /\ leaf.type = "BETWEEN" => leaf.op = "BETWEEN" /\ leaf.low <= t /\ t <= leaf.high
             /\ leaf.type = "VALUE" => leaf.op \in Comparisons /\ Logical!Compare(leaf.op, t, leaf.low)
             /\ leaf.type \in {"VALUE", "BETWEEN"}
             /\ leaf.low \in 0 .. MaxTime /\ (leaf.type = "BETWEEN" => leaf.high \in 0 .. MaxTime)
  <2>1. /\ IsLeaf(query, leaf) /\ leaf.source = 0 /\ leaf.field = "time"
        /\ leaf.type \in {"VALUE", "BETWEEN"}
    BY RouteLeaf
  <2>2. Logical!LeafHolds(leaf, joined)
    BY <1>2
  <2>. DEFINE x == Logical!ValueOf(joined, leaf.source, leaf.field)
  <2>3. x = <<t>>
    BY <1>3, <2>1
  <2>. HIDE DEF t
  <2>4. x[1] = t
    BY <2>3
  <2>5. leaf.type = "BETWEEN" => leaf.low <= x[1] /\ x[1] <= leaf.high
    BY <2>2 DEF Logical!LeafHolds
  <2>6. leaf.type = "VALUE" => Logical!Compare(leaf.op, x[1], leaf.low)
    BY <2>2 DEF Logical!LeafHolds
  <2>. HIDE DEF x
  <2>. QED  BY <2>1, <2>4, <2>5, <2>6 DEF IsLeaf, Comparisons
<1>5. query.time # <<>> =>
        query.time[1] <= t /\ t < query.time[2] /\ query.time[1] \in Int /\ query.time[2] \in Int
  BY QueryAssumption DEF IsQuery
<1>. HIDE DEF t
<1>8. ASSUME NEW leaf \in RouteLeaves(query)
      PROVE  /\ leaf.low \in Int /\ t \in Int
             /\ leaf.op \in {"EQ", "GE", "BETWEEN"} => leaf.low <= t
             /\ leaf.op = "GT" => t > leaf.low
             /\ leaf.op = "LT" => t < leaf.low
             /\ leaf.op \in {"EQ", "LE"} => t <= leaf.low
             /\ leaf.op = "BETWEEN" => t <= leaf.high /\ leaf.high \in Int
  <2>1. leaf.low \in Int /\ t \in Int /\ (leaf.type = "BETWEEN" => leaf.high \in Int)
    BY <1>1, <1>4
  <2>2. CASE leaf.type = "BETWEEN"
    BY <1>4, <2>1, <2>2
  <2>3. CASE leaf.type = "VALUE"
    <3>1. leaf.op \in Comparisons /\ Logical!Compare(leaf.op, t, leaf.low)
      BY <1>4, <2>3
    <3>2. leaf.op # "BETWEEN"
      BY <3>1 DEF Comparisons
    <3>. QED  BY <2>1, <3>1, <3>2, CompareMeans
  <2>. QED  BY <1>4, <2>2, <2>3
<1>6. ASSUME NEW b \in Begins(query) PROVE b <= t
  <2>1. CASE query.time # <<>> /\ b = query.time[1]
    BY <1>5, <2>1
  <2>2. ASSUME NEW leaf \in RouteLeaves(query), leaf.op \in {"EQ", "GE", "BETWEEN"}, b = leaf.low
        PROVE  b <= t
    BY <1>8, <2>2
  <2>3. ASSUME NEW leaf \in RouteLeaves(query), leaf.op = "GT", b = leaf.low + 1
        PROVE  b <= t
    BY <1>8, <2>3
  <2>. QED  BY <2>1, <2>2, <2>3 DEF Begins
<1>7. ASSUME NEW e \in Ends(query) PROVE t < e
  <2>1. CASE query.time # <<>> /\ e = query.time[2]
    BY <1>5, <2>1
  <2>2. ASSUME NEW leaf \in RouteLeaves(query), leaf.op = "LT", e = leaf.low
        PROVE  t < e
    BY <1>8, <2>2
  <2>3. ASSUME NEW leaf \in RouteLeaves(query), leaf.op \in {"EQ", "LE"}, e = leaf.low + 1
        PROVE  t < e
    BY <1>8, <2>3
  <2>4. ASSUME NEW leaf \in RouteLeaves(query), leaf.op = "BETWEEN", e = leaf.high + 1
        PROVE  t < e
    BY <1>8, <2>4
  <2>. QED  BY <2>1, <2>2, <2>3, <2>4 DEF Ends
<1>. QED  BY <1>6, <1>7, RouteRange DEF t

-----------------------------------------------------------------------------
(* The columns of the root.                                                *)

LEMMA ColumnOfRef ==
  ASSUME NEW query, NEW ref,
         ref \in query.selects \cup ConditionFields(query)
                   \cup {[source |-> w.source, field |-> w.field] : w \in Range(query.wheres)}
                   \cup {[source |-> o.source, field |-> o.field] : o \in Range(query.orders)},
         ref.source = 0
  PROVE  ref.field \in RootColumns(query)
BY DEF RootColumns

LEMMA LeafColumns ==
  ASSUME NEW query \in Queries, NEW i \in DOMAIN query.conditions, query.conditions[i].type # "GROUP"
  PROVE  LET c == query.conditions[i]
         IN /\ c.source = 0 => c.field \in RootColumns(query)
            /\ c.type = "FIELD_COMPARE" /\ c.right = 0 => c.rightField \in RootColumns(query)
<1>. DEFINE c == query.conditions[i]
            left == [source |-> c.source, field |-> c.field]
            right == [source |-> c.right, field |-> c.rightField]
<1>1. c \in Range(query.conditions) /\ c.type # "GROUP"
  BY DEF Range
<1>. HIDE DEF c
<1>2. left \in ConditionFields(query)
  BY <1>1 DEF ConditionFields, LeftFields
<1>3. c.type = "FIELD_COMPARE" => right \in ConditionFields(query)
  BY <1>1 DEF ConditionFields, RightFields
<1>4. c.source = 0 => c.field \in RootColumns(query)
  BY <1>2, ColumnOfRef
<1>5. c.type = "FIELD_COMPARE" /\ c.right = 0 => c.rightField \in RootColumns(query)
  BY <1>3, ColumnOfRef
<1>. QED  BY <1>4, <1>5 DEF c

LEMMA WhereColumns ==
  ASSUME NEW query \in Queries, NEW i \in DOMAIN query.wheres, query.wheres[i].source = 0
  PROVE  query.wheres[i].field \in RootColumns(query)
<1>. DEFINE w == query.wheres[i]
            ref == [source |-> w.source, field |-> w.field]
<1>1. w \in Range(query.wheres)
  BY DEF Range
<1>2. w.source = 0 /\ w = query.wheres[i]
  OBVIOUS
<1>. HIDE DEF w
<1>3. ref \in {[source |-> x.source, field |-> x.field] : x \in Range(query.wheres)}
  BY <1>1
<1>4. ref.source = 0 /\ ref.field = w.field
  BY <1>2
<1>. HIDE DEF ref
<1>. QED  BY <1>2, <1>3, <1>4, ColumnOfRef

LEMMA OrderColumns ==
  ASSUME NEW query \in Queries, NEW i \in DOMAIN query.orders, query.orders[i].source = 0
  PROVE  query.orders[i].field \in RootColumns(query)
<1>. DEFINE w == query.orders[i]
            ref == [source |-> w.source, field |-> w.field]
<1>1. w \in Range(query.orders)
  BY DEF Range
<1>2. w.source = 0 /\ w = query.orders[i]
  OBVIOUS
<1>. HIDE DEF w
<1>3. ref \in {[source |-> x.source, field |-> x.field] : x \in Range(query.orders)}
  BY <1>1
<1>4. ref.source = 0 /\ ref.field = w.field
  BY <1>2
<1>. HIDE DEF ref
<1>. QED  BY <1>2, <1>3, <1>4, ColumnOfRef

LEMMA SelectColumns ==
  ASSUME NEW query \in Queries, NEW ref \in query.selects, ref.source = 0
  PROVE  ref.field \in RootColumns(query)
BY ColumnOfRef

LEMMA RootColumnsFields ==
  ASSUME NEW query \in Queries
  PROVE  RootColumns(query) \subseteq FieldNames
<1>. DEFINE refs == query.selects \cup ConditionFields(query)
                        \cup {[source |-> w.source, field |-> w.field] : w \in Range(query.wheres)}
                        \cup {[source |-> o.source, field |-> o.field] : o \in Range(query.orders)}
<1>1. IsQuery(query)
  BY QueryAssumption
<1>2. ASSUME NEW ref \in query.selects PROVE ref.field \in FieldNames
  BY <1>1 DEF IsQuery, IsField
<1>3. ASSUME NEW ref \in ConditionFields(query) PROVE ref.field \in FieldNames
  <2>1. ASSUME NEW c \in Range(query.conditions), c.type # "GROUP"
        PROVE  c.field \in FieldNames /\ (c.type = "FIELD_COMPARE" => c.rightField \in FieldNames)
    <3>1. IsLeaf(query, c)
      BY <1>1, <2>1 DEF IsQuery, Range
    <3>. QED  BY <3>1 DEF IsLeaf, IsField
  <2>2. ref \in LeftFields(query) => ref.field \in FieldNames
    BY <2>1 DEF LeftFields
  <2>3. ref \in RightFields(query) => ref.field \in FieldNames
    BY <2>1 DEF RightFields
  <2>. QED  BY <1>3, <2>2, <2>3 DEF ConditionFields
<1>4. ASSUME NEW w \in Range(query.wheres) PROVE w.field \in FieldNames
  <2>1. IsLeaf(query, w)
    BY <1>1 DEF IsQuery, Range
  <2>. QED  BY <2>1 DEF IsLeaf, IsField
<1>5. ASSUME NEW o \in Range(query.orders) PROVE o.field \in FieldNames
  BY <1>1 DEF IsQuery, IsField, Range
<1>6. ASSUME NEW ref \in refs PROVE ref.field \in FieldNames
  BY <1>2, <1>3, <1>4, <1>5
<1>7. RootColumns(query) = {"time"} \cup {ref.field : ref \in {x \in refs : x.source = 0}}
  BY DEF RootColumns
<1>. HIDE DEF refs
<1>. QED  BY <1>6, <1>7 DEF FieldNames

-----------------------------------------------------------------------------
(* Joined rows.                                                            *)

JoinedRow(n, joined) ==
  /\ joined = [k \in 1 .. n |-> joined[k]] /\ Len(joined) = n
  /\ IsRow(joined[1])
  /\ \A k \in 1 .. n : joined[k] = Logical!NoRow \/ IsRow(joined[k])

StoreAny(r) == IF r = Logical!NoRow THEN Logical!NoRow ELSE Store(r)

LEMMA JoinedOne ==
  ASSUME NEW r, IsRow(r), NEW cols
  PROVE  /\ JoinedRow(1, <<r>>) /\ <<r>>[1] = r
         /\ Stored(cols, <<r>>) = <<[column \in cols |-> Store(r)[column]]>>
<1>. DEFINE s == <<r>>
            restricted == [column \in cols |-> Store(r)[column]]
            t == <<restricted>>
            u == Stored(cols, s)
<1>1. Len(s) = 1 /\ s[1] = r /\ DOMAIN s = 1 .. 1 /\ s = [k \in 1 .. 1 |-> s[k]]
  OBVIOUS
<1>2. \A x : DOMAIN <<x>> = 1 .. 1 /\ <<x>>[1] = x /\ <<x>> = [k \in 1 .. 1 |-> <<x>>[k]]
  OBVIOUS
<1>3. r # Logical!NoRow
  BY StoreFields
<1>. HIDE DEF s
<1>4. JoinedRow(1, s)
  BY <1>1 DEF JoinedRow
<1>5. DOMAIN u = 1 .. 1 /\ u[1] = restricted /\ u = [k \in 1 .. 1 |-> u[k]]
  BY <1>1, <1>3 DEF Stored
<1>. HIDE DEF u, restricted
<1>6. u = t
  BY <1>2, <1>5
<1>. QED  BY <1>1, <1>4, <1>6 DEF s, u, restricted

LEMMA AppendIs ==
  ASSUME NEW n \in Nat, NEW s, s = [k \in 1 .. n |-> s[k]], Len(s) = n, NEW e
  PROVE  /\ Append(s, e) = [k \in 1 .. n + 1 |-> IF k = n + 1 THEN e ELSE s[k]]
         /\ Len(Append(s, e)) = n + 1
OBVIOUS

LEMMA JoinedMore ==
  ASSUME NEW n \in Nat \ {0}, NEW joined, JoinedRow(n, joined), NEW r, r = Logical!NoRow \/ IsRow(r),
         NEW cols
  PROVE  /\ JoinedRow(n + 1, Append(joined, r)) /\ Append(joined, r)[1] = joined[1]
         /\ Stored(cols, Append(joined, r)) = Append(Stored(cols, joined), StoreAny(r))
<1>. DEFINE s == Append(joined, r)
            m == Stored(cols, joined)
            x == StoreAny(r)
            t == Append(m, x)
            u == Stored(cols, s)
<1>1. DOMAIN joined = 1 .. n /\ Len(joined) = n
  BY DEF JoinedRow
<1>2. /\ Len(s) = n + 1 /\ s = [k \in 1 .. n + 1 |-> IF k = n + 1 THEN r ELSE joined[k]]
  BY AppendIs DEF JoinedRow
<1>3. DOMAIN m = 1 .. n /\ m = [k \in 1 .. n |-> m[k]]
  BY <1>1 DEF Stored
<1>4. Len(m) = n
  <2>. HIDE DEF m
  <2>. QED  BY <1>3
<1>5. t = [k \in 1 .. n + 1 |-> IF k = n + 1 THEN x ELSE m[k]]
  <2>. HIDE DEF m, x
  <2>. QED  BY <1>3, <1>4, AppendIs
<1>. HIDE DEF s, t
<1>6. 1 \in 1 .. n /\ 1 # n + 1
  OBVIOUS
<1>7. DOMAIN s = 1 .. n + 1 /\ s[n + 1] = r /\ \A k \in 1 .. n : s[k] = joined[k]
  BY <1>2
<1>8. JoinedRow(n + 1, s)
  <2>1. s = [k \in 1 .. n + 1 |-> s[k]]
    BY <1>2
  <2>2. \A k \in 1 .. n + 1 : k = n + 1 \/ k \in 1 .. n
    OBVIOUS
  <2>. QED  BY <1>2, <1>6, <1>7, <2>1, <2>2 DEF JoinedRow
<1>9. ASSUME NEW k \in 1 .. n + 1 PROVE u[k] = IF k = n + 1 THEN x ELSE m[k]
  <2>1. u[k] = IF s[k] = Logical!NoRow THEN Logical!NoRow
               ELSE IF k = 1 THEN [column \in cols |-> Store(s[1])[column]] ELSE Store(s[k])
    BY <1>7 DEF Stored
  <2>2. CASE k = n + 1
    BY <1>6, <1>7, <2>1, <2>2 DEF StoreAny
  <2>3. CASE k # n + 1
    <3>1. k \in 1 .. n
      BY <2>3
    <3>2. m[k] = IF joined[k] = Logical!NoRow THEN Logical!NoRow
                 ELSE IF k = 1 THEN [column \in cols |-> Store(joined[1])[column]] ELSE Store(joined[k])
      BY <1>1, <3>1 DEF Stored
    <3>3. s[k] = joined[k] /\ s[1] = joined[1]
      BY <1>6, <1>7, <3>1
    <3>. HIDE DEF u, m
    <3>. QED  BY <2>1, <2>3, <3>2, <3>3
  <2>. QED  BY <2>2, <2>3
<1>10. u = [k \in 1 .. n + 1 |-> u[k]]
  BY <1>7 DEF Stored
<1>. HIDE DEF u, m, x
<1>11. u = t
  BY <1>5, <1>9, <1>10
<1>. QED  BY <1>6, <1>7, <1>8, <1>11 DEF s, t, u, m, x

-----------------------------------------------------------------------------
(* FROM s0 and a JOIN per further source.                                  *)

Pairs(A, lookup, n, left) ==
  {joined \in {Append(left, r) : r \in lookup[A.sources[n].dataset]} :
     Logical!TreeHolds(A, A.sources[n].on, joined)}

Extended(A, lookup, n, left) ==
  IF Pairs(A, lookup, n, left) = {} /\ A.sources[n].join = "LEFT"
  THEN {Append(left, Logical!NoRow)} ELSE Pairs(A, lookup, n, left)

JoinAt(roots, lookup, A, f, n) ==
  IF n = 1 THEN {<<r>> : r \in roots}
  ELSE UNION {Extended(A, lookup, n, left) : left \in f[n - 1]}

JoinsTo(roots, lookup, A, f, m) == f = [n \in 1 .. m |-> JoinAt(roots, lookup, A, f, n)]

LEMMA JoinsToElement ==
  ASSUME NEW roots, NEW lookup, NEW A, NEW f, NEW m, JoinsTo(roots, lookup, A, f, m), NEW n \in 1 .. m
  PROVE  f[n] = JoinAt(roots, lookup, A, f, n)
<1>. DEFINE g == [k \in 1 .. m |-> JoinAt(roots, lookup, A, f, k)]
<1>1. f = g
  BY DEF JoinsTo
<1>2. g[n] = JoinAt(roots, lookup, A, f, n)
  OBVIOUS
<1>. QED  BY <1>1, <1>2

LEMMA JoinsExist ==
  ASSUME NEW roots, NEW lookup, NEW A, NEW N \in Nat
  PROVE  \E f : JoinsTo(roots, lookup, A, f, N)
<1>. DEFINE bad == {m \in 0 .. N : ~\E f : JoinsTo(roots, lookup, A, f, m)}
<1>1. SUFFICES ASSUME bad # {} PROVE FALSE
  OBVIOUS
<1>2. PICK m \in bad : \A k \in bad : m <= k
  <2>1. bad \subseteq Nat
    OBVIOUS
  <2>. HIDE DEF bad
  <2>. QED  BY <1>1, <2>1, LeastNatural
<1>3. m # 0
  <2>1. 1 .. 0 = {}
    OBVIOUS
  <2>2. JoinsTo(roots, lookup, A, [i \in 1 .. 0 |-> 0], 0)
    BY <2>1 DEF JoinsTo
  <2>. QED  BY <1>2, <2>2
<1>4. m \in 0 .. N /\ m - 1 \in 0 .. N /\ ~(m <= m - 1)
  BY <1>2, <1>3
<1>5. PICK f : JoinsTo(roots, lookup, A, f, m - 1)
  BY <1>2, <1>4
<1>. DEFINE g == [i \in 1 .. m |-> IF i = m THEN JoinAt(roots, lookup, A, f, m) ELSE f[i]]
<1>6. ASSUME NEW i \in 1 .. m PROVE g[i] = JoinAt(roots, lookup, A, g, i)
  <2>1. i # 1 => g[i - 1] = f[i - 1]
    BY <1>4
  <2>2. JoinAt(roots, lookup, A, g, i) = JoinAt(roots, lookup, A, f, i)
    <3>. HIDE DEF g
    <3>. QED  BY <2>1 DEF JoinAt
  <2>3. CASE i = m
    BY <2>2, <2>3
  <2>4. CASE i # m
    <3>1. i \in 1 .. m - 1
      BY <1>4, <2>4
    <3>2. f[i] = JoinAt(roots, lookup, A, f, i)
      BY <1>5, <3>1, JoinsToElement
    <3>. QED  BY <2>2, <2>4, <3>2
  <2>. QED  BY <2>3, <2>4
<1>7. JoinsTo(roots, lookup, A, g, m)
  BY <1>6 DEF JoinsTo
<1>. QED  BY <1>2, <1>7

LEMMA JoinedComputed ==
  ASSUME NEW roots, NEW lookup, NEW A, NEW N \in Nat \ {0},
         DOMAIN A.sources = 1 .. N, Len(A.sources) = N
  PROVE  \E f : Logical!Joined(roots, lookup, A) = f[N] /\ JoinsTo(roots, lookup, A, f, N)
<1>. DEFINE P(f) == f = [n \in DOMAIN A.sources |-> JoinAt(roots, lookup, A, f, n)]
            h == CHOOSE f : P(f)
<1>1. \E f : P(f)
  <2>1. PICK f : JoinsTo(roots, lookup, A, f, N)
    BY JoinsExist
  <2>2. P(f)
    BY <2>1 DEF JoinsTo
  <2>. QED  BY <2>2
<1>2. P(h)
  <2>. HIDE DEF P
  <2>. QED  BY <1>1
<1>3. Logical!Joined(roots, lookup, A) = h[Len(A.sources)]
  BY DEF Logical!Joined, JoinAt, Extended, Pairs
<1>. HIDE DEF h
<1>. QED  BY <1>2, <1>3 DEF JoinsTo

(* A source that is not refused is joined with a fixed table, under an ON  *)
(* condition that compares only sources joined by then.                    *)
LEMMA NoneRefused ==
  ASSUME NEW query \in Queries, SourcesCode(query) = "HDB_OK", NEW n \in DOMAIN query.sources
  PROVE  SourceCode(query, query.sources[n]) = "HDB_OK"
<1>. DEFINE refused == {k \in DOMAIN query.sources : SourceCode(query, query.sources[k]) # "HDB_OK"}
<1>1. SUFFICES ASSUME refused # {} PROVE FALSE
  OBVIOUS
<1>2. refused \subseteq Nat
  BY QuerySizes
<1>3. \A k \in refused : SourceCode(query, query.sources[k]) # "HDB_OK"
  OBVIOUS
<1>4. SourcesCode(query) = SourceCode(query, query.sources[Min(refused)])
  BY <1>1 DEF SourcesCode
<1>. HIDE DEF refused
<1>5. PICK x \in refused : \A y \in refused : x <= y
  BY <1>1, <1>2, LeastNatural
<1>6. Min(refused) \in refused
  BY <1>5 DEF Min
<1>. QED  BY <1>3, <1>4, <1>6

LEMMA JoinSource ==
  ASSUME NEW query \in Queries, SourcesCode(query) = "HDB_OK", JoinOn!JoinsAccepted(query),
         NEW n \in DOMAIN query.sources, n # 1
  PROVE  /\ n \in Nat /\ n - 1 \in Nat \ {0} /\ n - 1 \in DOMAIN query.sources
         /\ query.sources[n].dataset \in DOMAIN Fixed
         /\ query.sources[n].on \in 0 .. Len(query.conditions) - 1
         /\ \A id \in JoinOn!Leaves(query, query.sources[n].on) :
              Allowed(query, query.conditions[id + 1], n - 1)
<1>. DEFINE s == query.sources[n]
            on == s.on
<1>1. /\ IsQuery(query) /\ s.id = n - 1 /\ s.type = "JOIN"
      /\ on \in -1 .. Len(query.conditions) - 1 /\ Len(query.conditions) \in Nat
      /\ DOMAIN query.sources = 1 .. Len(query.sources) /\ Len(query.sources) \in Nat
  BY QueryAssumption DEF IsQuery
<1>2. n \in Nat /\ n - 1 \in Nat \ {0} /\ n - 1 \in DOMAIN query.sources
  BY <1>1
<1>3. SourceCode(query, s) = "HDB_OK"
  BY NoneRefused
<1>4. on # -1 /\ s.dataset \in DOMAIN Fixed
  BY <1>1, <1>3 DEF SourceCode
<1>5. on \in 0 .. Len(query.conditions) - 1 /\ on \in Nat /\ on + 1 \in 0 .. Len(query.conditions)
  BY <1>1, <1>4
<1>6. JoinOn!BranchAnchors(query, n - 1, on) # <<>>
  <2>1. JoinOn!ValidateJoinOnCondition(query, s.id, on)
    BY <1>1 DEF JoinOn!JoinsAccepted
  <2>. QED  BY <1>1, <2>1 DEF JoinOn!ValidateJoinOnCondition
<1>7. Ordered(query, on + 1)
  BY <1>1, <1>5, QueryOrdered
<1>8. \A id \in JoinOn!Leaves(query, on) : Allowed(query, query.conditions[id + 1], n - 1)
  <2>. HIDE DEF on
  <2>. QED  BY <1>5, <1>6, <1>7, LeavesAllowed
<1>. QED  BY <1>2, <1>4, <1>5, <1>8

LEMMA RowCovers ==
  ASSUME NEW n \in Nat, NEW joined, JoinedRow(n, joined), NEW source \in 0 .. n - 1,
         NEW field \in FieldNames, NEW cols, source = 0 => field \in cols
  PROVE  Covers(joined, cols, source, field)
<1>1. source \in Nat /\ source + 1 \in 1 .. n
  OBVIOUS
<1>2. DOMAIN joined = 1 .. n
  BY DEF JoinedRow
<1>. QED  BY <1>1, <1>2 DEF JoinedRow, Covers

LEMMA LeafCovers ==
  ASSUME NEW query \in Queries, NEW i \in DOMAIN query.conditions,
         query.conditions[i].type # "GROUP",
         NEW n \in Nat, NEW joined, JoinedRow(n, joined),
         query.conditions[i].source <= n - 1,
         query.conditions[i].type = "FIELD_COMPARE" => query.conditions[i].right <= n - 1
  PROVE  CoversLeaf(joined, RootColumns(query), query.conditions[i])
<1>. DEFINE c == query.conditions[i]
<1>1. IsLeaf(query, c) /\ IsQuery(query)
  BY QueryAssumption DEF IsQuery
<1>2. /\ c.source \in 0 .. n - 1 /\ c.field \in FieldNames
      /\ c.type = "FIELD_COMPARE" => c.right \in 0 .. n - 1 /\ c.rightField \in FieldNames
  <2>1. Len(query.sources) \in Nat
    BY <1>1 DEF IsQuery
  <2>. QED  BY <1>1, <2>1 DEF IsLeaf, IsField
<1>3. /\ c.source = 0 => c.field \in RootColumns(query)
      /\ c.type = "FIELD_COMPARE" /\ c.right = 0 => c.rightField \in RootColumns(query)
  BY LeafColumns
<1>. HIDE DEF c
<1>4. Covers(joined, RootColumns(query), c.source, c.field)
  BY <1>2, <1>3, RowCovers
<1>5. c.type = "FIELD_COMPARE" => Covers(joined, RootColumns(query), c.right, c.rightField)
  BY <1>2, <1>3, RowCovers
<1>. QED  BY <1>4, <1>5 DEF CoversLeaf, c

(* An ON condition means in SQL what it means to the caller.               *)
LEMMA OnStored ==
  ASSUME NEW query \in Queries, SourcesCode(query) = "HDB_OK", JoinOn!JoinsAccepted(query),
         NEW n \in DOMAIN query.sources, n # 1, NEW joined, JoinedRow(n, joined)
  PROVE  Logical!TreeHolds(query, query.sources[n].on, joined)
           <=> Logical!TreeHolds(Sql[query], query.sources[n].on, Stored(RootColumns(query), joined))
<1>. DEFINE on == query.sources[n].on
            cols == RootColumns(query)
<1>1. /\ n \in Nat /\ on \in 0 .. Len(query.conditions) - 1
      /\ \A id \in JoinOn!Leaves(query, on) : Allowed(query, query.conditions[id + 1], n - 1)
  BY JoinSource
<1>2. IsQuery(query) /\ on \in -1 .. Len(query.conditions) - 1
  <2>. HIDE DEF on
  <2>. QED  BY <1>1, QuerySizes
<1>3. cols \subseteq FieldNames
  BY RootColumnsFields
<1>4. ASSUME NEW id \in JoinOn!Leaves(query, on)
      PROVE  CoversLeaf(joined, cols, query.conditions[id + 1])
  <2>1. id + 1 \in DOMAIN query.conditions /\ query.conditions[id + 1].type # "GROUP"
    <3>. HIDE DEF on
    <3>. QED  BY <1>1, <1>2, QueryLeaves
  <2>2. /\ query.conditions[id + 1].source <= n - 1
        /\ query.conditions[id + 1].type = "FIELD_COMPARE" => query.conditions[id + 1].right <= n - 1
    BY <1>1 DEF Allowed, JoinOn!FieldAllowed
  <2>. QED  BY <1>1, <2>1, <2>2, LeafCovers
<1>. HIDE DEF on, cols
<1>5. Logical!TreeHolds(query, on, joined) <=> Logical!TreeHolds(Sql[query], on, Stored(cols, joined))
  BY <1>2, <1>3, <1>4, TreeStored
<1>. QED  BY <1>5 DEF on, cols

(* The rows of T are those of S as the database holds them.                *)
StoredAs(n, cols, S, T) ==
  /\ \A joined \in S : JoinedRow(n, joined) /\ Stored(cols, joined) \in T
  /\ \A t \in T : \E joined \in S : t = Stored(cols, joined)

LEMMA FixedStored ==
  ASSUME NEW name \in DOMAIN Fixed
  PROVE  /\ \A r \in Fixed[name] : IsRow(r) /\ Store(r) \in StoredFixed[name]
         /\ \A e \in StoredFixed[name] : \E r \in Fixed[name] : e = Store(r)
<1>1. \A r \in Fixed[name] : IsRow(r)
  <2>1. ASSUME NEW r \in Fixed[name] PROVE IsRow(r)
    <3>1. r \in [key : Int, level : Int, time : 0 .. MaxTime]
      BY FixedAssumption
    <3>. QED  BY <3>1 DEF IsRow
  <2>. QED  BY <2>1
<1>2. StoredFixed[name] = {Store(r) : r \in Fixed[name]}
  BY DEF StoredFixed, Store
<1>. QED  BY <1>1, <1>2

LEMMA PairsStored ==
  ASSUME NEW query \in Queries, SourcesCode(query) = "HDB_OK", JoinOn!JoinsAccepted(query),
         NEW n \in DOMAIN query.sources, n # 1, NEW left, JoinedRow(n - 1, left)
  PROVE  LET cols == RootColumns(query)
             P    == Pairs(query, Fixed, n, left)
         IN /\ StoredAs(n, cols, P, Pairs(Sql[query], StoredFixed, n, Stored(cols, left)))
            /\ \A joined \in P : joined[1] = left[1]
<1>. DEFINE cols == RootColumns(query)
            on   == query.sources[n].on
            name == query.sources[n].dataset
            P    == Pairs(query, Fixed, n, left)
            Q    == Pairs(Sql[query], StoredFixed, n, Stored(cols, left))
<1>1. n \in Nat /\ n - 1 \in Nat \ {0} /\ name \in DOMAIN Fixed
  BY JoinSource
<1>2. /\ \A r \in Fixed[name] : IsRow(r) /\ Store(r) \in StoredFixed[name]
      /\ \A e \in StoredFixed[name] : \E r \in Fixed[name] : e = Store(r)
  BY <1>1, FixedStored
<1>3. Sql[query].sources = query.sources
  BY SqlOfQuery
<1>4. /\ \A j : j \in P <=> /\ \E r \in Fixed[name] : j = Append(left, r)
                            /\ Logical!TreeHolds(query, on, j)
      /\ \A j : j \in Q <=> /\ \E e \in StoredFixed[name] : j = Append(Stored(cols, left), e)
                            /\ Logical!TreeHolds(Sql[query], on, j)
  BY <1>3 DEF Pairs
<1>5. ASSUME NEW r \in Fixed[name]
      PROVE  LET j == Append(left, r)
             IN /\ JoinedRow(n, j) /\ j[1] = left[1]
                /\ Stored(cols, j) = Append(Stored(cols, left), Store(r))
                /\ j \in P <=> Stored(cols, j) \in Q
  <2>. DEFINE j == Append(left, r)
  <2>1. IsRow(r) /\ Store(r) \in StoredFixed[name] /\ n - 1 + 1 = n
    BY <1>1, <1>2
  <2>2. /\ JoinedRow(n, j) /\ j[1] = left[1]
        /\ Stored(cols, j) = Append(Stored(cols, left), StoreAny(r))
    <3>. DEFINE m == n - 1
    <3>1. m \in Nat \ {0} /\ JoinedRow(m, left) /\ m + 1 = n
      BY <1>1, <2>1
    <3>. HIDE DEF m, cols
    <3>2. /\ JoinedRow(m + 1, j) /\ j[1] = left[1]
          /\ Stored(cols, j) = Append(Stored(cols, left), StoreAny(r))
      BY <2>1, <3>1, JoinedMore
    <3>. QED  BY <3>1, <3>2
  <2>3. StoreAny(r) = Store(r)
    BY <2>1, StoreFields DEF StoreAny
  <2>4. j \in P <=> Logical!TreeHolds(query, on, j)
    BY <1>4
  <2>5. Stored(cols, j) \in Q <=> Logical!TreeHolds(Sql[query], on, Stored(cols, j))
    <3>1. \E e \in StoredFixed[name] : Stored(cols, j) = Append(Stored(cols, left), e)
      BY <2>1, <2>2, <2>3
    <3>. HIDE DEF j, cols, P, Q
    <3>. QED  BY <1>4, <3>1
  <2>6. Logical!TreeHolds(query, on, j) <=> Logical!TreeHolds(Sql[query], on, Stored(cols, j))
    <3>. HIDE DEF j
    <3>. QED  BY <2>2, OnStored
  <2>. HIDE DEF P, Q, j, on, cols
  <2>. QED  BY <2>2, <2>3, <2>4, <2>5, <2>6 DEF j
<1>6. ASSUME NEW j \in P PROVE JoinedRow(n, j) /\ Stored(cols, j) \in Q /\ j[1] = left[1]
  <2>1. PICK r \in Fixed[name] : j = Append(left, r)
    BY <1>4
  <2>. HIDE DEF P, Q, cols, name
  <2>. QED  BY <1>5, <2>1
<1>7. ASSUME NEW t \in Q PROVE \E j \in P : t = Stored(cols, j)
  <2>1. PICK e \in StoredFixed[name] : t = Append(Stored(cols, left), e)
    BY <1>4
  <2>2. PICK r \in Fixed[name] : e = Store(r)
    BY <1>2
  <2>. HIDE DEF P, Q, cols, name
  <2>. QED  BY <1>5, <2>1, <2>2
<1>. HIDE DEF P, Q, cols
<1>8. StoredAs(n, cols, P, Q)
  BY <1>6, <1>7 DEF StoredAs
<1>. QED  BY <1>6, <1>8 DEF P, Q, cols

LEMMA ExtendStored ==
  ASSUME NEW query \in Queries, SourcesCode(query) = "HDB_OK", JoinOn!JoinsAccepted(query),
         NEW n \in DOMAIN query.sources, n # 1, NEW left, JoinedRow(n - 1, left)
  PROVE  LET cols == RootColumns(query)
             E    == Extended(query, Fixed, n, left)
         IN /\ StoredAs(n, cols, E, Extended(Sql[query], StoredFixed, n, Stored(cols, left)))
            /\ \A joined \in E : joined[1] = left[1]
<1>. DEFINE cols == RootColumns(query)
            P == Pairs(query, Fixed, n, left)
            Q == Pairs(Sql[query], StoredFixed, n, Stored(cols, left))
            E == Extended(query, Fixed, n, left)
            F == Extended(Sql[query], StoredFixed, n, Stored(cols, left))
            alone == Append(left, Logical!NoRow)
<1>1. StoredAs(n, cols, P, Q) /\ \A joined \in P : joined[1] = left[1]
  BY PairsStored
<1>2. Sql[query].sources = query.sources
  BY SqlOfQuery
<1>3. P = {} <=> Q = {}
  <2>. HIDE DEF P, Q
  <2>. QED  BY <1>1 DEF StoredAs
<1>4. /\ JoinedRow(n, alone) /\ alone[1] = left[1]
      /\ Stored(cols, alone) = Append(Stored(cols, left), Logical!NoRow)
  <2>1. n - 1 \in Nat \ {0} /\ n - 1 + 1 = n
    BY JoinSource
  <2>. QED  BY <2>1, JoinedMore DEF StoreAny
<1>5. CASE P = {} /\ query.sources[n].join = "LEFT"
  <2>1. E = {alone} /\ F = {Stored(cols, alone)}
    BY <1>2, <1>3, <1>4, <1>5 DEF Extended
  <2>. HIDE DEF E, F, alone, cols
  <2>2. StoredAs(n, cols, E, F) /\ \A joined \in E : joined[1] = left[1]
    BY <1>4, <2>1 DEF StoredAs
  <2>. QED  BY <2>2 DEF E, F, cols
<1>6. CASE ~(P = {} /\ query.sources[n].join = "LEFT")
  <2>1. E = P /\ F = Q
    BY <1>2, <1>3, <1>6 DEF Extended
  <2>. QED  BY <1>1, <2>1
<1>. QED  BY <1>5, <1>6

LEMMA FiniteRange ==
  ASSUME NEW S, IsFiniteSet(S), NEW f, DOMAIN f = S, f = [x \in S |-> f[x]]
  PROVE  IsFiniteSet({f[x] : x \in S})
<1>. DEFINE T == {f[x] : x \in S}
<1>1. f \in Surjection(S, T)
  BY DEF Surjection
<1>. HIDE DEF T
<1>. QED  BY <1>1, FS_Surjection DEF T

LEMMA ExtendedFinite ==
  ASSUME NEW A, NEW lookup, NEW n, NEW left, IsFiniteSet(lookup[A.sources[n].dataset])
  PROVE  IsFiniteSet(Extended(A, lookup, n, left))
<1>. DEFINE D == lookup[A.sources[n].dataset]
            f == [r \in D |-> Append(left, r)]
            all == {f[r] : r \in D}
            P == Pairs(A, lookup, n, left)
<1>1. DOMAIN f = D /\ f = [r \in D |-> f[r]]
  OBVIOUS
<1>2. P \subseteq all
  BY DEF Pairs
<1>3. IsFiniteSet(all)
  <2>. HIDE DEF f, D
  <2>1. IsFiniteSet(D)
    BY DEF D
  <2>. QED  BY <1>1, <2>1, FiniteRange
<1>4. IsFiniteSet(P)
  <2>. HIDE DEF all, P
  <2>. QED  BY <1>2, <1>3, FS_Subset
<1>5. IsFiniteSet({Append(left, Logical!NoRow)})
  BY FS_Singleton
<1>. QED  BY <1>4, <1>5 DEF Extended

(* The rows of a join of finite tables are finitely many.                  *)
LEMMA FiniteJoins ==
  ASSUME NEW roots, IsFiniteSet(roots), NEW lookup, NEW A, NEW N \in Nat \ {0},
         NEW f, JoinsTo(roots, lookup, A, f, N),
         \A n \in 2 .. N : IsFiniteSet(lookup[A.sources[n].dataset])
  PROVE  IsFiniteSet(f[N])
<1>. DEFINE bad == {n \in 1 .. N : ~IsFiniteSet(f[n])}
<1>1. SUFFICES ASSUME bad # {} PROVE FALSE
  OBVIOUS
<1>2. PICK n \in bad : \A k \in bad : n <= k
  <2>1. bad \subseteq Nat
    OBVIOUS
  <2>. HIDE DEF bad
  <2>. QED  BY <1>1, <2>1, LeastNatural
<1>3. n \in 1 .. N /\ ~IsFiniteSet(f[n])
  BY <1>2
<1>4. f[n] = JoinAt(roots, lookup, A, f, n)
  BY <1>3, JoinsToElement
<1>5. CASE n = 1
  <2>. DEFINE g == [r \in roots |-> <<r>>]
              T == {g[r] : r \in roots}
  <2>1. f[n] = T
    BY <1>4, <1>5 DEF JoinAt
  <2>2. DOMAIN g = roots /\ g = [r \in roots |-> g[r]]
    OBVIOUS
  <2>. HIDE DEF g
  <2>3. IsFiniteSet(T)
    BY <2>2, FiniteRange
  <2>. QED  BY <1>3, <2>1, <2>3
<1>6. CASE n # 1
  <2>. DEFINE S == f[n - 1]
              g == [left \in S |-> Extended(A, lookup, n, left)]
              T == {g[left] : left \in S}
  <2>1. n - 1 \in 1 .. N /\ ~(n <= n - 1) /\ n \in 2 .. N
    BY <1>3, <1>6
  <2>2. IsFiniteSet(S)
    BY <1>2, <2>1
  <2>3. f[n] = UNION T
    BY <1>4, <1>6 DEF JoinAt
  <2>4. DOMAIN g = S /\ g = [left \in S |-> g[left]]
    OBVIOUS
  <2>5. \A x \in T : IsFiniteSet(x)
    <3>1. ASSUME NEW left \in S PROVE IsFiniteSet(Extended(A, lookup, n, left))
      BY <2>1, ExtendedFinite
    <3>2. \A left \in S : g[left] = Extended(A, lookup, n, left)
      OBVIOUS
    <3>. HIDE DEF g, S
    <3>. QED  BY <3>1, <3>2
  <2>. HIDE DEF S, g
  <2>6. IsFiniteSet(T)
    BY <2>2, <2>4, FiniteRange
  <2>. HIDE DEF T
  <2>7. IsFiniteSet(UNION T)
    BY <2>5, <2>6, FS_UNION
  <2>. QED  BY <1>3, <2>3, <2>7
<1>. QED  BY <1>5, <1>6

-----------------------------------------------------------------------------
(* The joins of the rows the sub-selects return are the joins of the rows  *)
(* they stand for.                                                         *)

Restricted(cols, r) == [column \in cols |-> Store(r)[column]]

From(S, roots) == {joined \in S : joined[1] \in roots}

JoinedAs(n, cols, roots, picked, S, T) ==
  /\ \A joined \in S : JoinedRow(n, joined) /\ joined[1] \in roots
  /\ StoredAs(n, cols, From(S, picked), T)

LEMMA JoinStep ==
  ASSUME NEW query \in Queries, SourcesCode(query) = "HDB_OK", JoinOn!JoinsAccepted(query),
         NEW n \in DOMAIN query.sources, n # 1,
         NEW roots, NEW picked, NEW S, NEW T,
         JoinedAs(n - 1, RootColumns(query), roots, picked, S, T)
  PROVE  JoinedAs(n, RootColumns(query), roots, picked,
           UNION {Extended(query, Fixed, n, left) : left \in S},
           UNION {Extended(Sql[query], StoredFixed, n, left) : left \in T})
<1>. DEFINE cols == RootColumns(query)
            E(left) == Extended(query, Fixed, n, left)
            F(left) == Extended(Sql[query], StoredFixed, n, left)
            U == UNION {E(left) : left \in S}
            V == UNION {F(left) : left \in T}
<1>1. ASSUME NEW left \in S
      PROVE  /\ StoredAs(n, cols, E(left), F(Stored(cols, left)))
             /\ \A joined \in E(left) : joined[1] = left[1]
  <2>1. JoinedRow(n - 1, left)
    BY DEF JoinedAs
  <2>. QED  BY <2>1, ExtendStored
<1>. HIDE DEF E, F, cols
<1>2. ASSUME NEW joined \in U
      PROVE  /\ JoinedRow(n, joined) /\ joined[1] \in roots
             /\ joined[1] \in picked => Stored(cols, joined) \in V
  <2>1. PICK left \in S : joined \in E(left)
    OBVIOUS
  <2>2. JoinedRow(n, joined) /\ joined[1] = left[1] /\ Stored(cols, joined) \in F(Stored(cols, left))
    BY <1>1, <2>1 DEF StoredAs
  <2>3. left[1] \in roots /\ (left[1] \in picked => Stored(cols, left) \in T)
    BY DEF JoinedAs, StoredAs, From, cols
  <2>. QED  BY <2>2, <2>3
<1>3. ASSUME NEW t \in V PROVE \E joined \in From(U, picked) : t = Stored(cols, joined)
  <2>1. PICK right \in T : t \in F(right)
    OBVIOUS
  <2>2. PICK left \in From(S, picked) : right = Stored(cols, left)
    BY DEF JoinedAs, StoredAs, cols
  <2>3. left \in S /\ left[1] \in picked
    BY DEF From
  <2>4. PICK joined \in E(left) : t = Stored(cols, joined)
    BY <1>1, <2>1, <2>2, <2>3 DEF StoredAs
  <2>5. joined \in U /\ joined[1] = left[1]
    BY <1>1, <2>3
  <2>. HIDE DEF U
  <2>. QED  BY <2>3, <2>4, <2>5 DEF From
<1>. HIDE DEF U, V
<1>4. JoinedAs(n, cols, roots, picked, U, V)
  BY <1>2, <1>3 DEF JoinedAs, StoredAs, From
<1>. QED  BY <1>4 DEF U, V, E, F, cols

LEMMA JoinedStored ==
  ASSUME NEW query \in Queries, SourcesCode(query) = "HDB_OK", JoinOn!JoinsAccepted(query),
         NEW roots, \A r \in roots : IsRow(r), NEW picked, picked \subseteq roots,
         NEW images, images = {Restricted(RootColumns(query), r) : r \in picked}
  PROVE  JoinedAs(Len(query.sources), RootColumns(query), roots, picked,
           Logical!Joined(roots, Fixed, query), Logical!Joined(images, StoredFixed, Sql[query]))
<1>. DEFINE cols == RootColumns(query)
            N == Len(query.sources)
            B == Sql[query]
<1>1. N \in Nat \ {0} /\ DOMAIN query.sources = 1 .. N /\ B.sources = query.sources
  BY QuerySizes, SqlOfQuery
<1>2. PICK f : Logical!Joined(roots, Fixed, query) = f[N] /\ JoinsTo(roots, Fixed, query, f, N)
  <2>. HIDE DEF B
  <2>. QED  BY <1>1, JoinedComputed
<1>3. PICK g : Logical!Joined(images, StoredFixed, B) = g[N] /\ JoinsTo(images, StoredFixed, B, g, N)
  <2>1. DOMAIN B.sources = 1 .. N /\ Len(B.sources) = N
    BY <1>1
  <2>. HIDE DEF B, N
  <2>. QED  BY <1>1, <2>1, JoinedComputed
<1>. DEFINE As(n) == JoinedAs(n, cols, roots, picked, f[n], g[n])
            bad == {n \in 1 .. N : ~As(n)}
<1>4. SUFFICES ASSUME bad # {} PROVE FALSE
  <2>1. N \in 1 .. N
    BY <1>1
  <2>. HIDE DEF As
  <2>2. As(N)
    BY <2>1, <1>4
  <2>. QED  BY <1>2, <1>3, <2>2 DEF As
<1>5. PICK n \in bad : \A k \in bad : n <= k
  <2>1. bad \subseteq Nat
    OBVIOUS
  <2>. HIDE DEF bad
  <2>. QED  BY <1>4, <2>1, LeastNatural
<1>6. n \in 1 .. N /\ ~As(n)
  <2>. HIDE DEF As
  <2>. QED  BY <1>5
<1>7. f[n] = JoinAt(roots, Fixed, query, f, n) /\ g[n] = JoinAt(images, StoredFixed, B, g, n)
  <2>. HIDE DEF B, N
  <2>. QED  BY <1>2, <1>3, <1>6, JoinsToElement
<1>8. CASE n = 1
  <2>1. f[n] = {<<r>> : r \in roots} /\ g[n] = {<<r>> : r \in images}
    BY <1>7, <1>8 DEF JoinAt
  <2>2. ASSUME NEW r \in roots
        PROVE  JoinedRow(1, <<r>>) /\ <<r>>[1] = r /\ Stored(cols, <<r>>) = <<Restricted(cols, r)>>
    BY JoinedOne DEF Restricted
  <2>. HIDE DEF cols
  <2>3. \A joined \in f[n] : JoinedRow(n, joined) /\ joined[1] \in roots
    BY <1>8, <2>1, <2>2
  <2>4. \A joined \in From(f[n], picked) : Stored(cols, joined) \in g[n]
    BY <2>1, <2>2 DEF From, cols
  <2>5. ASSUME NEW t \in g[n] PROVE \E joined \in From(f[n], picked) : t = Stored(cols, joined)
    <3>1. PICK r \in picked : t = <<Restricted(cols, r)>>
      BY <2>1 DEF cols
    <3>2. r \in roots /\ <<r>> \in From(f[n], picked)
      BY <2>1, <2>2 DEF From
    <3>. QED  BY <2>2, <3>1, <3>2
  <2>6. As(n)
    BY <2>3, <2>4, <2>5 DEF JoinedAs, StoredAs, From
  <2>. HIDE DEF As
  <2>. QED  BY <1>6, <2>6
<1>9. CASE n # 1
  <2>1. n - 1 \in 1 .. N /\ ~(n <= n - 1) /\ n \in DOMAIN query.sources
    BY <1>1, <1>6, <1>9
  <2>2. As(n - 1)
    <3>. HIDE DEF As
    <3>. QED  BY <1>5, <2>1
  <2>. DEFINE U == UNION {Extended(query, Fixed, n, left) : left \in f[n - 1]}
              V == UNION {Extended(B, StoredFixed, n, left) : left \in g[n - 1]}
  <2>3. JoinedAs(n, cols, roots, picked, U, V)
    BY <1>9, <2>1, <2>2, JoinStep
  <2>4. f[n] = U /\ g[n] = V
    BY <1>7, <1>9 DEF JoinAt
  <2>. HIDE DEF U, V
  <2>5. As(n)
    BY <2>3, <2>4
  <2>. HIDE DEF As
  <2>. QED  BY <1>6, <2>5
<1>. QED  BY <1>8, <1>9

LEMMA JoinedFinite ==
  ASSUME NEW query \in Queries, SourcesCode(query) = "HDB_OK", JoinOn!JoinsAccepted(query),
         NEW roots, IsFiniteSet(roots)
  PROVE  IsFiniteSet(Logical!Joined(roots, Fixed, query))
<1>. DEFINE N == Len(query.sources)
<1>1. N \in Nat \ {0} /\ DOMAIN query.sources = 1 .. N
  BY QuerySizes
<1>2. PICK f : Logical!Joined(roots, Fixed, query) = f[N] /\ JoinsTo(roots, Fixed, query, f, N)
  BY <1>1, JoinedComputed
<1>3. ASSUME NEW n \in 2 .. N PROVE IsFiniteSet(Fixed[query.sources[n].dataset])
  <2>1. n \in DOMAIN query.sources /\ n # 1
    BY <1>1
  <2>2. query.sources[n].dataset \in DOMAIN Fixed
    BY <2>1, JoinSource
  <2>. QED  BY <2>2, FixedAssumption
<1>. HIDE DEF N
<1>. QED  BY <1>1, <1>2, <1>3, FiniteJoins

-----------------------------------------------------------------------------
(* What is returned and in which order.                                    *)

CodedLess(field, a, b) == Coded(field, a) < Coded(field, b)

LEMMA CodedOrder ==
  ASSUME NEW field, NEW a, NEW b, field = "time" => a \in 0 .. MaxTime /\ b \in 0 .. MaxTime
  PROVE  /\ CodedLess(field, a, b) <=> a < b
         /\ Coded(field, a) = Coded(field, b) <=> a = b
<1>1. CASE field # "time"
  BY <1>1 DEF Coded, CodedLess
<1>2. CASE field = "time"
  <2>1. /\ a \in DOMAIN Clock /\ b \in DOMAIN Clock /\ a \in Int /\ b \in Int
        /\ Stamp(a) \in Nat /\ Stamp(b) \in Nat
    BY <1>2, MomentsInClock
  <2>2. (Stamp(a) <= Stamp(b) <=> a <= b) /\ (Stamp(b) <= Stamp(a) <=> b <= a)
    BY <2>1, StampOrder
  <2>3. Coded(field, a) = Stamp(a) /\ Coded(field, b) = Stamp(b)
    BY <1>2 DEF Coded
  <2>. QED  BY <2>1, <2>2, <2>3 DEF CodedLess
<1>. QED  BY <1>1, <1>2

(* The values of two joined rows compare as they are stored.               *)
LEMMA ValuesCompare ==
  ASSUME NEW cols, cols \subseteq FieldNames, NEW source, NEW field, NEW j, NEW k,
         Covers(j, cols, source, field), Covers(k, cols, source, field)
  PROVE  LET v == Logical!ValueOf(j, source, field)
             w == Logical!ValueOf(k, source, field)
             x == Logical!ValueOf(Stored(cols, j), source, field)
             y == Logical!ValueOf(Stored(cols, k), source, field)
         IN (Logical!ValueBefore(v, w) <=> Logical!ValueBefore(x, y)) /\ (v = w <=> x = y)
<1>. DEFINE v == Logical!ValueOf(j, source, field)
            w == Logical!ValueOf(k, source, field)
            x == Logical!ValueOf(Stored(cols, j), source, field)
            y == Logical!ValueOf(Stored(cols, k), source, field)
            IsPair(p, q) ==
              \/ p = <<>> /\ q = <<>>
              \/ \E value : /\ field = "time" => value \in 0 .. MaxTime
                            /\ p = <<value>> /\ q = <<Coded(field, value)>>
<1>1. IsPair(v, x) /\ IsPair(w, y)
  BY ValueStored
<1>. HIDE DEF v, w, x, y
<1>2. \A a, b : <<a>> # <<>> /\ <<a>>[1] = a /\ (<<a>> = <<b>> <=> a = b)
  OBVIOUS
<1>3. (v = <<>> <=> x = <<>>) /\ (w = <<>> <=> y = <<>>)
  BY <1>1, <1>2
<1>4. CASE v # <<>> /\ w # <<>>
  <2>1. PICK a : (field = "time" => a \in 0 .. MaxTime) /\ v = <<a>> /\ x = <<Coded(field, a)>>
    BY <1>1, <1>4
  <2>2. PICK b : (field = "time" => b \in 0 .. MaxTime) /\ w = <<b>> /\ y = <<Coded(field, b)>>
    BY <1>1, <1>4
  <2>3. (Coded(field, a) < Coded(field, b) <=> a < b) /\ (Coded(field, a) = Coded(field, b) <=> a = b)
    BY <2>1, <2>2, CodedOrder DEF CodedLess
  <2>4. v[1] = a /\ w[1] = b /\ x[1] = Coded(field, a) /\ y[1] = Coded(field, b)
    BY <2>1, <2>2
  <2>5. v = w <=> x = y
    BY <1>2, <2>1, <2>2, <2>3
  <2>6. Logical!ValueBefore(v, w) <=> Logical!ValueBefore(x, y)
    BY <1>3, <1>4, <2>3, <2>4 DEF Logical!ValueBefore
  <2>. QED  BY <2>5, <2>6 DEF v, w, x, y
<1>5. CASE v = <<>> \/ w = <<>>
  <2>1. (v = w <=> x = y) /\ (Logical!ValueBefore(v, w) <=> Logical!ValueBefore(x, y))
    BY <1>3, <1>5 DEF Logical!ValueBefore
  <2>. QED  BY <2>1 DEF v, w, x, y
<1>. QED  BY <1>4, <1>5

(* The statement orders the rows as the query asks.                        *)
LEMMA OrderSame ==
  ASSUME NEW query \in Queries, NEW j, JoinedRow(Len(query.sources), j),
         NEW k, JoinedRow(Len(query.sources), k)
  PROVE  LET cols == RootColumns(query)
         IN Logical!Before(j, k, query.orders)
              <=> Logical!Before(Stored(cols, j), Stored(cols, k), query.orders)
<1>. DEFINE cols == RootColumns(query)
            x == Stored(cols, j)
            y == Stored(cols, k)
            orders == query.orders
            At(r, n) == Logical!ValueOf(r, orders[n].source, orders[n].field)
<1>1. ASSUME NEW n \in DOMAIN orders
      PROVE  /\ Logical!ValueBefore(At(j, n), At(k, n)) <=> Logical!ValueBefore(At(x, n), At(y, n))
             /\ Logical!ValueBefore(At(k, n), At(j, n)) <=> Logical!ValueBefore(At(y, n), At(x, n))
             /\ At(j, n) = At(k, n) <=> At(x, n) = At(y, n)
  <2>. DEFINE o == orders[n]
  <2>1. IsField(query, o.source, o.field) /\ Len(query.sources) \in Nat
    BY QueryAssumption DEF IsQuery
  <2>2. cols \subseteq FieldNames /\ (o.source = 0 => o.field \in cols)
    BY OrderColumns, RootColumnsFields
  <2>. HIDE DEF cols, o
  <2>3. Covers(j, cols, o.source, o.field) /\ Covers(k, cols, o.source, o.field)
    BY <2>1, <2>2, RowCovers DEF IsField
  <2>. QED  BY <2>2, <2>3, ValuesCompare DEF o
<1>2. \A n \in DOMAIN orders : \A m \in 1 .. n - 1 : m \in DOMAIN orders
  BY QueryAssumption DEF IsQuery
<1>. HIDE DEF x, y, orders, At
<1>3. \A n \in DOMAIN orders :
        (\A m \in 1 .. n - 1 : At(j, m) = At(k, m)) <=> (\A m \in 1 .. n - 1 : At(x, m) = At(y, m))
  BY <1>1, <1>2
<1>. DEFINE First(a, b, n) ==
              /\ IF orders[n].desc THEN Logical!ValueBefore(At(b, n), At(a, n))
                 ELSE Logical!ValueBefore(At(a, n), At(b, n))
              /\ \A m \in 1 .. n - 1 : At(a, m) = At(b, m)
<1>4. \A n \in DOMAIN orders : First(j, k, n) <=> First(x, y, n)
  BY <1>1, <1>3
<1>5. /\ Logical!Before(j, k, orders) <=> \E n \in DOMAIN orders : First(j, k, n)
      /\ Logical!Before(x, y, orders) <=> \E n \in DOMAIN orders : First(x, y, n)
  BY DEF Logical!Before, At
<1>. HIDE DEF First
<1>6. Logical!Before(j, k, orders) <=> Logical!Before(x, y, orders)
  BY <1>4, <1>5
<1>. QED  BY <1>6 DEF x, y, orders

(* NormalizeResult gives the caller the values of the row.                 *)
LEMMA OutputSame ==
  ASSUME NEW query \in Queries, NEW j, JoinedRow(Len(query.sources), j)
  PROVE  Normalized(Stored(RootColumns(query), j), query) = Logical!Output(j, query)
<1>. DEFINE cols == RootColumns(query)
            x == Stored(cols, j)
            Back(ref, value) == IF ref.field = "time" THEN [i \in DOMAIN value |-> Instant(value[i])]
                                ELSE value
<1>1. ASSUME NEW ref \in query.selects
      PROVE  Back(ref, Logical!ValueOf(x, ref.source, ref.field))
               = Logical!ValueOf(j, ref.source, ref.field)
  <2>. DEFINE v == Logical!ValueOf(j, ref.source, ref.field)
              w == Logical!ValueOf(x, ref.source, ref.field)
  <2>1. IsField(query, ref.source, ref.field) /\ Len(query.sources) \in Nat
    BY QueryAssumption DEF IsQuery
  <2>2. cols \subseteq FieldNames /\ (ref.source = 0 => ref.field \in cols)
    BY SelectColumns, RootColumnsFields
  <2>3. Covers(j, cols, ref.source, ref.field)
    <3>. HIDE DEF cols
    <3>. QED  BY <2>1, <2>2, RowCovers DEF IsField
  <2>4. \/ v = <<>> /\ w = <<>>
        \/ \E value : /\ ref.field = "time" => value \in 0 .. MaxTime
                      /\ v = <<value>> /\ w = <<Coded(ref.field, value)>>
    <3>. HIDE DEF cols
    <3>. QED  BY <2>2, <2>3, ValueStored
  <2>. HIDE DEF v, w
  <2>5. CASE v = <<>> /\ w = <<>>
    <3>1. DOMAIN w = {}
      BY <2>5
    <3>2. [i \in DOMAIN w |-> Instant(w[i])] = <<>>
      BY <3>1
    <3>3. Back(ref, w) = v
      BY <2>5, <3>2
    <3>. QED  BY <3>3 DEF v, w
  <2>6. ASSUME NEW value, ref.field = "time" => value \in 0 .. MaxTime,
               v = <<value>>, w = <<Coded(ref.field, value)>>
        PROVE  Back(ref, w) = v
    <3>1. CASE ref.field # "time"
      BY <2>6, <3>1 DEF Coded
    <3>2. CASE ref.field = "time"
      <4>1. value \in 0 .. MaxTime /\ w = <<Stamp(value)>>
        BY <2>6, <3>2 DEF Coded
      <4>2. Instant(Stamp(value)) = value
        BY <4>1, MomentsInClock
      <4>3. DOMAIN w = 1 .. 1 /\ w[1] = Stamp(value)
        BY <4>1
      <4>. DEFINE b == [i \in DOMAIN w |-> Instant(w[i])]
      <4>4. DOMAIN b = 1 .. 1 /\ b[1] = value /\ b = [i \in 1 .. 1 |-> b[i]]
        BY <4>2, <4>3
      <4>5. DOMAIN v = 1 .. 1 /\ v[1] = value /\ v = [i \in 1 .. 1 |-> v[i]]
        BY <2>6
      <4>6. Back(ref, w) = b
        BY <3>2
      <4>. HIDE DEF b
      <4>7. b = v
        BY <4>4, <4>5
      <4>. QED  BY <4>6, <4>7
    <3>. QED  BY <3>1, <3>2
  <2>7. Back(ref, w) = v
    <3>. HIDE DEF Back
    <3>. QED  BY <2>4, <2>5, <2>6 DEF v, w
  <2>. QED  BY <2>7 DEF v, w
<1>2. Normalized(x, query) = [ref \in query.selects |-> Back(ref, Logical!ValueOf(x, ref.source, ref.field))]
  BY DEF Normalized
<1>3. Logical!Output(j, query) = [ref \in query.selects |-> Logical!ValueOf(j, ref.source, ref.field)]
  BY DEF Logical!Output
<1>. HIDE DEF Back, x
<1>4. Normalized(x, query) = Logical!Output(j, query)
  BY <1>1, <1>2, <1>3
<1>. QED  BY <1>4 DEF x

(* Joined rows are told apart by what the statement works on: the root by  *)
(* its key.                                                                *)
KeysDiffer(rows) == \A r, s \in rows : r.key = s.key => r = s

LEMMA StoredDiffer ==
  ASSUME NEW query \in Queries, query.selects # {}, NEW n \in Nat \ {0},
         NEW roots, KeysDiffer(roots),
         NEW j, JoinedRow(n, j), j[1] \in roots, NEW k, JoinedRow(n, k), k[1] \in roots,
         Stored(RootColumns(query), j) = Stored(RootColumns(query), k)
  PROVE  j = k
<1>. DEFINE cols == RootColumns(query)
            x == Stored(cols, j)
            y == Stored(cols, k)
<1>1. DOMAIN j = 1 .. n /\ DOMAIN k = 1 .. n /\ 1 \in 1 .. n
  BY DEF JoinedRow
<1>2. \A i \in 1 .. n : x[i] = y[i]
  OBVIOUS
<1>3. "key" \in cols /\ "key" \in FieldNames
  <2>. DEFINE ref == [source |-> 0, field |-> "key"]
  <2>1. ref \in query.selects
    BY QueryAssumption DEF IsQuery
  <2>2. ref.source = 0 /\ ref.field = "key"
    OBVIOUS
  <2>. HIDE DEF ref
  <2>. QED  BY <2>1, <2>2, SelectColumns DEF FieldNames
<1>4. j[1] = k[1]
  <2>1. IsRow(j[1]) /\ IsRow(k[1]) /\ j[1] # Logical!NoRow /\ k[1] # Logical!NoRow
    BY StoreFields DEF JoinedRow
  <2>2. x[1] = [column \in cols |-> Store(j[1])[column]] /\ y[1] = [column \in cols |-> Store(k[1])[column]]
    BY <1>1, <2>1 DEF Stored
  <2>. HIDE DEF cols, x, y
  <2>3. x[1]["key"] = Store(j[1])["key"] /\ y[1]["key"] = Store(k[1])["key"]
    BY <1>3, <2>2
  <2>4. Store(j[1]).key = j[1].key /\ Store(k[1]).key = k[1].key
    BY <2>1, StoreFields
  <2>5. j[1].key = k[1].key
    BY <1>1, <1>2, <2>3, <2>4
  <2>. QED  BY <2>5 DEF KeysDiffer
<1>5. ASSUME NEW i \in 1 .. n, i # 1 PROVE j[i] = k[i]
  <2>1. /\ x[i] = IF j[i] = Logical!NoRow THEN Logical!NoRow ELSE Store(j[i])
        /\ y[i] = IF k[i] = Logical!NoRow THEN Logical!NoRow ELSE Store(k[i])
    BY <1>1, <1>5 DEF Stored
  <2>2. (j[i] = Logical!NoRow \/ IsRow(j[i])) /\ (k[i] = Logical!NoRow \/ IsRow(k[i]))
    BY DEF JoinedRow
  <2>3. (IsRow(j[i]) => Store(j[i]) # Logical!NoRow) /\ (IsRow(k[i]) => Store(k[i]) # Logical!NoRow)
    BY StoreFields
  <2>. HIDE DEF x, y
  <2>. QED  BY <1>2, <2>1, <2>2, <2>3, StoreInjective
<1>6. j = [i \in 1 .. n |-> j[i]] /\ k = [i \in 1 .. n |-> k[i]]
  BY DEF JoinedRow
<1>. HIDE DEF x, y
<1>. QED  BY <1>4, <1>5, <1>6

-----------------------------------------------------------------------------
(* What is filtered in the sub-selects and what after the joins is, taken  *)
(* together, what the query asks for.                                      *)

LEMMA RootLeaf ==
  ASSUME NEW query, NEW w, IsLeaf(query, w), w.type # "FIELD_COMPARE", w.source = 0,
         NEW j, NEW k, j[1] = k[1]
  PROVE  Logical!LeafHolds(w, j) <=> Logical!LeafHolds(w, k)
<1>. DEFINE v == Logical!ValueOf(j, w.source, w.field)
            u == Logical!ValueOf(k, w.source, w.field)
<1>1. v = u
  <2>1. w.source + 1 = 1
    OBVIOUS
  <2>. QED  BY <2>1 DEF Logical!ValueOf
<1>2. CASE w.type = "NULL"
  <2>. HIDE DEF v, u
  <2>1. /\ Logical!LeafHolds(w, j) <=> ((v = <<>>) = (w.op = "IS NULL"))
        /\ Logical!LeafHolds(w, k) <=> ((u = <<>>) = (w.op = "IS NULL"))
    BY <1>2 DEF Logical!LeafHolds, v, u
  <2>. QED  BY <1>1, <2>1
<1>3. CASE w.type = "VALUE"
  <2>1. /\ Logical!LeafHolds(w, j) <=> v # <<>> /\ Logical!Compare(w.op, v[1], w.low)
        /\ Logical!LeafHolds(w, k) <=> u # <<>> /\ Logical!Compare(w.op, u[1], w.low)
    BY <1>3 DEF Logical!LeafHolds
  <2>. HIDE DEF v, u
  <2>. QED  BY <1>1, <2>1
<1>4. CASE w.type = "BETWEEN"
  <2>1. /\ Logical!LeafHolds(w, j) <=> v # <<>> /\ w.low <= v[1] /\ v[1] <= w.high
        /\ Logical!LeafHolds(w, k) <=> u # <<>> /\ w.low <= u[1] /\ u[1] <= w.high
    BY <1>4 DEF Logical!LeafHolds
  <2>. HIDE DEF v, u
  <2>. QED  BY <1>1, <2>1
<1>5. CASE w.type = "IN"
  <2>1. /\ Logical!LeafHolds(w, j) <=> v # <<>> /\ v[1] \in w.values
        /\ Logical!LeafHolds(w, k) <=> u # <<>> /\ u[1] \in w.values
    BY <1>5 DEF Logical!LeafHolds
  <2>. HIDE DEF v, u
  <2>. QED  BY <1>1, <2>1
<1>. QED  BY <1>2, <1>3, <1>4, <1>5 DEF IsLeaf

(* The where items of the root, over the rows of a day table.              *)
RootWheres(query, r) ==
  \A i \in DOMAIN query.wheres :
    query.wheres[i].source = 0 => Logical!LeafHolds(query.wheres[i], <<r>>)

Picked(rows, query) ==
  {r \in rows : RouteBegin(query) <= r.time /\ r.time < RouteEnd(query) /\ RootWheres(query, r)}

LEMMA WhereCovers ==
  ASSUME NEW query \in Queries, NEW i \in DOMAIN query.wheres,
         NEW n \in Nat, NEW j, JoinedRow(n, j), query.wheres[i].source <= n - 1
  PROVE  /\ CoversLeaf(j, RootColumns(query), query.wheres[i])
         /\ IsLeaf(query, query.wheres[i]) /\ query.wheres[i].type # "FIELD_COMPARE"
<1>. DEFINE w == query.wheres[i]
            cols == RootColumns(query)
<1>1. IsLeaf(query, w) /\ w.type # "FIELD_COMPARE" /\ Len(query.sources) \in Nat
  BY QueryAssumption DEF IsQuery
<1>2. w.source \in 0 .. n - 1 /\ w.field \in FieldNames
  BY <1>1 DEF IsLeaf, IsField
<1>3. w.source = 0 => w.field \in cols
  BY WhereColumns
<1>. HIDE DEF w, cols
<1>4. Covers(j, cols, w.source, w.field)
  BY <1>2, <1>3, RowCovers
<1>5. CoversLeaf(j, cols, w)
  BY <1>1, <1>4 DEF CoversLeaf
<1>. QED  BY <1>1, <1>5 DEF w, cols

LEMMA WheresSame ==
  ASSUME NEW query \in Queries, NEW j, JoinedRow(Len(query.sources), j)
  PROVE  Logical!WheresHold(query, j) <=>
           /\ RootWheres(query, j[1])
           /\ \A leaf \in Range(Sql[query].wheres) :
                leaf.source # 0 => Logical!LeafHolds(leaf, Stored(RootColumns(query), j))
<1>. DEFINE cols == RootColumns(query)
            wheres == query.wheres
            B == Sql[query]
            x == Stored(cols, j)
<1>1. ASSUME NEW i \in DOMAIN wheres
      PROVE  /\ B.wheres[i].source = wheres[i].source
             /\ Logical!LeafHolds(wheres[i], j) <=> Logical!LeafHolds(B.wheres[i], x)
             /\ wheres[i].source = 0 =>
                  (Logical!LeafHolds(wheres[i], j) <=> Logical!LeafHolds(wheres[i], <<j[1]>>))
  <2>1. IsField(query, wheres[i].source, wheres[i].field) /\ Len(query.sources) \in Nat
    BY QueryAssumption DEF IsQuery, IsLeaf
  <2>2. wheres[i].source <= Len(query.sources) - 1
    BY <2>1 DEF IsField
  <2>3. /\ CoversLeaf(j, cols, wheres[i])
        /\ IsLeaf(query, wheres[i]) /\ wheres[i].type # "FIELD_COMPARE"
    BY <2>1, <2>2, WhereCovers
  <2>4. cols \subseteq FieldNames
    BY RootColumnsFields
  <2>5. /\ Logical!LeafHolds(wheres[i], j) <=> Logical!LeafHolds(B.wheres[i], x)
        /\ B.wheres[i].source = wheres[i].source
    <3>. HIDE DEF cols
    <3>. QED  BY <2>3, <2>4, WhereStored
  <2>6. <<j[1]>>[1] = j[1]
    OBVIOUS
  <2>. HIDE DEF wheres, B, x
  <2>. QED  BY <2>3, <2>5, <2>6, RootLeaf
<1>2. DOMAIN B.wheres = DOMAIN wheres
  BY SqlOfQuery
<1>3. Range(B.wheres) = {B.wheres[i] : i \in DOMAIN wheres}
  BY <1>2 DEF Range
<1>. HIDE DEF B, x
<1>. QED  BY <1>1, <1>3 DEF Logical!WheresHold, RootWheres, B, x

LEMMA TreeOfRow ==
  ASSUME NEW query \in Queries, NEW j, JoinedRow(Len(query.sources), j)
  PROVE  Logical!TreeHolds(query, query.root, j)
           <=> Logical!TreeHolds(Sql[query], Sql[query].root, Stored(RootColumns(query), j))
<1>. DEFINE cols == RootColumns(query)
            root == query.root
<1>1. /\ IsQuery(query) /\ root \in -1 .. Len(query.conditions) - 1
      /\ Len(query.conditions) \in Nat /\ Len(query.sources) \in Nat /\ Sql[query].root = root
  BY QuerySizes, SqlOfQuery
<1>2. ASSUME root # -1, NEW id \in JoinOn!Leaves(query, root)
      PROVE  CoversLeaf(j, cols, query.conditions[id + 1])
  <2>1. root \in 0 .. Len(query.conditions) - 1
    BY <1>1, <1>2
  <2>2. /\ id + 1 \in DOMAIN query.conditions /\ query.conditions[id + 1].type # "GROUP"
        /\ IsLeaf(query, query.conditions[id + 1])
    <3>. HIDE DEF root
    <3>. QED  BY <1>1, <1>2, <2>1, QueryLeaves
  <2>3. /\ query.conditions[id + 1].source <= Len(query.sources) - 1
        /\ query.conditions[id + 1].type = "FIELD_COMPARE" =>
             query.conditions[id + 1].right <= Len(query.sources) - 1
    BY <1>1, <2>2 DEF IsLeaf, IsField
  <2>. QED  BY <1>1, <2>2, <2>3, LeafCovers
<1>3. cols \subseteq FieldNames
  BY RootColumnsFields
<1>. HIDE DEF root, cols
<1>4. Logical!TreeHolds(query, root, j) <=> Logical!TreeHolds(Sql[query], root, Stored(cols, j))
  BY <1>1, <1>2, <1>3, TreeStored
<1>. QED  BY <1>1, <1>4 DEF root, cols

LEMMA MatchSame ==
  ASSUME NEW query \in Queries, RangeCode(query) = "HDB_OK", NEW roots,
         NEW j, JoinedRow(Len(query.sources), j), j[1] \in roots
  PROVE  Logical!Matches(j, query) <=>
           j[1] \in Picked(roots, query) /\ SelectWhere(query, Stored(RootColumns(query), j))
<1>. DEFINE x == Stored(RootColumns(query), j)
            t == j[1].time
            N == Len(query.sources)
            After == \A leaf \in Range(Sql[query].wheres) :
                       leaf.source # 0 => Logical!LeafHolds(leaf, x)
            Tree == Logical!TreeHolds(query, query.root, j)
<1>1. N \in Nat \ {0} /\ DOMAIN j = 1 .. N
  BY QuerySizes DEF JoinedRow
<1>2. 1 \in DOMAIN j /\ IsRow(j[1]) /\ t \in 0 .. MaxTime /\ MaxTime \in Nat
  BY <1>1, ShardAssumption DEF JoinedRow, IsRow
<1>3. Logical!WheresHold(query, j) <=> RootWheres(query, j[1]) /\ After
  BY WheresSame
<1>4. Sql[query].root = query.root
  BY SqlOfQuery
<1>5. SelectWhere(query, x) <=> After /\ Tree
  <2>1. Tree <=> Logical!TreeHolds(Sql[query], query.root, x)
    BY <1>4, TreeOfRow
  <2>. HIDE DEF x, Tree
  <2>. QED  BY <2>1 DEF SelectWhere
<1>6. /\ RouteBegin(query) \in Nat /\ RouteEnd(query) \in Nat
      /\ query.time # <<>> => /\ query.time[1] \in Nat /\ query.time[2] \in Nat
                              /\ query.time[1] <= RouteBegin(query) /\ RouteEnd(query) <= query.time[2]
  <2>1. /\ RouteBegin(query) \in Nat /\ RouteEnd(query) \in Nat
        /\ \A b \in Begins(query) : b <= RouteBegin(query)
        /\ \A e \in Ends(query) : RouteEnd(query) <= e
    BY RouteRange, <1>2 DEF Times
  <2>2. query.time # <<>> => query.time[1] \in 0 .. MaxTime /\ query.time[2] \in 0 .. MaxTime
    BY QueryAssumption DEF IsQuery
  <2>3. query.time # <<>> => query.time[1] \in Begins(query) /\ query.time[2] \in Ends(query)
    BY DEF Begins, Ends
  <2>. QED  BY <1>2, <2>1, <2>2, <2>3
<1>7. ASSUME Logical!Matches(j, query)
      PROVE  j[1] \in Picked(roots, query) /\ SelectWhere(query, x)
  <2>1. /\ query.time # <<>> => query.time[1] <= t /\ t < query.time[2]
        /\ Logical!WheresHold(query, j) /\ Tree
    BY <1>7 DEF Logical!Matches
  <2>2. RouteBegin(query) <= t /\ t < RouteEnd(query)
    BY <1>2, <2>1, MatchesInRange DEF Logical!WheresHold
  <2>3. RootWheres(query, j[1]) /\ After
    BY <1>3, <2>1
  <2>. HIDE DEF After, Tree, x
  <2>. QED  BY <1>5, <2>1, <2>2, <2>3 DEF Picked
<1>8. ASSUME j[1] \in Picked(roots, query), SelectWhere(query, x)
      PROVE  Logical!Matches(j, query)
  <2>1. RouteBegin(query) <= t /\ t < RouteEnd(query) /\ RootWheres(query, j[1])
    BY <1>8 DEF Picked
  <2>2. After /\ Tree
    BY <1>5, <1>8
  <2>3. query.time # <<>> => query.time[1] <= t /\ t < query.time[2]
    BY <1>2, <1>6, <2>1
  <2>4. Logical!WheresHold(query, j)
    BY <1>3, <2>1, <2>2
  <2>. HIDE DEF After
  <2>. QED  BY <2>2, <2>3, <2>4 DEF Logical!Matches
<1>. HIDE DEF x
<1>. QED  BY <1>7, <1>8 DEF x

LEMMA StoredOne ==
  ASSUME NEW r, IsRow(r)
  PROVE  Stored(FieldNames, <<r>>) = <<Store(r)>>
<1>. DEFINE s == Store(r)
            u == [column \in FieldNames |-> s[column]]
<1>1. s = [column \in DOMAIN s |-> s[column]]
  BY DEF Store, IsRow
<1>2. DOMAIN s = FieldNames
  BY StoreFields
<1>3. Stored(FieldNames, <<r>>) = <<u>>
  BY JoinedOne
<1>. HIDE DEF s
<1>4. u = s
  BY <1>1, <1>2
<1>. QED  BY <1>3, <1>4 DEF s

(* The where items of the root mean in SQL what they mean to the caller.   *)
LEMMA RootWheresStored ==
  ASSUME NEW query \in Queries, NEW r, IsRow(r)
  PROVE  RootWheres(query, r) <=>
           \A leaf \in Range(Sql[query].wheres) :
             leaf.source = 0 => Logical!LeafHolds(leaf, <<Store(r)>>)
<1>. DEFINE wheres == query.wheres
            B == Sql[query]
            one == <<r>>
<1>1. ASSUME NEW i \in DOMAIN wheres
      PROVE  /\ B.wheres[i].source = wheres[i].source
             /\ wheres[i].source = 0 =>
                  (Logical!LeafHolds(wheres[i], one) <=> Logical!LeafHolds(B.wheres[i], <<Store(r)>>))
  <2>. DEFINE w == wheres[i]
  <2>1. IsLeaf(query, w) /\ w.type # "FIELD_COMPARE"
    BY QueryAssumption DEF IsQuery
  <2>2. B.wheres[i] = Formatted(w)
    BY SqlOfQuery
  <2>3. Formatted(w).source = w.source
    <3>. HIDE DEF w
    <3>. QED  BY <2>1, FormattedLeaf
  <2>4. ASSUME w.source = 0
        PROVE  Logical!LeafHolds(w, one) <=> Logical!LeafHolds(Formatted(w), <<Store(r)>>)
    <3>1. w.field \in FieldNames
      BY <2>1 DEF IsLeaf, IsField
    <3>2. JoinedRow(1, one)
      BY JoinedOne
    <3>3. w.source \in 0 .. 1 - 1
      BY <2>4
    <3>. HIDE DEF one, w
    <3>4. Covers(one, FieldNames, w.source, w.field)
      BY <3>1, <3>2, <3>3, RowCovers
    <3>5. CoversLeaf(one, FieldNames, w)
      BY <2>1, <3>4 DEF CoversLeaf
    <3>6. Logical!LeafHolds(w, one) <=> Logical!LeafHolds(Formatted(w), Stored(FieldNames, one))
      BY <2>1, <3>5, LeafSame
    <3>7. Stored(FieldNames, one) = <<Store(r)>>
      BY StoredOne DEF one
    <3>. QED  BY <3>6, <3>7
  <2>. HIDE DEF one, B
  <2>. QED  BY <2>2, <2>3, <2>4
<1>2. DOMAIN B.wheres = DOMAIN wheres
  BY SqlOfQuery
<1>3. Range(B.wheres) = {B.wheres[i] : i \in DOMAIN wheres}
  BY <1>2 DEF Range
<1>. HIDE DEF B
<1>. QED  BY <1>1, <1>3 DEF RootWheres, B

(* The logical table.                                                      *)
LogicalRows == {Real(r) : r \in UNION Range(tables)}

(* The sub-selects of the day tables named return the rows of the whole    *)
(* logical table which the route range and the where items of the root     *)
(* pick: pruning loses nothing.                                            *)
LEMMA SubSelects ==
  ASSUME NoMidnightSkipped, tables \in [Days -> SUBSET StoredRows], RowsInTheirDay,
         NEW query \in Queries, QueryCode(query) = "HDB_OK"
  PROVE  RootRows(query) = {Restricted(RootColumns(query), r) : r \in Picked(LogicalRows, query)}
<1>. DEFINE cols == RootColumns(query)
            T == TablesOf(query)
            begin == RouteBegin(query)
            end == RouteEnd(query)
            Filter(x) == /\ Stamp(begin) <= x.time /\ x.time < Stamp(end)
                         /\ \A leaf \in Range(Sql[query].wheres) :
                              leaf.source = 0 => Logical!LeafHolds(leaf, <<x>>)
            scanned == {x \in UNION {tables[T[n]] : n \in DOMAIN T} : Filter(x)}
<1>1. RangeCode(query) = "HDB_OK"
  BY DEF QueryCode
<1>2. /\ begin \in Nat /\ end \in Nat /\ begin \in 0 .. MaxTime /\ end \in 0 .. MaxTime
      /\ Range(T) = {Clock[t].day : t \in begin .. end - 1} /\ Range(T) \subseteq Days
  <2>1. /\ begin \in Nat /\ end \in Nat /\ T \in BoundedSeq(Days, MaxDayTables)
        /\ Range(T) = {Clock[t].day : t \in begin .. end - 1}
    BY AcceptedTables
  <2>2. begin \in Times /\ end \in 1 .. MaxTime
    BY <1>1, RouteRange
  <2>3. begin .. end - 1 \subseteq Times
    BY <2>1, <2>2, ShardAssumption DEF Times
  <2>. QED  BY <2>1, <2>2, <2>3, TimesInClock, ShardAssumption DEF Days
<1>3. ASSUME NEW x \in StoredRows
      PROVE  LET r == Real(x)
             IN /\ IsRow(r) /\ Store(r) = x /\ r.time \in Times /\ r.time = Instant(x.time)
                /\ Filter(x) <=> begin <= r.time /\ r.time < end /\ RootWheres(query, r)
  <2>. DEFINE r == Real(x)
  <2>1. /\ IsRow(r) /\ Store(r) = x /\ r.time \in Times /\ r.time = Instant(x.time)
    BY RealRow
  <2>2. x.time = Stamp(r.time)
    BY <2>1, StoreFields
  <2>3. r.time \in 0 .. MaxTime /\ r.time \in DOMAIN Clock /\ begin \in DOMAIN Clock /\ end \in DOMAIN Clock
    BY <1>2, <2>1, TimesInClock, MomentsInClock
  <2>. HIDE DEF r, begin, end
  <2>4. (Stamp(begin) <= x.time <=> begin <= r.time) /\ (Stamp(end) <= x.time <=> end <= r.time)
    BY <2>2, <2>3, StampOrder
  <2>5. /\ Stamp(end) \in Nat /\ x.time \in Nat /\ end \in Nat /\ r.time \in Nat
    BY <1>2, <2>2, <2>3, Stamps, ShardAssumption
  <2>6. x.time < Stamp(end) <=> r.time < end
    BY <2>4, <2>5
  <2>7. RootWheres(query, r) <=>
          \A leaf \in Range(Sql[query].wheres) : leaf.source = 0 => Logical!LeafHolds(leaf, <<x>>)
    BY <2>1, RootWheresStored
  <2>. QED  BY <2>1, <2>4, <2>6, <2>7 DEF r
<1>4. RootRows(query) = {[column \in cols |-> x[column]] : x \in scanned}
  BY DEF RootRows
<1>. HIDE DEF Filter, begin, end, T, cols
<1>5. ASSUME NEW x \in scanned PROVE \E r \in Picked(LogicalRows, query) : x = Store(r)
  <2>1. PICK n \in DOMAIN T : x \in tables[T[n]]
    OBVIOUS
  <2>2. T[n] \in Days
    BY <1>2 DEF Range
  <2>3. x \in StoredRows /\ x \in UNION Range(tables) /\ Filter(x)
    BY <2>1, <2>2 DEF Range
  <2>4. Real(x) \in LogicalRows
    BY <2>3 DEF LogicalRows
  <2>5. Real(x) \in Picked(LogicalRows, query) /\ x = Store(Real(x))
    BY <1>3, <2>3, <2>4 DEF Picked, begin, end
  <2>. QED  BY <2>5
<1>6. ASSUME NEW r \in Picked(LogicalRows, query) PROVE Store(r) \in scanned
  <2>1. PICK x \in UNION Range(tables) : r = Real(x)
    BY DEF Picked, LogicalRows
  <2>2. PICK day \in Days : x \in tables[day]
    BY DEF Range
  <2>3. x \in StoredRows /\ Clock[Instant(x.time)].day = day
    BY <2>2 DEF RowsInTheirDay
  <2>4. begin <= r.time /\ r.time < end /\ RootWheres(query, r)
    BY DEF Picked, begin, end
  <2>5. Filter(x) /\ r.time \in Times /\ r.time = Instant(x.time) /\ Store(r) = x
    BY <1>3, <2>1, <2>3, <2>4
  <2>6. r.time \in begin .. end - 1
    BY <1>2, <2>4, <2>5 DEF Times
  <2>7. day \in Range(T)
    BY <1>2, <2>3, <2>5, <2>6
  <2>. QED  BY <2>2, <2>5, <2>7 DEF Range
<1>7. ASSUME NEW r PROVE Restricted(cols, r) = [column \in cols |-> Store(r)[column]]
  BY DEF Restricted
<1>. HIDE DEF scanned
<1>8. RootRows(query) = {Restricted(cols, r) : r \in Picked(LogicalRows, query)}
  <2>1. ASSUME NEW y \in RootRows(query)
        PROVE  y \in {Restricted(cols, r) : r \in Picked(LogicalRows, query)}
    BY <1>4, <1>5, <1>7
  <2>2. ASSUME NEW r \in Picked(LogicalRows, query) PROVE Restricted(cols, r) \in RootRows(query)
    BY <1>4, <1>6, <1>7
  <2>. QED  BY <2>1, <2>2
<1>. QED  BY <1>8 DEF cols

-----------------------------------------------------------------------------
(* Pages.                                                                  *)

Pre(S, g, U) == {a \in S : g[a] \in U}

LEMMA PreSize ==
  ASSUME NEW S, NEW T, IsFiniteSet(S), NEW g \in Bijection(S, T), NEW U, U \subseteq T
  PROVE  /\ IsFiniteSet(Pre(S, g, U)) /\ Cardinality(Pre(S, g, U)) = Cardinality(U)
         /\ Pre(S, g, U) \subseteq S
         /\ \A u \in U : \E a \in Pre(S, g, U) : g[a] = u
<1>. DEFINE P == Pre(S, g, U)
            h == [a \in P |-> g[a]]
<1>1. /\ \A a, b \in S : g[a] = g[b] => a = b
      /\ \A t \in T : \E s \in S : g[s] = t
  BY DEF Bijection, Injection, Surjection, IsInjective
<1>2. P \subseteq S /\ (\A a \in P : g[a] \in U) /\ \A u \in U : \E a \in P : g[a] = u
  BY <1>1 DEF Pre
<1>. HIDE DEF P
<1>3. h \in [P -> U]
  BY <1>2
<1>4. h \in Injection(P, U)
  BY <1>1, <1>2, <1>3 DEF Injection, IsInjective
<1>5. h \in Surjection(P, U)
  BY <1>2, <1>3 DEF Surjection
<1>6. ExistsBijection(P, U)
  BY <1>4, <1>5 DEF ExistsBijection, Bijection
<1>7. IsFiniteSet(P)
  BY <1>2, FS_Subset
<1>8. Cardinality(U) = Cardinality(P)
  BY <1>6, <1>7, FS_Bijection
<1>. QED  BY <1>2, <1>7, <1>8 DEF P

(* The operators of the logical table are those of this module.            *)
LEMMA SameOperators ==
  ASSUME NEW S
  PROVE  Logical!Cardinality(S) = Cardinality(S) /\ Logical!Min(S) = Min(S)
BY DEF Logical!Cardinality, Cardinality, Logical!Min, Min

LEMMA SameSubsets ==
  ASSUME NEW S, NEW k
  PROVE  Logical!kSubset(k, S) = {U \in SUBSET S : Cardinality(U) = k}
BY SameOperators DEF Logical!kSubset

(* No row of the rest comes before one of the part.                        *)
Leads(S, part, orders) == \A a \in part, b \in S \ part : ~Logical!Before(b, a, orders)

LEMMA PagesSame ==
  ASSUME NEW S, NEW T, IsFiniteSet(S), NEW g \in Bijection(S, T), NEW query,
         \A a, b \in S : Logical!Before(a, b, query.orders) <=> Logical!Before(g[a], g[b], query.orders),
         NEW page \in Logical!Pages(T, query)
  PROVE  Pre(S, g, page) \in Logical!Pages(S, query)
<1>. DEFINE skipped(X) == Logical!Min({Logical!Cardinality(X), query.offset})
            size(X) == Logical!Min({Logical!Cardinality(X) - skipped(X), Logical!Limit(query)})
            orders == query.orders
<1>1. \A X, p : p \in Logical!Pages(X, query) <=>
        /\ p \in Logical!kSubset(size(X), X)
        /\ \E skip \in Logical!kSubset(skipped(X), X \ p) : Leads(X, skip, orders) /\ Leads(X, skip \cup p, orders)
  <2>1. ASSUME NEW X
        PROVE  Logical!Pages(X, query) =
                 {p \in Logical!kSubset(size(X), X) : \E skip \in Logical!kSubset(skipped(X), X \ p) :
                    Leads(X, skip, orders) /\ Leads(X, skip \cup p, orders)}
    BY DEF Logical!Pages, Leads
  <2>. HIDE DEF size, skipped, orders
  <2>. QED  BY <2>1
<1>2. T \subseteq T /\ Pre(S, g, T) = S
  BY DEF Pre, Bijection, Injection
<1>3. Cardinality(T) = Cardinality(S)
  BY <1>2, PreSize
<1>4. skipped(T) = skipped(S) /\ size(T) = size(S)
  BY <1>3, SameOperators
<1>. HIDE DEF skipped, size, orders
<1>5. PICK skip \in Logical!kSubset(skipped(T), T \ page) :
        Leads(T, skip, orders) /\ Leads(T, skip \cup page, orders)
  BY <1>1
<1>6. /\ page \subseteq T /\ Cardinality(page) = size(T)
      /\ skip \subseteq T \ page /\ skip \subseteq T /\ Cardinality(skip) = skipped(T)
  BY <1>1, <1>5, SameSubsets
<1>7. /\ Cardinality(Pre(S, g, page)) = size(S) /\ Cardinality(Pre(S, g, skip)) = skipped(S)
      /\ Pre(S, g, page) \subseteq S /\ Pre(S, g, skip) \subseteq S
  <2>1. Cardinality(Pre(S, g, page)) = Cardinality(page) /\ Pre(S, g, page) \subseteq S
    BY <1>6, PreSize
  <2>2. Cardinality(Pre(S, g, skip)) = Cardinality(skip) /\ Pre(S, g, skip) \subseteq S
    BY <1>6, PreSize
  <2>. QED  BY <1>4, <1>6, <2>1, <2>2
<1>8. Pre(S, g, skip) \subseteq S \ Pre(S, g, page)
  BY <1>6 DEF Pre
<1>9. Pre(S, g, page) \in Logical!kSubset(size(S), S)
  BY <1>7, SameSubsets
<1>10. Pre(S, g, skip) \in Logical!kSubset(skipped(S), S \ Pre(S, g, page))
  BY <1>7, <1>8, SameSubsets
<1>11. ASSUME NEW part, part \subseteq T, Leads(T, part, orders) PROVE Leads(S, Pre(S, g, part), orders)
  <2>1. ASSUME NEW a \in Pre(S, g, part), NEW b \in S \ Pre(S, g, part)
        PROVE  ~Logical!Before(b, a, orders)
    <3>1. a \in S /\ b \in S /\ g[a] \in part /\ g[b] \in T \ part
      BY DEF Pre, Bijection, Injection
    <3>2. ~Logical!Before(g[b], g[a], orders)
      BY <1>11, <3>1 DEF Leads
    <3>. QED  BY <3>1, <3>2 DEF orders
  <2>. QED  BY <2>1 DEF Leads
<1>12. Pre(S, g, skip \cup page) = Pre(S, g, skip) \cup Pre(S, g, page)
  BY DEF Pre
<1>13. Leads(S, Pre(S, g, skip), orders) /\ Leads(S, Pre(S, g, skip) \cup Pre(S, g, page), orders)
  <2>1. Leads(S, Pre(S, g, skip \cup page), orders)
    <3>1. skip \cup page \subseteq T
      BY <1>6
    <3>. QED  BY <1>5, <1>11, <3>1
  <2>2. Leads(S, Pre(S, g, skip), orders)
    BY <1>5, <1>6, <1>11
  <2>. QED  BY <1>12, <2>1, <2>2
<1>. QED  BY <1>1, <1>9, <1>10, <1>13

-----------------------------------------------------------------------------
(* What a SELECT finds.                                                    *)

Found(query) == {j \in Logical!Joined(LogicalRows, Fixed, query) : Logical!Matches(j, query)}

FoundInSql(query) ==
  {x \in Logical!Joined(RootRows(query), StoredFixed, Sql[query]) : SelectWhere(query, x)}

RowsKept ==
  /\ tables \in [Days -> SUBSET StoredRows]
  /\ RowsInTheirDay /\ KeysDiffer(LogicalRows) /\ IsFiniteSet(LogicalRows)

LEMMA LogicalRowsAreRows ==
  ASSUME tables \in [Days -> SUBSET StoredRows], NEW r \in LogicalRows
  PROVE  IsRow(r)
<1>1. PICK x \in UNION Range(tables) : r = Real(x)
  BY DEF LogicalRows
<1>2. x \in StoredRows
  BY DEF Range
<1>. QED  BY <1>1, <1>2, RealRow

LEMMA SelectAccepted ==
  ASSUME NEW query, SelectCode(query) = "HDB_OK"
  PROVE  /\ query.selects # {} /\ SourcesCode(query) = "HDB_OK" /\ QueryCode(query) = "HDB_OK"
         /\ JoinOn!JoinsAccepted(query) /\ RangeCode(query) = "HDB_OK"
BY RefusedJoin DEF SelectCode, QueryCode

LEMMA FoundSame ==
  ASSUME NoMidnightSkipped, RowsKept, NEW query \in Queries, SelectCode(query) = "HDB_OK"
  PROVE  LET g == [j \in Found(query) |-> Stored(RootColumns(query), j)]
         IN /\ IsFiniteSet(Found(query))
            /\ g \in Bijection(Found(query), FoundInSql(query))
            /\ \A j \in Found(query) :
                 JoinedRow(Len(query.sources), j) /\ g[j] = Stored(RootColumns(query), j)
<1>. DEFINE cols == RootColumns(query)
            N == Len(query.sources)
            S == Found(query)
            T == FoundInSql(query)
            g == [j \in S |-> Stored(cols, j)]
            picked == Picked(LogicalRows, query)
            A == Logical!Joined(LogicalRows, Fixed, query)
            B == Logical!Joined(RootRows(query), StoredFixed, Sql[query])
<1>1. /\ query.selects # {} /\ SourcesCode(query) = "HDB_OK" /\ QueryCode(query) = "HDB_OK"
      /\ JoinOn!JoinsAccepted(query) /\ RangeCode(query) = "HDB_OK"
  BY SelectAccepted
<1>2. N \in Nat \ {0}
  BY QuerySizes
<1>3. JoinedAs(N, cols, LogicalRows, picked, A, B)
  <2>1. RootRows(query) = {Restricted(cols, r) : r \in picked}
    BY <1>1, SubSelects DEF RowsKept
  <2>2. \A r \in LogicalRows : IsRow(r)
    BY LogicalRowsAreRows DEF RowsKept
  <2>3. picked \subseteq LogicalRows
    BY DEF Picked
  <2>. HIDE DEF picked
  <2>. QED  BY <1>1, <2>1, <2>2, <2>3, JoinedStored
<1>4. IsFiniteSet(S)
  <2>1. IsFiniteSet(A)
    BY <1>1, JoinedFinite DEF RowsKept
  <2>2. S \subseteq A
    BY DEF Found
  <2>. HIDE DEF A, S
  <2>. QED  BY <2>1, <2>2, FS_Subset
<1>5. /\ S = {j \in A : Logical!Matches(j, query)}
      /\ T = {x \in B : SelectWhere(query, x)}
  BY DEF Found, FoundInSql
<1>. HIDE DEF A, B, S, T
<1>6. ASSUME NEW j \in A
      PROVE  /\ JoinedRow(N, j) /\ j[1] \in LogicalRows
             /\ Logical!Matches(j, query) <=> j[1] \in picked /\ SelectWhere(query, Stored(cols, j))
  <2>1. JoinedRow(N, j) /\ j[1] \in LogicalRows
    BY <1>3 DEF JoinedAs
  <2>. QED  BY <1>1, <2>1, MatchSame
<1>7. ASSUME NEW j \in S PROVE Stored(cols, j) \in T /\ JoinedRow(N, j) /\ j[1] \in LogicalRows
  <2>1. j \in A /\ Logical!Matches(j, query)
    BY <1>5
  <2>2. j[1] \in picked /\ SelectWhere(query, Stored(cols, j))
    BY <1>6, <2>1
  <2>. HIDE DEF cols, picked
  <2>3. Stored(cols, j) \in B
    BY <1>3, <2>1, <2>2 DEF JoinedAs, StoredAs, From
  <2>. QED  BY <1>5, <1>6, <2>1, <2>2, <2>3
<1>8. ASSUME NEW t \in T PROVE \E j \in S : Stored(cols, j) = t
  <2>. HIDE DEF cols, picked
  <2>1. t \in B /\ SelectWhere(query, t)
    BY <1>5
  <2>2. PICK j \in From(A, picked) : t = Stored(cols, j)
    BY <1>3, <2>1 DEF JoinedAs, StoredAs
  <2>3. j \in A /\ j[1] \in picked
    BY DEF From
  <2>4. Logical!Matches(j, query)
    BY <1>6, <2>1, <2>2, <2>3 DEF cols, picked
  <2>. QED  BY <1>5, <2>2, <2>3, <2>4
<1>9. ASSUME NEW j \in S, NEW k \in S, Stored(cols, j) = Stored(cols, k) PROVE j = k
  <2>1. JoinedRow(N, j) /\ j[1] \in LogicalRows /\ JoinedRow(N, k) /\ k[1] \in LogicalRows
    BY <1>7
  <2>2. KeysDiffer(LogicalRows)
    BY DEF RowsKept
  <2>. HIDE DEF N
  <2>. QED  BY <1>1, <1>2, <1>9, <2>1, <2>2, StoredDiffer
<1>. HIDE DEF cols
<1>10. g \in [S -> T]
  BY <1>7
<1>11. g \in Injection(S, T)
  BY <1>9, <1>10 DEF Injection, IsInjective
<1>12. g \in Surjection(S, T)
  BY <1>8, <1>10 DEF Surjection
<1>13. /\ IsFiniteSet(S) /\ g \in Bijection(S, T)
       /\ \A j \in S : JoinedRow(N, j) /\ g[j] = Stored(cols, j)
  BY <1>4, <1>7, <1>11, <1>12 DEF Bijection
<1>. QED  BY <1>13 DEF S, T, cols

(* Any page of the statement is a page of the query.                       *)
LEMMA PageSame ==
  ASSUME NoMidnightSkipped, RowsKept, NEW query \in Queries, SelectCode(query) = "HDB_OK",
         NEW page \in Logical!Pages(FoundInSql(query), query)
  PROVE  \E p \in Logical!Pages(Found(query), query) :
           {Normalized(x, query) : x \in page} = {Logical!Output(j, query) : j \in p}
<1>. DEFINE cols == RootColumns(query)
            N == Len(query.sources)
            S == Found(query)
            T == FoundInSql(query)
            g == [j \in S |-> Stored(cols, j)]
            p == Pre(S, g, page)
<1>1. /\ IsFiniteSet(S) /\ g \in Bijection(S, T)
      /\ \A j \in S : JoinedRow(N, j) /\ g[j] = Stored(cols, j)
  BY FoundSame
<1>2. page \subseteq T
  BY SameSubsets DEF Logical!Pages
<1>3. ASSUME NEW j \in S, NEW k \in S
      PROVE  Logical!Before(j, k, query.orders) <=> Logical!Before(g[j], g[k], query.orders)
  <2>1. JoinedRow(N, j) /\ JoinedRow(N, k) /\ g[j] = Stored(cols, j) /\ g[k] = Stored(cols, k)
    BY <1>1
  <2>. HIDE DEF g
  <2>. QED  BY <2>1, OrderSame
<1>4. ASSUME NEW j \in S PROVE Normalized(g[j], query) = Logical!Output(j, query)
  <2>1. JoinedRow(N, j) /\ g[j] = Stored(cols, j)
    BY <1>1
  <2>. HIDE DEF g
  <2>. QED  BY <2>1, OutputSame
<1>. HIDE DEF g, S, T
<1>5. p \in Logical!Pages(S, query)
  BY <1>1, <1>3, PagesSame DEF T
<1>6. p \subseteq S /\ (\A j \in p : g[j] \in page) /\ \A x \in page : \E j \in p : g[j] = x
  <2>1. Pre(S, g, page) \subseteq S /\ \A x \in page : \E j \in Pre(S, g, page) : g[j] = x
    BY <1>1, <1>2, PreSize
  <2>2. \A j \in Pre(S, g, page) : g[j] \in page
    BY DEF Pre
  <2>. QED  BY <2>1, <2>2
<1>. HIDE DEF p
<1>7. {Normalized(x, query) : x \in page} = {Logical!Output(j, query) : j \in p}
  <2>1. ASSUME NEW x \in page PROVE \E j \in p : Normalized(x, query) = Logical!Output(j, query)
    BY <1>4, <1>6
  <2>2. ASSUME NEW j \in p PROVE \E x \in page : Normalized(x, query) = Logical!Output(j, query)
    BY <1>4, <1>6
  <2>. QED  BY <2>1, <2>2
<1>. QED  BY <1>5, <1>7 DEF S

-----------------------------------------------------------------------------
(* What an UPDATE or DELETE hits.                                          *)

LEMMA OneSource ==
  ASSUME NEW query \in Queries, Len(query.sources) = 1, NEW r, IsRow(r), NEW c, IsLeaf(query, c)
  PROVE  CoversLeaf(<<r>>, FieldNames, c)
<1>. DEFINE one == <<r>>
<1>1. JoinedRow(1, one)
  BY JoinedOne
<1>2. /\ c.source \in 0 .. 1 - 1 /\ c.field \in FieldNames
      /\ c.type = "FIELD_COMPARE" => c.right \in 0 .. 1 - 1 /\ c.rightField \in FieldNames
  BY DEF IsLeaf, IsField
<1>. HIDE DEF one
<1>3. Covers(one, FieldNames, c.source, c.field)
  BY <1>1, <1>2, RowCovers
<1>4. c.type = "FIELD_COMPARE" => Covers(one, FieldNames, c.right, c.rightField)
  BY <1>1, <1>2, RowCovers
<1>. QED  BY <1>3, <1>4 DEF CoversLeaf, one

(* The condition of the statement, over one stored row.                    *)
HitBySql(query, x) ==
  /\ query.time # <<>> => Stamp(query.time[1]) <= x.time /\ x.time < Stamp(query.time[2])
  /\ Logical!WheresHold(Sql[query], <<x>>)
  /\ Logical!TreeHolds(Sql[query], query.root, <<x>>)

LEMMA HitMatches ==
  ASSUME NEW query \in Queries, Len(query.sources) = 1, NEW x \in StoredRows
  PROVE  HitBySql(query, x) <=> Logical!Matches(<<Real(x)>>, query)
<1>. DEFINE r == Real(x)
            one == <<r>>
<1>1. IsRow(r) /\ Store(r) = x /\ r.time \in Times
  BY RealRow
<1>2. x.time = Stamp(r.time) /\ r.time \in DOMAIN Clock /\ r.time \in Nat /\ x.time \in Nat
  <2>1. x.time = Stamp(r.time)
    BY <1>1, StoreFields
  <2>. QED  BY <1>1, <2>1, Stamps, TimesInClock, ShardAssumption DEF Times
<1>. HIDE DEF r
<1>3. one[1] = r /\ Stored(FieldNames, one) = <<x>>
  BY <1>1, StoredOne
<1>4. query.time # <<>> =>
        (Stamp(query.time[1]) <= x.time /\ x.time < Stamp(query.time[2])
           <=> query.time[1] <= r.time /\ r.time < query.time[2])
  <2>1. SUFFICES ASSUME query.time # <<>>
                 PROVE  Stamp(query.time[1]) <= x.time /\ x.time < Stamp(query.time[2])
                          <=> query.time[1] <= r.time /\ r.time < query.time[2]
    OBVIOUS
  <2>. DEFINE b == query.time[1]
              e == query.time[2]
  <2>2. b \in 0 .. MaxTime /\ e \in 0 .. MaxTime
    BY <2>1, QueryAssumption DEF IsQuery
  <2>3. b \in DOMAIN Clock /\ e \in DOMAIN Clock /\ Stamp(e) \in Nat /\ b \in Int /\ e \in Int
    BY <2>2, MomentsInClock
  <2>. HIDE DEF b, e
  <2>4. (Stamp(b) <= x.time <=> b <= r.time) /\ (Stamp(e) <= x.time <=> e <= r.time)
    BY <1>2, <2>3, StampOrder
  <2>5. x.time < Stamp(e) <=> r.time < e
    BY <1>2, <2>3, <2>4
  <2>. QED  BY <2>4, <2>5 DEF b, e
<1>5. Logical!WheresHold(Sql[query], <<x>>) <=> Logical!WheresHold(query, one)
  <2>1. ASSUME NEW i \in DOMAIN query.wheres
        PROVE  Logical!LeafHolds(query.wheres[i], one) <=> Logical!LeafHolds(Sql[query].wheres[i], <<x>>)
    <3>1. IsLeaf(query, query.wheres[i])
      BY QueryAssumption DEF IsQuery
    <3>2. CoversLeaf(one, FieldNames, query.wheres[i])
      BY <1>1, <3>1, OneSource
    <3>3. FieldNames \subseteq FieldNames
      OBVIOUS
    <3>. HIDE DEF one
    <3>4. Logical!LeafHolds(query.wheres[i], one)
            <=> Logical!LeafHolds(Sql[query].wheres[i], Stored(FieldNames, one))
      BY <3>2, <3>3, WhereStored
    <3>. QED  BY <1>3, <3>4
  <2>2. DOMAIN Sql[query].wheres = DOMAIN query.wheres
    BY SqlOfQuery
  <2>. DEFINE B == Sql[query]
              two == <<x>>
  <2>. HIDE DEF one, B, two
  <2>3. Logical!WheresHold(B, two) <=> Logical!WheresHold(query, one)
    BY <2>1, <2>2 DEF Logical!WheresHold, B, two
  <2>. QED  BY <2>3 DEF B, two
<1>6. Logical!TreeHolds(Sql[query], query.root, <<x>>) <=> Logical!TreeHolds(query, query.root, one)
  <2>. DEFINE root == query.root
  <2>1. root \in -1 .. Len(query.conditions) - 1 /\ IsQuery(query) /\ Len(query.conditions) \in Nat
    BY QuerySizes
  <2>2. ASSUME root # -1, NEW id \in JoinOn!Leaves(query, root)
        PROVE  CoversLeaf(one, FieldNames, query.conditions[id + 1])
    <3>1. root \in 0 .. Len(query.conditions) - 1
      BY <2>1, <2>2
    <3>2. IsLeaf(query, query.conditions[id + 1])
      <4>. HIDE DEF root
      <4>. QED  BY <2>1, <2>2, <3>1, QueryLeaves
    <3>. QED  BY <1>1, <3>2, OneSource
  <2>3. FieldNames \subseteq FieldNames
    OBVIOUS
  <2>. HIDE DEF root, one
  <2>4. Logical!TreeHolds(query, root, one) <=> Logical!TreeHolds(Sql[query], root, Stored(FieldNames, one))
    BY <2>1, <2>2, <2>3, TreeStored
  <2>. QED  BY <1>3, <2>4 DEF root
<1>7. Logical!Matches(one, query) <=>
        /\ query.time # <<>> => query.time[1] <= r.time /\ r.time < query.time[2]
        /\ Logical!WheresHold(query, one) /\ Logical!TreeHolds(query, query.root, one)
  <2>. HIDE DEF one
  <2>. QED  BY <1>3 DEF Logical!Matches
<1>. HIDE DEF one
<1>8. HitBySql(query, x) <=> Logical!Matches(one, query)
  BY <1>4, <1>5, <1>6, <1>7 DEF HitBySql
<1>. QED  BY <1>8 DEF one, r

LEMMA DmlAccepted ==
  ASSUME NEW query, DmlCode(query) = "HDB_OK"
  PROVE  /\ Len(query.sources) = 1 /\ QueryCode(query) = "HDB_OK" /\ RangeCode(query) = "HDB_OK"
         /\ Len(TablesOf(query)) = 1
BY DEF DmlCode, QueryCode

LEMMA RealDiffer ==
  ASSUME NEW x \in StoredRows, NEW y \in StoredRows, Real(x) = Real(y)
  PROVE  x = y
BY RealRow

(* The one day table an accepted UPDATE or DELETE names.                   *)
LEMMA OneTable ==
  ASSUME NoMidnightSkipped, NEW query \in Queries, DmlCode(query) = "HDB_OK"
  PROVE  /\ TablesOf(query)[1] \in Days
         /\ {Clock[t].day : t \in RouteBegin(query) .. RouteEnd(query) - 1} = {TablesOf(query)[1]}
<1>. DEFINE T == TablesOf(query)
<1>1. QueryCode(query) = "HDB_OK" /\ Len(T) = 1
  BY DmlAccepted
<1>2. Range(T) = {Clock[t].day : t \in RouteBegin(query) .. RouteEnd(query) - 1}
  BY <1>1, AcceptedTables
<1>3. DOMAIN T = 1 .. 1
  BY <1>1, TablesSequence
<1>4. RouteBegin(query) \in Times /\ RouteEnd(query) \in 1 .. MaxTime
  BY <1>1, RouteRange DEF QueryCode
<1>. HIDE DEF T
<1>5. Range(T) = {T[1]}
  BY <1>3 DEF Range
<1>6. {Clock[t].day : t \in RouteBegin(query) .. RouteEnd(query) - 1} \subseteq Days
  <2>1. RouteBegin(query) .. RouteEnd(query) - 1 \subseteq Times
    BY <1>4, ShardAssumption DEF Times
  <2>. QED  BY <2>1 DEF Days
<1>. QED  BY <1>2, <1>5, <1>6 DEF T

(* A statement that passes hits the rows the query describes, and all of   *)
(* them lie in the one table it names.                                     *)
LEMMA HitSame ==
  ASSUME NoMidnightSkipped, RowsKept, NEW query \in Queries, DmlCode(query) = "HDB_OK"
  PROVE  /\ Hit(query) \subseteq tables[TablesOf(query)[1]]
         /\ TablesOf(query)[1] \in Days
         /\ Logical!Matching(query) = {Real(x) : x \in Hit(query)}
<1>. DEFINE day == TablesOf(query)[1]
<1>1. /\ Len(query.sources) = 1 /\ RangeCode(query) = "HDB_OK"
  BY DmlAccepted
<1>2. /\ day \in Days
      /\ {Clock[t].day : t \in RouteBegin(query) .. RouteEnd(query) - 1} = {day}
  BY OneTable
<1>3. tables[day] \subseteq StoredRows /\ tables[day] \subseteq UNION Range(tables)
  BY <1>2 DEF RowsKept, Range
<1>4. Hit(query) = {x \in tables[day] : HitBySql(query, x)}
  BY DEF Hit, DmlRows, HitBySql
<1>5. Logical!Matching(query) = {r \in LogicalRows : Logical!Matches(<<r>>, query)}
  BY DEF Logical!Matching, LogicalRows, Real
<1>6. ASSUME NEW x \in Hit(query) PROVE Real(x) \in Logical!Matching(query)
  <2>1. x \in StoredRows /\ HitBySql(query, x) /\ Real(x) \in LogicalRows
    BY <1>3, <1>4 DEF LogicalRows
  <2>2. Logical!Matches(<<Real(x)>>, query)
    BY <1>1, <2>1, HitMatches
  <2>. QED  BY <1>5, <2>1, <2>2
<1>7. ASSUME NEW r \in Logical!Matching(query) PROVE \E x \in Hit(query) : r = Real(x)
  <2>1. r \in LogicalRows /\ Logical!Matches(<<r>>, query)
    BY <1>5
  <2>2. PICK x \in UNION Range(tables) : r = Real(x)
    BY <2>1 DEF LogicalRows
  <2>3. PICK d \in Days : x \in tables[d]
    BY DEF RowsKept, Range
  <2>4. x \in StoredRows /\ Clock[Instant(x.time)].day = d
    BY <2>3 DEF RowsKept, RowsInTheirDay
  <2>5. IsRow(r) /\ r.time \in Times /\ r.time = Instant(x.time)
    BY <2>2, <2>4, RealRow
  <2>6. RouteBegin(query) <= r.time /\ r.time < RouteEnd(query)
    <3>. DEFINE one == <<r>>
    <3>1. 1 \in DOMAIN one /\ one[1] = r
      OBVIOUS
    <3>. HIDE DEF one
    <3>2. /\ query.time # <<>> => query.time[1] <= one[1].time /\ one[1].time < query.time[2]
          /\ Logical!WheresHold(query, one) /\ Logical!TreeHolds(query, query.root, one)
      BY <2>1 DEF Logical!Matches, one
    <3>3. RouteBegin(query) <= one[1].time /\ one[1].time < RouteEnd(query)
      BY <1>1, <2>5, <3>1, <3>2, MatchesInRange DEF Logical!WheresHold
    <3>. QED  BY <3>1, <3>3
  <2>7. d = day
    <3>1. RouteBegin(query) \in Times /\ RouteEnd(query) \in 1 .. MaxTime
      BY <1>1, RouteRange
    <3>2. r.time \in RouteBegin(query) .. RouteEnd(query) - 1
      BY <2>5, <2>6, <3>1, ShardAssumption DEF Times
    <3>. HIDE DEF day
    <3>. QED  BY <1>2, <2>4, <2>5, <3>2
  <2>8. HitBySql(query, x)
    BY <1>1, <2>1, <2>2, <2>4, HitMatches
  <2>. QED  BY <1>4, <2>2, <2>3, <2>7, <2>8
<1>. QED  BY <1>2, <1>4, <1>6, <1>7

LEMMA HitCount ==
  ASSUME NoMidnightSkipped, RowsKept, NEW query \in Queries, DmlCode(query) = "HDB_OK"
  PROVE  Logical!Cardinality(Logical!Matching(query)) = Cardinality(Hit(query))
<1>. DEFINE H == Hit(query)
            M == Logical!Matching(query)
            h == [x \in H |-> Real(x)]
<1>1. H \subseteq tables[TablesOf(query)[1]] /\ TablesOf(query)[1] \in Days /\ M = {Real(x) : x \in H}
  BY HitSame
<1>2. H \subseteq StoredRows
  BY <1>1 DEF RowsKept
<1>3. M \subseteq LogicalRows
  BY DEF Logical!Matching, LogicalRows, Real
<1>4. IsFiniteSet(M)
  <2>. HIDE DEF M
  <2>. QED  BY <1>3, FS_Subset DEF RowsKept
<1>. HIDE DEF H, M
<1>5. h \in [H -> M]
  BY <1>1
<1>6. h \in Injection(H, M)
  BY <1>2, <1>5, RealDiffer DEF Injection, IsInjective
<1>7. h \in Surjection(H, M)
  BY <1>1, <1>5 DEF Surjection
<1>8. Cardinality(H) = Cardinality(M)
  BY <1>4, <1>6, <1>7, FS_Injection
<1>. QED  BY <1>8, SameOperators DEF H, M

-----------------------------------------------------------------------------
(* What a statement makes of the rows.                                     *)

Replaces(day, hit, new) ==
  hit \subseteq tables[day] /\ tables' = [tables EXCEPT ![day] = (@ \ hit) \cup new]

LEMMA RowsReplaced ==
  ASSUME tables \in [Days -> SUBSET StoredRows], RowsInTheirDay, NEW day \in Days,
         NEW hit, NEW new, Replaces(day, hit, new)
  PROVE  UNION Range(tables') = ((UNION Range(tables)) \ hit) \cup new
<1>1. /\ DOMAIN tables = Days /\ DOMAIN tables' = Days
      /\ tables'[day] = (tables[day] \ hit) \cup new
      /\ \A d \in Days \ {day} : tables'[d] = tables[d]
  BY DEF Replaces
<1>2. \A d \in Days \ {day} : \A r \in tables[d] : r \notin hit
  BY DEF RowsInTheirDay, Replaces
<1>3. \A r : r \in UNION Range(tables) <=> \E d \in Days : r \in tables[d]
  BY <1>1 DEF Range
<1>4. \A r : r \in UNION Range(tables') <=> \E d \in Days : r \in tables'[d]
  BY <1>1 DEF Range
<1>5. ASSUME NEW r
      PROVE  r \in UNION Range(tables') <=> (r \in UNION Range(tables) /\ r \notin hit) \/ r \in new
  <2>1. CASE \E d \in Days \ {day} : r \in tables[d]
    BY <1>1, <1>2, <1>3, <1>4, <2>1
  <2>2. CASE ~\E d \in Days \ {day} : r \in tables[d]
    <3>1. r \in UNION Range(tables) <=> r \in tables[day]
      BY <1>3, <2>2
    <3>2. r \in UNION Range(tables') <=> r \in tables'[day]
      BY <1>1, <1>4, <2>2
    <3>. QED  BY <1>1, <3>1, <3>2
  <2>. QED  BY <2>1, <2>2
<1>. DEFINE before == UNION Range(tables)
            after  == UNION Range(tables')
<1>6. \A r : r \in after <=> (r \in before /\ r \notin hit) \/ r \in new
  BY <1>5
<1>. HIDE DEF before, after
<1>7. after = (before \ hit) \cup new
  BY <1>6
<1>. QED  BY <1>7 DEF before, after

LEMMA LogicalReplaced ==
  ASSUME tables \in [Days -> SUBSET StoredRows], RowsInTheirDay, NEW day \in Days,
         NEW hit, NEW new, Replaces(day, hit, new)
  PROVE  LogicalRows' = (LogicalRows \ {Real(x) : x \in hit}) \cup {Real(x) : x \in new}
<1>1. UNION Range(tables') = ((UNION Range(tables)) \ hit) \cup new
  BY RowsReplaced
<1>2. LogicalRows' = {Real(x) : x \in UNION Range(tables')}
  BY DEF LogicalRows, Real
<1>3. UNION Range(tables) \subseteq StoredRows /\ hit \subseteq UNION Range(tables)
  BY DEF Range, Replaces
<1>4. \A x \in UNION Range(tables), y \in hit : Real(x) = Real(y) => x = y
  BY <1>3, RealDiffer
<1>. QED  BY <1>1, <1>2, <1>3, <1>4 DEF LogicalRows

-----------------------------------------------------------------------------
(* The day tables implement the logical table.  The inductive invariant    *)
(* says besides RowsInv that a key is stored once, which an INSERT needs to *)
(* know of the request it works on.                                        *)

Pending ==
  /\ statement = Logical!Nothing => answer = Logical!Nothing
  /\ statement # Logical!Nothing /\ answer = Logical!Nothing /\ statement.kind = "insert" =>
       \A r \in LogicalRows : r.key # statement.row.key

TableInv ==
  /\ RowsInv
  /\ KeysDiffer(LogicalRows) /\ IsFiniteSet(LogicalRows)
  /\ Pending

LEMMA TableKept ==
  ASSUME ~RouteUpdatable, TableInv
  PROVE  RowsKept /\ tables \in [Days -> SUBSET StoredRows] /\ RowsInTheirDay
BY DEF TableInv, RowsInv, TablesOK, RowsKept

(* A refused statement.                                                    *)
LEMMA FailsRefined ==
  ASSUME NEW code, Fails(code)
  PROVE  Logical!Refuse /\ LogicalRows' = LogicalRows /\ answer' # Logical!Nothing
<1>1. answer' = [kind |-> "failed", code |-> code] /\ tables' = tables
  BY DEF Fails
<1>2. answer'.kind = "failed"
  BY <1>1
<1>3. answer' # Logical!Nothing
  BY <1>2 DEF Logical!Nothing
<1>4. LogicalRows' = LogicalRows
  BY <1>1 DEF LogicalRows, Real
<1>. QED  BY <1>1, <1>2, <1>3, <1>4 DEF Logical!Refuse

LEMMA InsertRefined ==
  ASSUME ~RouteUpdatable, TableInv, statement # Logical!Nothing, answer = Logical!Nothing, Insert
  PROVE  /\ Logical!Insert \/ Logical!Refuse
         /\ (KeysDiffer(LogicalRows) /\ IsFiniteSet(LogicalRows))'
         /\ answer' # Logical!Nothing
<1>1. CASE InsertCode # "HDB_OK" /\ Fails(InsertCode)
  <2>1. Logical!Refuse /\ LogicalRows' = LogicalRows /\ answer' # Logical!Nothing
    BY <1>1, FailsRefined
  <2>. QED  BY <2>1 DEF TableInv, KeysDiffer
<1>2. CASE InsertCode = "HDB_OK"
  <2>. DEFINE row == statement.row
              new == [key |-> row.key, level |-> row.level, time |-> Stamp(row.time)]
              day == DayTable(row.time)
  <2>1. statement.kind = "insert"
    BY <1>2 DEF InsertCode, Insert
  <2>2. statement \in Logical!Statements
    BY DEF TableInv, RowsInv, TablesOK
  <2>3. row \in [key : Keys, level : Levels, time : RowTimes]
    BY <2>1, <2>2 DEF Logical!Statements, Logical!Row
  <2>4. /\ tables' = [tables EXCEPT ![day] = @ \cup {new}]
        /\ answer' = [kind |-> "affected", count |-> 1]
    BY <1>2 DEF Insert, Fails
  <2>. HIDE DEF row
  <2>5. row.time \in Times /\ row.time \in DOMAIN Clock
    BY <2>3, ShardAssumption, TimesInClock
  <2>6. day \in Days
    BY <2>5 DEF Days, DayTable
  <2>7. Real(new) = row
    <3>1. Real(new) = [key |-> row.key, level |-> row.level, time |-> Instant(Stamp(row.time))]
      BY DEF Real
    <3>2. Instant(Stamp(row.time)) = row.time
      BY <2>5, InstantOfStamp
    <3>3. row = [key |-> row.key, level |-> row.level, time |-> row.time]
      BY <2>3
    <3>. QED  BY <3>1, <3>2, <3>3
  <2>8. LogicalRows' = LogicalRows \cup {row}
    <3>. HIDE DEF new, day
    <3>1. Replaces(day, {}, {new})
      BY <2>4 DEF Replaces
    <3>2. LogicalRows' = (LogicalRows \ {Real(x) : x \in {}}) \cup {Real(x) : x \in {new}}
      <4>1. tables \in [Days -> SUBSET StoredRows] /\ RowsInTheirDay
        BY TableKept
      <4>. QED  BY <2>6, <3>1, <4>1, LogicalReplaced
    <3>. QED  BY <2>7, <3>2
  <2>9. Logical!Insert
    BY <2>1, <2>4, <2>8 DEF Logical!Insert, LogicalRows, Real, row
  <2>10. KeysDiffer(LogicalRows)'
    <3>1. \A r \in LogicalRows : r.key # row.key
      BY <2>1 DEF TableInv, Pending, row
    <3>2. \A r, s \in LogicalRows \cup {row} : r.key = s.key => r = s
      BY <3>1 DEF TableInv, KeysDiffer
    <3>. QED  BY <2>8, <3>2 DEF KeysDiffer
  <2>11. IsFiniteSet(LogicalRows)'
    BY <2>8, FS_AddElement DEF TableInv
  <2>12. answer' # Logical!Nothing
    <3>1. answer'.kind = "affected"
      BY <2>4
    <3>. QED  BY <3>1 DEF Logical!Nothing
  <2>. QED  BY <2>9, <2>10, <2>11, <2>12
<1>. QED  BY <1>1, <1>2 DEF Insert

LEMMA SelectRefined ==
  ASSUME NoMidnightSkipped, ~RouteUpdatable, TableInv, statement \in Logical!Statements,
         statement.kind = "select", Select(statement.query)
  PROVE  /\ Logical!Select \/ Logical!Refuse
         /\ (KeysDiffer(LogicalRows) /\ IsFiniteSet(LogicalRows))'
         /\ answer' # Logical!Nothing
<1>. DEFINE query == statement.query
<1>1. CASE SelectCode(query) # "HDB_OK" /\ Fails(SelectCode(query))
  <2>1. Logical!Refuse /\ LogicalRows' = LogicalRows /\ answer' # Logical!Nothing
    BY <1>1, FailsRefined
  <2>. QED  BY <2>1 DEF TableInv, KeysDiffer
<1>2. CASE SelectCode(query) = "HDB_OK"
  <2>1. query \in Queries
    BY DEF Logical!Statements
  <2>2. PICK page \in Logical!Pages(FoundInSql(query), query) :
          answer' = [kind |-> "rows", found |-> {Normalized(x, query) : x \in page}]
    BY <1>2 DEF Select, Fails, FoundInSql
  <2>3. tables' = tables
    BY <1>2 DEF Select, Fails
  <2>. HIDE DEF query
  <2>4. PICK p \in Logical!Pages(Found(query), query) :
          {Normalized(x, query) : x \in page} = {Logical!Output(j, query) : j \in p}
    BY <1>2, <2>1, PageSame, TableKept
  <2>5. LogicalRows' = LogicalRows
    BY <2>3 DEF LogicalRows, Real
  <2>6. answer' = [kind |-> "rows", found |-> {Logical!Output(j, query) : j \in p}]
    BY <2>2, <2>4
  <2>7. answer'.kind = "rows"
    BY <2>2
  <2>8. Logical!Select
    <3>1. \E q \in Logical!Pages(Found(query), query) :
            answer' = [kind |-> "rows", found |-> {Logical!Output(j, query) : j \in q}]
      BY <2>6
    <3>. QED  BY <2>3, <2>7, <3>1 DEF Logical!Select, Found, LogicalRows, Real, query
  <2>. QED  BY <2>5, <2>7, <2>8 DEF TableInv, KeysDiffer, Logical!Nothing
<1>. QED  BY <1>1, <1>2 DEF Select

(* The rows a passing UPDATE or DELETE leaves.                             *)
LEMMA ChangesRefined ==
  ASSUME NoMidnightSkipped, ~RouteUpdatable, TableInv, NEW query \in Queries,
         DmlCode(query) = "HDB_OK", NEW rows, Changes(query, rows)
  PROVE  /\ LogicalRows' = (LogicalRows \ Logical!Matching(query)) \cup {Real(x) : x \in rows}
         /\ answer' = [kind |-> "affected",
                       count |-> Logical!Cardinality(Logical!Matching(query))]
         /\ Logical!Matching(query) = {Real(x) : x \in Hit(query)}
         /\ Logical!Matching(query) \subseteq LogicalRows
         /\ Hit(query) \subseteq StoredRows
         /\ answer' # Logical!Nothing
<1>. DEFINE day == TablesOf(query)[1]
            H == Hit(query)
            M == Logical!Matching(query)
<1>1. RowsKept /\ tables \in [Days -> SUBSET StoredRows] /\ RowsInTheirDay
  BY TableKept
<1>2. H \subseteq tables[day] /\ day \in Days /\ M = {Real(x) : x \in H}
  BY <1>1, HitSame
<1>3. /\ tables' = [tables EXCEPT ![day] = (@ \ H) \cup rows]
      /\ answer' = [kind |-> "affected", count |-> Cardinality(H)]
  BY DEF Changes
<1>4. Logical!Cardinality(M) = Cardinality(H)
  BY <1>1, HitCount
<1>5. H \subseteq StoredRows
  BY <1>1, <1>2
<1>6. M \subseteq LogicalRows
  BY DEF Logical!Matching, LogicalRows, Real
<1>. HIDE DEF day, H, M
<1>7. LogicalRows' = (LogicalRows \ {Real(x) : x \in H}) \cup {Real(x) : x \in rows}
  <2>1. Replaces(day, H, rows)
    BY <1>2, <1>3 DEF Replaces
  <2>. QED  BY <1>1, <1>2, <2>1, LogicalReplaced
<1>8. answer'.kind = "affected"
  BY <1>3
<1>. QED  BY <1>2, <1>3, <1>4, <1>5, <1>6, <1>7, <1>8 DEF H, M, Logical!Nothing

LEMMA DeleteRefined ==
  ASSUME NoMidnightSkipped, ~RouteUpdatable, TableInv, statement \in Logical!Statements,
         statement.kind = "delete", Delete(statement.query)
  PROVE  /\ Logical!Delete \/ Logical!Refuse
         /\ (KeysDiffer(LogicalRows) /\ IsFiniteSet(LogicalRows))'
         /\ answer' # Logical!Nothing
<1>. DEFINE query == statement.query
<1>1. CASE DmlCode(query) # "HDB_OK" /\ Fails(DmlCode(query))
  <2>1. Logical!Refuse /\ LogicalRows' = LogicalRows /\ answer' # Logical!Nothing
    BY <1>1, FailsRefined
  <2>. QED  BY <2>1 DEF TableInv, KeysDiffer
<1>2. CASE DmlCode(query) = "HDB_OK" /\ Changes(query, {})
  <2>. DEFINE M == Logical!Matching(query)
  <2>1. query \in Queries
    BY DEF Logical!Statements
  <2>. HIDE DEF query
  <2>2. /\ LogicalRows' = (LogicalRows \ M) \cup {Real(x) : x \in {}}
        /\ answer' = [kind |-> "affected", count |-> Logical!Cardinality(M)]
        /\ answer' # Logical!Nothing
    BY <1>2, <2>1, ChangesRefined
  <2>3. LogicalRows' = LogicalRows \ M
    <3>. HIDE DEF M
    <3>. QED  BY <2>2
  <2>4. answer'.kind = "affected"
    BY <2>2
  <2>5. Logical!Delete
    BY <2>2, <2>3, <2>4 DEF Logical!Delete, LogicalRows, Real, query
  <2>. HIDE DEF M
  <2>6. KeysDiffer(LogicalRows)'
    BY <2>3 DEF TableInv, KeysDiffer
  <2>7. IsFiniteSet(LogicalRows)'
    BY <2>3, FS_Difference DEF TableInv
  <2>. QED  BY <2>2, <2>5, <2>6, <2>7
<1>. QED  BY <1>1, <1>2 DEF Delete

(* Without HDB_FIELD_UPDATE on the route field a passing UPDATE sets the   *)
(* level.                                                                  *)
LEMMA UpdateRefined ==
  ASSUME NoMidnightSkipped, ~RouteUpdatable, TableInv, statement \in Logical!Statements,
         statement.kind = "update", Update(statement.query, statement.set)
  PROVE  /\ Logical!Update \/ Logical!Refuse
         /\ (KeysDiffer(LogicalRows) /\ IsFiniteSet(LogicalRows))'
         /\ answer' # Logical!Nothing
<1>. DEFINE query == statement.query
            set == statement.set
<1>1. CASE UpdateCode(query, set) # "HDB_OK" /\ Fails(UpdateCode(query, set))
  <2>1. Logical!Refuse /\ LogicalRows' = LogicalRows /\ answer' # Logical!Nothing
    BY <1>1, FailsRefined
  <2>. QED  BY <2>1 DEF TableInv, KeysDiffer
<1>2. CASE UpdateCode(query, set) = "HDB_OK" /\ Changes(query, {Assigned(x, set) : x \in Hit(query)})
  <2>. DEFINE H == Hit(query)
              M == Logical!Matching(query)
              new == {Assigned(x, set) : x \in H}
              changed == {Logical!Assigned(r, set) : r \in M}
              f == [r \in M |-> Logical!Assigned(r, set)]
  <2>1. query \in Queries
    BY DEF Logical!Statements
  <2>2. DmlCode(query) = "HDB_OK" /\ set.field # "time"
    BY <1>2 DEF UpdateCode
  <2>. HIDE DEF query, set
  <2>3. /\ LogicalRows' = (LogicalRows \ M) \cup {Real(y) : y \in new}
        /\ answer' = [kind |-> "affected", count |-> Logical!Cardinality(M)]
        /\ M = {Real(x) : x \in H} /\ M \subseteq LogicalRows /\ H \subseteq StoredRows
        /\ answer' # Logical!Nothing
    BY <1>2, <2>1, <2>2, ChangesRefined
  <2>4. ASSUME NEW x \in StoredRows PROVE Real(Assigned(x, set)) = Logical!Assigned(Real(x), set)
    BY <2>2 DEF Real, Assigned, Logical!Assigned, StoredRows
  <2>5. ASSUME NEW x \in StoredRows PROVE Logical!Assigned(Real(x), set).key = Real(x).key
    BY <2>2 DEF Real, Logical!Assigned, StoredRows
  <2>. HIDE DEF H, M
  <2>6. {Real(y) : y \in new} = changed
    BY <2>3, <2>4
  <2>7. \A r \in M : Logical!Assigned(r, set).key = r.key
    BY <2>3, <2>5
  <2>8. LogicalRows' = (LogicalRows \ M) \cup changed
    <3>. HIDE DEF new, changed
    <3>. QED  BY <2>3, <2>6
  <2>9. answer'.kind = "affected"
    BY <2>3
  <2>10. Logical!Update
    BY <2>3, <2>8, <2>9 DEF Logical!Update, LogicalRows, Real, query, set, M
  <2>11. KeysDiffer(LogicalRows)'
    <3>1. ASSUME NEW r \in (LogicalRows \ M) \cup changed
          PROVE  \/ r \in LogicalRows \ M
                 \/ \E o \in M : r = Logical!Assigned(o, set) /\ r.key = o.key
      BY <2>7
    <3>2. \A r, s \in LogicalRows : r.key = s.key => r = s
      BY DEF TableInv, KeysDiffer
    <3>. HIDE DEF changed
    <3>3. ASSUME NEW r \in LogicalRows', NEW s \in LogicalRows', r.key = s.key PROVE r = s
      <4>1. r \in (LogicalRows \ M) \cup changed /\ s \in (LogicalRows \ M) \cup changed
        BY <2>8
      <4>2. CASE r \in LogicalRows \ M /\ s \in LogicalRows \ M
        BY <3>2, <3>3, <4>2
      <4>3. CASE r \notin LogicalRows \ M
        BY <2>3, <3>1, <3>2, <3>3, <4>1, <4>3
      <4>4. CASE s \notin LogicalRows \ M
        BY <2>3, <3>1, <3>2, <3>3, <4>1, <4>4
      <4>. QED  BY <4>2, <4>3, <4>4
    <3>. QED  BY <3>3 DEF KeysDiffer
  <2>12. IsFiniteSet(LogicalRows)'
    <3>1. DOMAIN f = M /\ f = [r \in M |-> f[r]] /\ changed = {f[r] : r \in M}
      OBVIOUS
    <3>2. IsFiniteSet(M) /\ IsFiniteSet(LogicalRows \ M)
      BY <2>3, FS_Subset, FS_Difference DEF TableInv
    <3>. HIDE DEF f, changed
    <3>3. IsFiniteSet(changed)
      BY <3>1, <3>2, FiniteRange
    <3>. QED  BY <2>8, <3>2, <3>3, FS_Union
  <2>. QED  BY <2>3, <2>10, <2>11, <2>12
<1>. QED  BY <1>1, <1>2 DEF Update

LEMMA TableInitially == Init => Logical!Init /\ TableInv
<1>. SUFFICES ASSUME Init PROVE Logical!Init /\ TableInv
  OBVIOUS
<1>1. RowsInv
  BY RowsInitially
<1>2. UNION Range(tables) = {}
  BY DEF Init, Range
<1>3. LogicalRows = {}
  BY <1>2 DEF LogicalRows
<1>4. KeysDiffer(LogicalRows) /\ IsFiniteSet(LogicalRows)
  BY <1>3, FS_EmptySet DEF KeysDiffer
<1>5. Logical!Init
  BY <1>3 DEF Init, Logical!Init, LogicalRows, Real
<1>. QED  BY <1>1, <1>4, <1>5 DEF Init, TableInv, Pending

LEMMA ExecuteRefined ==
  ASSUME NoMidnightSkipped, ~RouteUpdatable, TableInv, Execute
  PROVE  /\ Logical!Execute
         /\ (KeysDiffer(LogicalRows) /\ IsFiniteSet(LogicalRows) /\ Pending)'
<1>1. /\ statement # Logical!Nothing /\ answer = Logical!Nothing /\ statement' = statement
      /\ statement \in Logical!Statements
  BY DEF Execute, TableInv, RowsInv, TablesOK
<1>2. /\ Logical!Insert \/ Logical!Select \/ Logical!Update \/ Logical!Delete \/ Logical!Refuse
      /\ (KeysDiffer(LogicalRows) /\ IsFiniteSet(LogicalRows))'
      /\ answer' # Logical!Nothing
  <2>1. CASE Insert
    BY <1>1, <2>1, InsertRefined
  <2>2. CASE statement.kind = "select" /\ Select(statement.query)
    BY <1>1, <2>2, SelectRefined
  <2>3. CASE statement.kind = "update" /\ Update(statement.query, statement.set)
    BY <1>1, <2>3, UpdateRefined
  <2>4. CASE statement.kind = "delete" /\ Delete(statement.query)
    BY <1>1, <2>4, DeleteRefined
  <2>. QED  BY <2>1, <2>2, <2>3, <2>4 DEF Execute
<1>3. Logical!Execute
  BY <1>1, <1>2 DEF Logical!Execute
<1>4. Pending'
  BY <1>1, <1>2 DEF Pending
<1>. QED  BY <1>2, <1>3, <1>4

LEMMA ReturnRefined ==
  ASSUME TableInv, Return
  PROVE  /\ Logical!Return
         /\ (KeysDiffer(LogicalRows) /\ IsFiniteSet(LogicalRows) /\ Pending)'
<1>1. tables' = tables /\ statement' = Logical!Nothing /\ answer' = Logical!Nothing /\ answer # Logical!Nothing
  BY DEF Return
<1>2. LogicalRows' = LogicalRows
  BY <1>1 DEF LogicalRows, Real
<1>. QED  BY <1>1, <1>2 DEF TableInv, KeysDiffer, Pending, Logical!Return

LEMMA SendRefined ==
  ASSUME TableInv, NEW s \in Logical!Statements, Send(s)
  PROVE  /\ Logical!Send(s)
         /\ (KeysDiffer(LogicalRows) /\ IsFiniteSet(LogicalRows) /\ Pending)'
<1>1. /\ tables' = tables /\ answer' = answer /\ statement = Logical!Nothing /\ statement' = s
      /\ s.kind = "insert" => \A r \in UNION Range(tables) : r.key # s.row.key
  BY DEF Send
<1>2. LogicalRows' = LogicalRows
  BY <1>1 DEF LogicalRows, Real
<1>3. answer = Logical!Nothing
  BY <1>1 DEF TableInv, Pending
<1>4. s.kind = "insert" => \A r \in LogicalRows : r.key # s.row.key
  <2>1. ASSUME NEW x \in UNION Range(tables) PROVE Real(x).key = x.key
    <3>1. x \in StoredRows
      BY DEF TableInv, RowsInv, TablesOK, Range
    <3>. QED  BY <3>1, RealRow
  <2>. QED  BY <1>1, <2>1 DEF LogicalRows
<1>5. Pending'
  BY <1>1, <1>2, <1>3, <1>4 DEF Pending
<1>. QED  BY <1>1, <1>2, <1>5 DEF TableInv, KeysDiffer, Logical!Send

logical == <<{[r EXCEPT !.time = Instant(@)] : r \in UNION Range(tables)}, statement, answer>>

LEMMA TableStep ==
  ASSUME NoMidnightSkipped, ~RouteUpdatable, TableInv, [Next]_vars
  PROVE  TableInv' /\ [Logical!Next]_logical
<1>1. RowsInv'
  BY RowsStep DEF TableInv
<1>2. CASE Execute
  <2>1. Logical!Execute /\ (KeysDiffer(LogicalRows) /\ IsFiniteSet(LogicalRows) /\ Pending)'
    BY <1>2, ExecuteRefined
  <2>. QED  BY <1>1, <2>1 DEF TableInv, Logical!Next
<1>3. CASE Return
  <2>1. Logical!Return /\ (KeysDiffer(LogicalRows) /\ IsFiniteSet(LogicalRows) /\ Pending)'
    BY <1>3, ReturnRefined
  <2>. QED  BY <1>1, <2>1 DEF TableInv, Logical!Next
<1>4. ASSUME NEW s \in Logical!Statements, Send(s) PROVE TableInv' /\ [Logical!Next]_logical
  <2>1. Logical!Send(s) /\ (KeysDiffer(LogicalRows) /\ IsFiniteSet(LogicalRows) /\ Pending)'
    BY <1>4, SendRefined
  <2>. QED  BY <1>1, <2>1 DEF TableInv, Logical!Next
<1>5. CASE UNCHANGED vars
  <2>1. tables' = tables /\ statement' = statement /\ answer' = answer
    BY <1>5 DEF vars
  <2>2. LogicalRows' = LogicalRows
    BY <2>1 DEF LogicalRows, Real
  <2>3. logical' = logical
    BY <2>1 DEF logical
  <2>. QED  BY <1>1, <2>1, <2>2, <2>3 DEF TableInv, KeysDiffer, Pending
<1>. QED  BY <1>2, <1>3, <1>4, <1>5 DEF Next

(* Where no midnight is skipped and the route field is not updatable, the  *)
(* day tables together behave as one table, whatever the calendar, the     *)
(* queries, the joined tables and the limits: pruning by the route range,  *)
(* push-down of conditions below the joins, stamps for instants, the rule  *)
(* of one table for UPDATE and DELETE and refusals are invisible in the    *)
(* answers.                                                                *)
THEOREM DayTablesAreOneTable ==
  ASSUME NoMidnightSkipped, ~RouteUpdatable
  PROVE  Spec => ImplementsLogicalTable
<1>1. Init => Logical!Init /\ TableInv
  BY TableInitially
<1>2. TableInv /\ [Next]_vars => TableInv' /\ [Logical!Next]_logical
  BY TableStep
<1>. QED  BY <1>1, <1>2, PTL DEF Spec, ImplementsLogicalTable, Logical!Spec, logical

=============================================================================
