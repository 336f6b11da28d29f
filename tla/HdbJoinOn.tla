------------------------------- MODULE HdbJoinOn -------------------------------
(***************************************************************************)
(* Which ON conditions CHdbQuerySqlBuilder takes for a JOIN.  The server   *)
(* unfolds the condition tree into its OR branches and wants every branch  *)
(* to compare a field of the joined source with one of an earlier source   *)
(* (an anchor).  A query is a record with sources and conditions as in     *)
(* HdbQueryAst; a group has a logic besides its children, and a leaf is a  *)
(* VALUE comparison, a FIELD_COMPARE or a RANGE (NULL, BETWEEN, IN).       *)
(*                                                                         *)
(* Field types are not modelled: the fields of a FIELD_COMPARE agree, so    *)
(* HDB_ERR_TYPE_MISMATCH is not among the codes.                           *)
(***************************************************************************)
EXTENDS Integers, Sequences, SequencesExt

Leaves(A, root) ==
  LET below[id \in 0 .. root] ==
        LET c == A.conditions[id + 1]
        IN IF c.type = "GROUP" THEN UNION {below[c.children[j]] : j \in DOMAIN c.children}
           ELSE {id}
  IN below[root]

-----------------------------------------------------------------------------
(* The algorithm.                                                          *)

FieldAllowed(A, source, target) ==
  source + 1 \in DOMAIN A.sources /\ source <= target

IsAnchor(c, target) ==
  \/ c.source = target /\ c.right < target
  \/ c.right = target /\ c.source < target

(* Mutant: the branches of an AND are listed like those of an OR.          *)
MergeAppends(left, right) == left \o right

(* One entry per OR branch of a node: whether it is anchored.  No entry    *)
(* stands for a node that is refused.                                      *)
Merge(left, right) ==
  FlattenSeq([i \in DOMAIN left |-> [j \in DOMAIN right |-> left[i] \/ right[j]]])

(* The children of an AND, merged in turn.                                 *)
MergeAll(child) ==
  LET merged[j \in 1 .. Len(child)] ==
        IF j = 1 THEN child[1] ELSE Merge(merged[j - 1], child[j])
  IN merged[Len(child)]

(* The branches of a group, from those of its children.                    *)
GroupBranches(logic, child) ==
  IF \E j \in DOMAIN child : child[j] = <<>> THEN <<>>
  ELSE IF logic = "OR" THEN FlattenSeq(child) ELSE MergeAll(child)

LeafAnchors(A, c, target) ==
  CASE c.type = "VALUE" /\ FieldAllowed(A, c.source, target) -> <<FALSE>>
    [] /\ c.type = "FIELD_COMPARE"
       /\ FieldAllowed(A, c.source, target)
       /\ FieldAllowed(A, c.right, target)                   -> <<IsAnchor(c, target)>>
    [] OTHER                                                 -> <<>>

BranchAnchors(A, target, root) ==
  LET anchors[id \in 0 .. root] ==
        LET c     == A.conditions[id + 1]
            child == [j \in DOMAIN c.children |-> anchors[c.children[j]]]
        IN IF c.type # "GROUP" THEN LeafAnchors(A, c, target)
           ELSE IF Len(c.children) < 2 THEN <<>> ELSE GroupBranches(c.logic, child)
  IN anchors[root]

ValidateJoinOnCondition(A, target, root) ==
  LET branches == BranchAnchors(A, target, root)
  IN branches # <<>> /\ \A i \in DOMAIN branches : branches[i]

(* The code of a refused condition: the walk over its nodes ends at the    *)
(* first one that is refused, branches without an anchor are only seen     *)
(* after it.                                                               *)
LeafCode(A, c, target) ==
  IF LeafAnchors(A, c, target) # <<>> THEN "HDB_OK"
  ELSE IF c.type \in {"VALUE", "FIELD_COMPARE"} THEN "HDB_ERR_FIELD_REF"
  ELSE "HDB_ERR_QUERY_RANGE"

JoinOnRefusal(A, target, root) ==
  LET code[id \in 0 .. root] ==
        LET c       == A.conditions[id + 1]
            refused == {j \in DOMAIN c.children : code[c.children[j]] # "HDB_OK"}
        IN IF c.type # "GROUP" THEN LeafCode(A, c, target)
           ELSE IF Len(c.children) < 2 THEN "HDB_ERR_QUERY_RANGE"
           ELSE IF refused = {} THEN "HDB_OK" ELSE code[c.children[Min(refused)]]
  IN IF code[root] = "HDB_ERR_FIELD_REF" THEN "HDB_ERR_FIELD_REF" ELSE "HDB_ERR_QUERY_RANGE"

(* The joins of a whole query: ResolveSources and BuildJoins.              *)
JoinsAccepted(A) ==
  \A i \in DOMAIN A.sources :
    A.sources[i].type = "JOIN" =>
      /\ A.sources[i].parent \in 0 .. A.sources[i].id - 1
      /\ A.sources[i].on + 1 \in DOMAIN A.conditions
      /\ ValidateJoinOnCondition(A, A.sources[i].id, A.sources[i].on)

-----------------------------------------------------------------------------
(* What the rule is for, said without branches: the leaves are comparisons *)
(* of sources joined by then, and no row pair can satisfy the condition    *)
(* unless one of its comparisons relates the joined source to an earlier   *)
(* one.  A row pair is the set of the leaves that are true for it.         *)

Satisfies(A, root, true) ==
  LET holds[id \in 0 .. root] ==
        LET c == A.conditions[id + 1]
        IN IF c.type # "GROUP" THEN id \in true
           ELSE IF c.logic = "AND" THEN \A j \in DOMAIN c.children : holds[c.children[j]]
           ELSE \E j \in DOMAIN c.children : holds[c.children[j]]
  IN holds[root]

Relates(A, target, root) ==
  LET leaves  == Leaves(A, root)
      anchors == {id \in leaves : A.conditions[id + 1].type = "FIELD_COMPARE"
                                  /\ IsAnchor(A.conditions[id + 1], target)}
  IN /\ \A id \in leaves :
          LET c == A.conditions[id + 1]
          IN /\ c.type \in {"VALUE", "FIELD_COMPARE"}
             /\ c.source <= target /\ c.right <= target
     /\ \A true \in SUBSET leaves : Satisfies(A, root, true) => true \cap anchors # {}

=============================================================================
