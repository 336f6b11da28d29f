---------------------------- MODULE MCHdbDslContext ----------------------------
(* Model values for HdbDslContext.                                         *)
EXTENDS HdbDslContext

TwoOfEach == [kind \in Kinds |-> 2]

Pairs == {<<d, e>> \in Datasets \X Datasets : d # e}

(* One node, and three, of which the codec does not take two rounds.       *)
FewWheres ==
  {Leaf(Value(d)) : d \in Datasets}
  \cup {Connect("OR", Leaf(Value(d)), Leaf(Value(d))) : d \in Datasets}

(* An anchor and more, an anchor in both branches, one without.            *)
FewOns ==
  {Leaf(Compare(p[1], p[2])) : p \in Pairs}
  \cup {Connect("OR", Leaf(Compare(p[1], p[2])), Leaf(Value(p[1]))) : p \in Pairs}

SomeLeaves == {Value(d) : d \in Datasets} \cup {Compare(p[1], p[2]) : p \in Pairs}

(* One or two leaves, and three under an AND of an OR or an OR of an AND.  *)
ManyOns ==
  LET one == {Leaf(l) : l \in SomeLeaves \cup {InRange(d) : d \in Datasets}}
      two == {Connect(l, a, b) : l \in {"AND", "OR"}, a, b \in one}
      three == {Connect(l, Connect(k, Leaf(a), Leaf(b)), Leaf(c)) :
                  l, k \in {"AND", "OR"}, a, b, c \in SomeLeaves}
  IN one \cup two \cup three

CLeaves ==
  LET leaf(type, source, right) == [type |-> type, source |-> source, right |-> right]
  IN {leaf("VALUE", 1, -1), leaf("FIELD_COMPARE", 0, 1), leaf("FIELD_COMPARE", 2, 1),
      leaf("FIELD_COMPARE", 0, 0), leaf("RANGE", 0, -1)}

DatasetNames == Permutations(Datasets)

=============================================================================
