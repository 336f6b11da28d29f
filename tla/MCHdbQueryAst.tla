----------------------------- MODULE MCHdbQueryAst -----------------------------
(* Model values for HdbQueryAst.                                           *)
EXTENDS HdbQueryAst, TLC

OneOfEach == [kind \in Kinds |-> 1]

DatasetNames == Permutations(Datasets)

=============================================================================
