\* A root and one JOIN, lists of one item, two conditions, one more of each
\* than the codec takes.
SPECIFICATION Spec
CONSTANTS
  Statements = {"SELECT", "DELETE"}
  Datasets = {alarm, point}
  Kinds = {"select"}
  MaxSources = 2
  MaxItems <- OneOfEach
  MaxConditions = 2
  MaxLimit = 0
  Times = {1, 2}
  AstBound = 3
INVARIANTS
  TypeOK
  AstWellFormed
  NamesKeepMeaning
  WireFaithful
SYMMETRY DatasetNames
CHECK_DEADLOCK FALSE
