\* One builder, three datasets of which up to three are joined, and a C
\* caller's ON condition.
SPECIFICATION Spec
CONSTANTS
  Datasets = {alarm, device, point}
  MaxSources = 3
  MaxItems <- TwoOfEach
  MaxConditions = 4
  MaxLimit = 1
  Times = {1, 2}
  Wheres <- FewWheres
  Ons <- FewOns
  OnCandidates <- ManyOns
  OnLeaves <- CLeaves
  CallBound = 7
  NodeBound = 5
INVARIANTS
  TypeOK
  SentAsAsked
  NoUnfilteredWrite
  JoinsRelate
  BuilderAgreesWithServer
SYMMETRY DatasetNames
CHECK_DEADLOCK FALSE
