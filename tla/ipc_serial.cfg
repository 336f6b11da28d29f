SPECIFICATION Spec
CONSTANTS
  k1 = k1
  k2 = k2
  k3 = k3
  s1 = s1
  s2 = s2
  Calls = {k1, k2, k3}
  Sessions = {s1, s2}
  SessionOf <- TwoSessions
  CommandOf <- SameCommand
  Serial = TRUE
  SeqSpace = 2
  FrameParts = 2
  Backlog = 1
  MaxFaults = 1
  NoCall = NoCall
  NoFrame = NoFrame
INVARIANTS
  TypeOK
  AtMostOnce
  OutcomeHonest
  OwnResponse
  ConnectionsAccounted
  ErrorTextIsOwn
PROPERTIES
  AnsweredIsSettled
