SPECIFICATION Spec
CONSTANTS
  k1 = k1
  k2 = k2
  k3 = k3
  s1 = s1
  s2 = s2
  Calls = {k1, k2}
  Sessions = {s1}
  SessionOf <- OneSession
  CommandOf <- SameCommand
  Serial = FALSE
  SeqSpace = 2
  FrameParts = 1
  Backlog = 1
  MaxFaults = 0
  NoCall = NoCall
  NoFrame = NoFrame
INVARIANTS
  SequenceNeverZero
