SPECIFICATION FairSpec
CONSTANTS
  k1 = k1
  k2 = k2
  k3 = k3
  s1 = s1
  s2 = s2
  Calls = {k1, k2}
  Sessions = {s1}
  SessionOf <- OneSession
  CommandOf <- MixedCommands
  Serial = FALSE
  SeqSpace = 3
  FrameParts = 2
  Backlog = 1
  MaxFaults = 1
  NoCall = NoCall
  NoFrame = NoFrame
PROPERTIES
  ImplementsCall
  CallReturns
  ConnectionDrained
