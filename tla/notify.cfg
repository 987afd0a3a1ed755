SPECIFICATION Spec
CONSTANTS
  policy1 = policy1
  policy2 = policy2
  Policies <- TwoPolicies
  Sends <- MostEvents
  MaxNotifyFaults = 1
  MaxDeletions = 1
INVARIANTS  SentWasPosted
PROPERTY OCMMovesOn
SYMMETRY PolicySymmetry
CHECK_DEADLOCK FALSE
