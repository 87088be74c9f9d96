\* Two mails, and the faults the queue forgives.  Behaviours end when both
\* mails are dealt with.
SPECIFICATION Spec
CONSTANTS
  Mails = {m1, m2}
  MaxStalls = 1
  MaxCrashes = 1
  MaxDbErrors = 2
  MaxLostAcks = 1
INVARIANTS
  SentWasAccepted
  CopiesNeedFaults
  ReturnedIsCovered
PROPERTIES
  ReturnedIsSettled
CHECK_DEADLOCK FALSE
