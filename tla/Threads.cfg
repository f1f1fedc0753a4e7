\* The threads of the process and the locks they share.
SPECIFICATION FairSpec
CONSTANTS
  Nobody = Nobody
  MaxActivations = 3
INVARIANTS TypeOK NoLostWakeup NoCircularWait
PROPERTIES EveryActivationIsRead ProcessEnds ImplementsWakeContract
