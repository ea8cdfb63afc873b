\* Two operations, two attempts each, one limiter that the responses resize.
CONSTANTS
  c1 = c1
  c2 = c2
  Calls <- TwoCalls
  MaxAttempts = 2
  DefaultBurst = 1
  Advertised <- Bursts
SPECIFICATION FairSpec
INVARIANTS TransportTypeOK NoOvertaking NoSpuriousFailure
PROPERTIES EveryCallReturns ImplementsRemoteCall
CHECK_DEADLOCK FALSE
