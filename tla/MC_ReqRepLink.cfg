SPECIFICATION FairLinkSpec
CONSTANTS
  c1 = c1
  c2 = c2
  s1 = s1
  s2 = s2
  s3 = s3
  NoCall = NoCall
  NoRequest = NoRequest
  Calls <- TwoCalls
  Sockets <- ThreeSockets
  Faults <- EveryFault
INVARIANTS LinkTypeOK RefusedOnlyAfterClosed NoneLeftInMidCycle
PROPERTIES ImplementsRemoteCall CallReturns Recovers
