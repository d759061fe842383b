CONSTANTS
  Lifts = {lift1, lift2}
  Sessions = {s1, s2, s3}
  Free = Free
  Unseen = Unseen
  TTL = 2
SPECIFICATION FairSpec
INVARIANT TypeOK
INVARIANT ClaimAgreesWithView
PROPERTY ClaimLostByRight
PROPERTY ImplementsSessionClaim
PROPERTY UnrefreshedClaimLapses
