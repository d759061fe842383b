CONSTANTS
  Ttl = 2
  Jitter = 1
  Slack = 1
  MaxTokens = 3
  MaxCalls = 2
  RetryLimits <- SmallRetryLimits
SPECIFICATION FairSpec
INVARIANT TypeOK
INVARIANT RetryCarriesNewToken
PROPERTY HandsOutLiveTokens
PROPERTY ImplementsRemoteCall
PROPERTY CallReturns
