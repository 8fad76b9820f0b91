SPECIFICATION FairSpec
CONSTANTS
  Addrs = {1, 2, 3}
  Want <- MCWant
  FailLimit = 2
  RetryAfter = 4
  Cycles = {1, 3}
  Raws <- MCRaws
INVARIANTS OneChannelPerPart OwnPartUnlessMissing ReadingIsMeasured
PROPERTIES BackoffSparesTheBus ChannelRecovers
