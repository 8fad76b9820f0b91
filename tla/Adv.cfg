SPECIFICATION FairSpec
CONSTANTS
  TH1 = TH1
  Channels = {TH1}
  Temps <- MCTemps
  RawMvMs <- MCRawMvMs
  RawStMs <- MCRawStMs
  Policies = {"FIXED", "ADAPTIVE"}
  SafeModes = {TRUE, FALSE}
  QuietMs = 3000
  DtX100 = 50
INVARIANTS TypeOK StationaryTempBand IntervalAgreement
PROPERTIES StationaryAfterQuiet IntervalIsApplied
