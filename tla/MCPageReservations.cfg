SPECIFICATION Spec
CONSTANTS
  MaxPageChars = 20
  MinPageChars = 4
  MarginTokens = 2
  ImageTokens = 3
  MinUsable = 6
  GuidanceTokens = 1
  OverheadTokens = 2
  RefusalTokens = 1
  ErrorTokens = 1
  FooterChars = 2
  FrameSizes = {0, 8}
  Policies <- SamplePolicies
  TextSizes = {1, 7, 40}
  HeaderSizes = {1, 3}
  ImageCounts = {0, 3}
  Usages = {0, 3, 7}
  OtherResults = {1, 4}
  MaxCalls = 3
  MaxUsage = 12
INVARIANTS TypeOK ChargedExactly
PROPERTIES StaysWithinLine LeavesHalfFree RefusedOnlyWhenFull
