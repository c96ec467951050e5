CONSTANTS
  Files <- MCFiles
  NoFile = NoFile
  Blank = Blank
  Calls <- MCCalls
  NaN = NaN
  Float <- MCFloat
  VoteModulus = 8
  Unset = Unset
SPECIFICATION Spec
INVARIANTS
  TypeOK
  StatsMatchPrefix
  ReportsMatchStats
  CountsWholeFile
PROPERTIES
  StatsWrittenAtEnd
  StreamSpec
