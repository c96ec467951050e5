CONSTANTS
  Words <- MCWords
  Number <- MCNumber
  NoNumber = NoNumber
  Readable <- MCReadable
  SizeModulus = 32
  VoteModulus = 8
  MaxReserve = 20
  DefaultTop = 2
  DefaultVotes = 3
  MaxArgs = 4
  Contents <- MCContents
  NoFile = NoFile
  Blank = Blank
  NaN = NaN
  Float <- MCFloat
  Unset = Unset
SPECIFICATION CommandSpec
INVARIANTS
  CommandTypeOK
  ExitCodes
  TableAnswers
PROPERTIES
  CliSpec
  ProgramEnds
