CONSTANTS
  Quote = "quote"
  Tab = "tab"
  Others = {"x"}
  MaxLine = 6
  MaxFields = 3
  MaxChars = 2
SPECIFICATION Spec
INVARIANTS
  TypeOK
  PlainSplit
  RoundTrip
PROPERTY Terminates
