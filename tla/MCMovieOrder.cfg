CONSTANTS
  Ratings <- MCRatings
  Votes <- MCTwo
  Years <- MCTwo
  Titles <- MCTwo
  Keys <- MCTwo
  NaN = NaN
SPECIFICATION OrderSpec
INVARIANTS
  StrictTotalOrder
  DocumentedOrder
