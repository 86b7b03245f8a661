SPECIFICATION HtmlSpec
CONSTANTS
  Pieces <- TestPages
  MaxPieces = 1
INVARIANTS
  SavedPagesRoundTrip
\* A page read back is the end.
CHECK_DEADLOCK FALSE
