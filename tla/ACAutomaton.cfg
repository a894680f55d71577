SPECIFICATION ACSpec
CONSTANTS
  Alphabet = {a, b}
  Star = star
  Null = null
  MaxWords = 3
  MaxWordLen = 3
  MaxTextLen = 5
SYMMETRY Symmetry
INVARIANTS
  ACTypeOK
  FailIsLongestSuffix
  MasksExactlyTheWords
