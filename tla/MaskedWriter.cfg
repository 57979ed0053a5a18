CONSTANTS
  Chars = {"a", "b", "n"}
  Newline = "n"
  Secrets <- MCSecrets
  MaxChunk = 2
  MaxLen = 5
SPECIFICATION Spec
INVARIANTS NoSecretShown ChunksDoNotMatter LinesComplete
CHECK_DEADLOCK FALSE
