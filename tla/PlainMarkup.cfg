\* A link that is rendered as its text, across a format: the format is lost.
SPECIFICATION Spec
CONSTANTS
  Bytes = {"a"}
  MaxFed = 1
  MaxPiece = 1
  MaxInt = 9
  TextLength = 4
  Starts = {0, 1, 3}
  Lengths = {1, 2, 3}
  Kinds = {"plain", "tag"}
  MaxAnnotations = 4
  MaxMixed = 4
  MaxNamed = 0
  TreeKinds = {}
  MaxNodes = 0
  MaxAny = 0
INVARIANT PlainIsHarmless
CHECK_DEADLOCK FALSE
