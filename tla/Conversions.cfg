\* Bodies of up to 5 bytes in reads of 1 to 3, messages of 3 units with up to 4
\* annotations, 3 if some are mentions without a pill, or 2 of whatever kind, and
\* trees of up to 5 nodes.  It ends when the body is used up, the HTML is made or
\* the tree is full.
SPECIFICATION Spec
CONSTANTS
  Bytes = {"0", "2", "lf", "a", "E", "F", "C"}
  MaxFed = 5
  MaxPiece = 3
  MaxInt = 9
  TextLength = 3
  Starts = {0, 1, 2}
  Lengths = {0, 1, 2, 3}
  Kinds = {"tag", "hidden", "mention", "named", "unknown", "plain", "chip"}
  MaxAnnotations = 4
  MaxMixed = 2
  MaxNamed = 3
  TreeKinds = {"format", "code", "pre", "quote", "ol", "ul", "li", "pill", "br"}
  MaxNodes = 5
  MaxAny = 3
INVARIANTS
  FramesOfTheBody
  TextRenderedOnce
  MarkupKept
  AnnotationsFollowTheTree
CHECK_DEADLOCK FALSE
