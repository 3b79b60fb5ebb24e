SPECIFICATION ParserSpec
CONSTANTS
  Files <- AllFiles
  Tags <- GroupTags
  RangeOffset = 10
INVARIANT ParseIsExact
CHECK_DEADLOCK FALSE
