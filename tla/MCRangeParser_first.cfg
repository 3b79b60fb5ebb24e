SPECIFICATION ParserSpec
CONSTANTS
  Files <- AllFiles
  Tags <- GroupTags
  RangeOffset = 10
INVARIANT EveryRangeExtracted
CHECK_DEADLOCK FALSE
