SPECIFICATION TRSpec
CONSTANTS
  cidr = cidr
  tag = tag
  attr = attr
  text = text
  blanks = blanks
  paddedAttr = paddedAttr
  paddedText = paddedText
  printed = printed
  object = object
  Empty = Empty
  Nil = Nil
  Yes = Yes
  No = No
  Null = Null
  Nothing = Nothing
  Strings <- MCStrings
  CIDRs <- MCCIDRs
  Tags <- MCTags
  Attributes <- MCAttributes
  Objects <- MCObjects
  Lists <- MCLists
  Sprint <- MCSprint
  Trim <- MCTrim
  Calls <- MCCalls
INVARIANTS
  LeftOutNotSent
