SPECIFICATION Spec
CONSTANTS
  DAY = 8
  WEEK = 7
  r1 = r1
  r2 = r2
  h0 = h0
  h1 = h1
  h2 = h2
  s1 = s1
  s2 = s2
  s3 = s3
  Resources = {r1, r2}
  Business = business
  Everyone = everyone
  Replacements = {h0, h1, h2, s1, s2, s3}
  rowsOf <- RowsOf
  ownerOf <- OwnerOf
  Original = {h0, s1, s2}
  Zones <- TwoZones
  Rules <- TwoRules
  BlockRequests <- TwoBlocks
  Dates = {1, 2}
  Duration = 2
  Now = 10
  MaxEdits = 2
CHECK_DEADLOCK FALSE
INVARIANTS
  ReplacedWhole
  OfferedIsOpen
  OfferedIsFree
  OfferedIsBookable
