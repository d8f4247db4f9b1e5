SPECIFICATION Spec
CONSTANTS
  N = 5
  Resource <- MCResource
  page_size = 2
INVARIANTS
  QuietListingExact
  GrowthDefers
  ShrinkageRepeatsNothing
PROPERTIES
  ListingEnds
CHECK_DEADLOCK FALSE
