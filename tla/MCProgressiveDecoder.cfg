SPECIFICATION Spec
CONSTANTS
  Images <- MCImages
  MaxWrite = 3
INVARIANT LinesGood
INVARIANT FullQuality
INVARIANT RefinedInTime
PROPERTY QualityGrows
