SPECIFICATION Spec
CONSTANTS
  Images <- MCImages
  MaxWrite = 9
INVARIANT LinesGood
INVARIANT AllLines
INVARIANT RowsShownInTime
INVARIANT NothingNeededDiscarded
