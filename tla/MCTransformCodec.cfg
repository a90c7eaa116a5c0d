SPECIFICATION Spec
CONSTANT Images <- MCImages
CHECK_DEADLOCK FALSE
INVARIANT RoundTrip
INVARIANT AllRowsShown
INVARIANT CodedOnce
INVARIANT TilesApart
