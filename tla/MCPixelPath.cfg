CONSTANTS
    Pictures <- TestPictures
    Conversions <- TestConversions
SPECIFICATION Spec
INVARIANT RowsRoundTrip
INVARIANT ThumbnailLands
INVARIANT ChromaSeamless
INVARIANT ConvertedWhole
INVARIANT BackAgain
CHECK_DEADLOCK FALSE
