CONSTANTS
    Len <- MCLen1
    Counts <- MCCounts
    Beyond <- BeyondSet
SPECIFICATION Spec
INVARIANT TypeOK
INVARIANT ScanIsFirstFit
INVARIANT RunsMatchBitmap
