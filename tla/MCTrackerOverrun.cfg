CONSTANTS
    Len <- MCLen1
    Counts <- MCCounts
    Beyond <- BeyondAny
SPECIFICATION Spec
INVARIANT ScanStaysInBitmap
