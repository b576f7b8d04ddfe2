------------------------------ MODULE MCTracker -----------------------------
EXTENDS Tracker

\* One byte: every sequence of reservations and releases of runs up to 3.
MCLen1 == 1
MCCounts == {1, 2, 3}
\* The byte after the bitmap reads as all ones.
BeyondSet == {1}
\* The byte after the bitmap holds anything.
BeyondAny == {0, 1}
=============================================================================
