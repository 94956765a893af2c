--------------------------- MODULE MCBlockChoice ---------------------------
EXTENDS BlockChoice

\* Both sides of every threshold of SelectModeETC2.
MCRanges == {0, 7, 8, 22, 23, 96, 97}
MCExtremes == {0, 5, 15}
=============================================================================
