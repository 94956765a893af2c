--------------------------- MODULE MCDataProvider ---------------------------
(***************************************************************************)
(* Images for TLC.  With Lines = 2 a level of 16 rows already needs two    *)
(* parts, as one of 256 rows does with the 32 of the code.                 *)
(***************************************************************************)
EXTENDS DataProvider

Image(x, y, mip, raw) == [x |-> x, y |-> y, mip |-> mip, raw |-> raw]

\* Square, wide, tall, not a power of two; with and without mip levels.
MCImages == {Image(4, 20, FALSE, FALSE), Image(8, 16, FALSE, TRUE),
             Image(16, 16, TRUE, FALSE), Image(8, 40, TRUE, FALSE),
             Image(12, 24, TRUE, FALSE), Image(64, 4, TRUE, FALSE),
             Image(4, 48, TRUE, TRUE)}

\* The smallest image with two levels narrower than a block.
MCNarrowImages == {Image(8, 8, TRUE, FALSE)}
=============================================================================
