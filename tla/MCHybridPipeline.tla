-------------------------- MODULE MCHybridPipeline --------------------------
(***************************************************************************)
(* Images for TLC.  With PartLines = 2 an image of three block rows has a  *)
(* full part and a shorter one, as one of 33 rows has with the code's 32.  *)
(***************************************************************************)
EXTENDS HybridPipeline

Image(bw, lines, rgba) == [bw |-> bw, lines |-> lines, rgba |-> rgba]

\* Two parts, the last one shorter; three parts of one column with alpha.
MCImages == {Image(2, 3, FALSE), Image(1, 5, TRUE), Image(3, 1, FALSE)}

\* --fast, --normal and --best.
MCQualities == {<<1, 10>>, <<2, 5>>, <<1, 1>>}
=============================================================================
