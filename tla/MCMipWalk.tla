----------------------------- MODULE MCMipWalk -----------------------------
EXTENDS MipWalk

\* Up to 128, and a few that are near and not near a power of two.
MCSizes == {4 * k : k \in 1..32} \cup {252, 256, 260, 1020}

\* 36 is the first width with an odd level above one that is downsampled.
MCWalkSizes == {4, 8, 12, 20, 28, 36, 40}
=============================================================================
