-------------------------- MODULE MCDirectoryMode --------------------------
EXTENDS DirectoryMode

Image(a, p) == [alpha |-> a, parts |-> p]

\* Every mixture of opaque and translucent images, the empty directory, one
\* image, and a sequence of three.
MCDirectories ==
    {<<>>, <<Image(TRUE, 2)>>} \union
    { <<Image(a, 2), Image(b, 2)>> : a, b \in BOOLEAN } \union
    { <<Image(TRUE, 1), Image(b, 2), Image(TRUE, 1)>> : b \in BOOLEAN }

\* What the options can make of the variables.
MCOptions ==
    { o \in [etc2 : BOOLEAN, rgba : BOOLEAN, dxtc : BOOLEAN, alpha : BOOLEAN] :
        o.etc2 /\ o.dxtc => o.rgba }
=============================================================================
