----------------------------- MODULE MCLoopback -----------------------------
EXTENDS Loopback

\* A code of half the rate, like the one of FEC.cpp, with 16 rows of six ones.
MCNonzero ==
  << {4, 7, 17, 18, 24, 29}, {4, 9, 12, 22, 28, 31}, {5, 10, 14, 18, 27, 31},
     {1, 10, 13, 20, 22, 29}, {3, 8, 13, 19, 24, 25}, {3, 6, 12, 20, 23, 30},
     {4, 8, 16, 20, 27, 32}, {1, 7, 14, 19, 23, 28}, {5, 11, 16, 22, 25, 30},
     {2, 9, 13, 17, 23, 27}, {1, 11, 12, 21, 24, 32}, {3, 7, 15, 16, 21, 31},
     {5, 9, 15, 19, 26, 29}, {2, 8, 14, 21, 26, 30}, {6, 10, 11, 17, 26, 28},
     {2, 6, 15, 18, 25, 32} >>

\* Texts of one to three blocks, with and without a trailing space, and texts
\* of as many blocks as are not accepted or as the header cannot tell.
MCText(n) == [i \in 1..n |-> IF i % 3 = 2 THEN Space ELSE 65 + (i % 2)]
MCMfskTexts == {MCText(n) : n \in 0..5} \union {MCText(2 * n - 1) : n \in {6, 8, 9}}

MCTable == [space |-> <<1>>, e |-> <<1, 1>>, t |-> <<1, 0, 1>>, i |-> <<1, 1, 0, 1>>]
MCPskTexts == {<<"e", "t", "space">>, <<"i", "e">>, <<"t", "space", "space", "i">>}

MCNoise(phase, quality) == [phase |-> phase, quality |-> quality, at |-> 0]
MCNoises == {<<>>, <<MCNoise(-1, 0)>>, <<MCNoise(-1, 0), MCNoise(-1, 50)>>}
=============================================================================
