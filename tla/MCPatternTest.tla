--------------------------- MODULE MCPatternTest ---------------------------
(* Words of 32 addresses, a card of 11 bytes, blocks that cut the pattern's *)
(* words at every place, starts inside and outside the range of the sizes.  *)
EXTENDS PatternTest
MCSizes == {0, 3, 9, 30}
MCBlockSizes == {0, 1, 3, 4, 6}
MCStarts == {0, 5, 12}
MCEight == {8}
MCFour == {4}
MCMaxErrors == {2}
=============================================================================
