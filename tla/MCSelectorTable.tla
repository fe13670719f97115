--------------------------- MODULE MCSelectorTable ---------------------------
(* Model of SelectorTable: three valid descriptors out of four and two       *)
(* owners, which nothing tells apart.                                        *)
EXTENDS SelectorTable, TLC
CONSTANTS d1, d2
MCData == {d1, d2}
Owners == Permutations(MCData)
=============================================================================
