--------------------------- MODULE MCItemIDRange ---------------------------
(* Small instances of ItemIDRange.  With W = 3 and R = 1 block k is           *)
(* 3k+1 .. 3k+3, usable while R ids follow its first free one, and its last   *)
(* id is never issued.  The db's own ids begin on the last id of a block, as   *)
(* in Doc's ITEM_ID_RANGE = 2000000000 2100000000.                            *)
EXTENDS ItemIDRange, TLC

MCInitItems == {{MinId(2)}, {MinId(2) + 2}}
Symm == Permutations(Games) \cup Permutations(Conns)
=============================================================================
