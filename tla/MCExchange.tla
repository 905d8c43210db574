----------------------------- MODULE MCExchange -----------------------------
(* Instances of Exchange.                                                     *)
EXTENDS Exchange, TLC

CONSTANTS a, b, gem, pike, book1, book2, ring, card, soul1, soul2

\* One column of three cells, room for one book each, a soul box of two cells.
CoreRoom == [k \in Kinds |-> CASE k = "plain" -> 3 [] k = "book" -> 1 [] k = "soul" -> 2]
CoreKind == [i \in Items |-> CASE i \in {book1, book2} -> "book"
                               [] i \in {soul1, soul2} -> "soul"
                               [] OTHER -> "plain"]
CoreSize == [i \in Items |-> IF i = pike THEN 2 ELSE 1]

\* The ring gets the memory of the gem.
CoreMem == [i \in Items |-> IF i = ring THEN gem ELSE i]

\* Player a has the items of A and b those of B, at the cells that At gives.
Start(A, B, At, goldA, new) ==
  [owner  |-> [i \in Items |-> IF i \in A THEN a ELSE IF i \in B THEN b ELSE NoOne],
   cell   |-> [i \in Items |-> IF i \in DOMAIN At THEN At[i] ELSE 0],
   gold   |-> [p \in Players |-> IF p = a THEN goldA ELSE 0],
   unborn |-> new]

CoreStarts ==
  {Start({gem, book1}, {book2}, <<>>, 1, {}),
   Start({gem}, {pike}, <<>>, 0, {ring}),
   Start({card, gem}, {pike}, gem :> 1, 0, {}),
   Start({soul1}, {soul2}, soul2 :> 1, 0, {})}
=============================================================================
