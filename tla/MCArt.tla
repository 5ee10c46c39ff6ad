------------------------------- MODULE MCArt -------------------------------
\* Two boards of four cells: a village with a river, a bridge and pictures, and
\* a harbour that is all dots and marks.  Sizes 24 and 32 share the number of
\* pixels in a dot.
EXTENDS Art, TLC

Row(a, b, c, d) == [i \in Cell |-> <<a, b, c, d>>[i + 1]]

Village == [place |-> "village", tile |-> Row(WALL, WALL, EMPTY, BLOCK),
            look |-> Row(RIVER, 0, BRIDGE, 0), lane |-> Row(FALSE, FALSE, TRUE, FALSE),
            cover |-> {1}]
Harbour == [place |-> "harbour", tile |-> Row(WALL, WALL, BLOCK, BOX),
            look |-> Row(0, 0, 0, 0), lane |-> Row(FALSE, FALSE, TRUE, TRUE),
            cover |-> {}]
MCNumbers == <<[text |-> <<1>>, size |-> 20]>>

MCBoards == {Village, Harbour}

Symmetry == Permutations(Both)

=============================================================================
