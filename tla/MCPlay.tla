------------------------------- MODULE MCPlay -------------------------------
EXTENDS Play

\* A corner of three free tiles in a board of 4 by 4, its border included.
MCWalls == ((0 .. 3) \X (0 .. 3)) \ {<<1, 1>>, <<2, 1>>, <<1, 2>>}
MCSpawn == <<1, 1>>
MCSpots == {<<2, 1>>}
=============================================================================
