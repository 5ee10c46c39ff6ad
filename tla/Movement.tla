------------------------------ MODULE Movement ------------------------------
(***************************************************************************)
(* How the server moves a body in one tick (Server/src/Movement.h and       *)
(* MovePlayer in Server/src/Game.h): integers only, one axis at a time.     *)
(* Positions are in units, Tile of them to a tile; a body reaches Half      *)
(* units to each side of its centre.  Solid tiles are given as a set.       *)
(*                                                                         *)
(* CORNER_ASSIST is 0 (GameConstants.h:194), so that CornerAssistAxis       *)
(* returns what it is given; LANE_SNAP_PERCENT is 50, so that CenterAxis     *)
(* is on.                                                                   *)
(***************************************************************************)
EXTENDS Integers

CONSTANTS Tile, Half,          \* TILE_UNITS, PLAYER_HALF
          MapW, MapH,          \* the board, its border of walls included
          MoveBase, MoveStep,  \* MOVE_SPEED_BASE, MOVE_SPEED_STEP
          TrapSpeed            \* TRAP_MOVE_SPEED

\* Division in C++ rounds towards zero.
Quot(a, b) == IF a >= 0 THEN a \div b ELSE -((-a) \div b)

Least(a, b) == IF a < b THEN a ELSE b
Most(a, b) == IF a > b THEN a ELSE b
Limit(d, most) == Least(Most(d, -most), most)

IsSolid(walls, x, y) == x \notin 0 .. MapW - 1 \/ y \notin 0 .. MapH - 1 \/ <<x, y>> \in walls

\* Whether a tile of the line "along", among the rows "across", is solid.
AnySolid(walls, along, across, isX) ==
    \E o \in across : IF isX THEN IsSolid(walls, along, o) ELSE IsSolid(walls, o, along)

BodySpanAxis(pos) == Quot(Most(pos - Half, 0), Tile) .. Quot(pos + Half, Tile)

\* Pulls the body to the middle of its row when it cannot go on, and could from there.
CenterAxis(walls, move, side, step, isX, speed) ==
    LET edge == IF step > 0 THEN move + speed + Half ELSE move - speed - Half
        ahead == Quot(edge, Tile)
        row == Quot(side, Tile)
        rows == Quot(side - Half, Tile) .. Quot(side + Half, Tile)
    IN  IF step # 0 /\ AnySolid(walls, ahead, rows, isX) /\ ~AnySolid(walls, ahead, {row}, isX)
        THEN side + Limit(row * Tile + Tile \div 2 - side, speed)
        ELSE side

\* A mutant of StepAxis: the body is stopped by its centre, not by its edge.
StepAxisCentre(walls, pos, other, step, isX) ==
    LET edge == IF step > 0 THEN pos + step + Half ELSE pos + step - Half
        into == Quot(edge, Tile)
    IN  IF \/ step = 0 \/ into = Quot(pos, Tile)
           \/ ~AnySolid(walls, into, BodySpanAxis(other), isX)
        THEN pos + step
        ELSE IF step > 0 THEN into * Tile - 1 ELSE (into + 1) * Tile

\* Goes by step, or up to the tile that stops the body's leading edge.
StepAxis(walls, pos, other, step, isX) ==
    LET edge == IF step > 0 THEN pos + step + Half ELSE pos + step - Half
        into == Quot(edge, Tile)
    IN  IF \/ step = 0 \/ into = Quot(pos, Tile)
           \/ ~AnySolid(walls, into, BodySpanAxis(other), isX)
        THEN pos + step
        ELSE IF step > 0 THEN into * Tile - Half - 1 ELSE (into + 1) * Tile + Half

\* Takes the body out of a solid neighbour, by at most speed.
ClampAxis(walls, pos, other, isX, speed) ==
    LET t == Quot(pos, Tile)
        lo == IF AnySolid(walls, t - 1, BodySpanAxis(other), isX) THEN t * Tile + Half ELSE 0
        hi == IF AnySolid(walls, t + 1, BodySpanAxis(other), isX)
              THEN (t + 1) * Tile - Half - 1
              ELSE (IF isX THEN MapW ELSE MapH) * Tile - 1
    IN  IF lo > hi THEN pos ELSE pos + Limit(Least(Most(pos, lo), hi) - pos, speed)

Speed(level, trapped) == IF trapped THEN TrapSpeed ELSE MoveBase + level * MoveStep

\* MovePlayer: line up, step along x, then along y, then clamp y, then x.
MovePlayer(walls, at, dir, level, trapped) ==
    LET v == Speed(level, trapped)
        diag == IF dir.x # 0 /\ dir.y # 0 THEN Quot(v * 181, 256) ELSE v
        y0 == IF dir.y = 0 THEN CenterAxis(walls, at.x, at.y, dir.x * v, TRUE, v) ELSE at.y
        x0 == IF dir.x = 0 THEN CenterAxis(walls, at.y, at.x, dir.y * v, FALSE, v) ELSE at.x
        x1 == StepAxis(walls, x0, y0, dir.x * diag, TRUE)
        y1 == StepAxis(walls, y0, x1, dir.y * diag, FALSE)
        y2 == ClampAxis(walls, y1, x1, FALSE, v)
    IN  [x |-> ClampAxis(walls, x1, y2, TRUE, v), y |-> y2]

JudgeTile(at) == <<Quot(at.x, Tile), Quot(at.y, Tile)>>

\* The tiles a body at a place touches.
Touched(at) == BodySpanAxis(at.x) \X BodySpanAxis(at.y)
=============================================================================
