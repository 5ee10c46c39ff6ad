------------------------------- MODULE Predict -------------------------------
(***************************************************************************)
(* web/predict.js: the page moves its own player before the server answers, *)
(* with a second copy of the server's rules written in JavaScript.  Here it *)
(* is translated from that copy, not from the server's.                      *)
(*                                                                         *)
(* A prediction is [live, px, py, errX, errY]: where it believes the player   *)
(* is, and the part of the last correction that is still to be faded out of  *)
(* the picture.  The place of a tick before, from which a picture between    *)
(* two ticks is drawn, is left out.                                          *)
(***************************************************************************)
EXTENDS Integers

CONSTANTS Tile, Half, MapW, MapH, MoveBase, MoveStep, TrapSpeed

Small(a, b) == IF a < b THEN a ELSE b
Big(a, b) == IF a > b THEN a ELSE b
Abs(a) == Big(a, -a)

\* setup: a new set of rules; nothing is predicted yet.
Setup == [live |-> FALSE, px |-> 0, py |-> 0, errX |-> 0, errY |-> 0]

solid(tiles, x, y) == x < 0 \/ y < 0 \/ x >= MapW \/ y >= MapH \/ <<x, y>> \in tiles

\* The first and the last tile under the body.
span(pos) == [first |-> Big(pos - Half, 0) \div Tile, last |-> (pos + Half) \div Tile]

Across(tiles, t, sp, isX) ==
    \E o \in sp.first .. sp.last : IF isX THEN solid(tiles, t, o) ELSE solid(tiles, o, t)

stepAxis(tiles, pos, other, step, isX) ==
    LET want == pos + step
        tEdge == (IF step > 0 THEN want + Half ELSE want - Half) \div Tile
        free == tEdge = pos \div Tile \/ ~Across(tiles, tEdge, span(other), isX)
    IN  CASE step = 0 \/ free -> want
          [] step > 0 /\ ~free -> tEdge * Tile - Half - 1
          [] step < 0 /\ ~free -> (tEdge + 1) * Tile + Half

clampAxis(tiles, pos, other, isX, speed) ==
    LET t == pos \div Tile
        lo == IF Across(tiles, t - 1, span(other), isX) THEN t * Tile + Half ELSE 0
        hi == IF Across(tiles, t + 1, span(other), isX) THEN (t + 1) * Tile - Half - 1
              ELSE (IF isX THEN MapW ELSE MapH) * Tile - 1
        move == Small(Big(pos, lo), hi) - pos
    IN  IF lo > hi THEN pos ELSE pos + Big(Small(move, speed), -speed)

centerAxis(tiles, movePos, sidePos, step, movingIsX, speed) ==
    LET ahead == (IF step > 0 THEN movePos + speed + Half ELSE movePos - speed - Half) \div Tile
        rows == [first |-> (sidePos - Half) \div Tile, last |-> (sidePos + Half) \div Tile]
        st == sidePos \div Tile
        d == st * Tile + Tile \div 2 - sidePos
        pull == /\ step # 0
                /\ Across(tiles, ahead, rows, movingIsX)
                /\ ~Across(tiles, ahead, [first |-> st, last |-> st], movingIsX)
    IN  IF pull THEN sidePos + Big(Small(d, speed), -speed) ELSE sidePos

\* A mutant of tick: a diagonal step is as long as a straight one on each axis.
tickLong(p, tiles, dirX, dirY, speedLv, trapped) ==
    LET speed == IF trapped THEN TrapSpeed ELSE MoveBase + speedLv * MoveStep
        lined == CASE dirX # 0 /\ dirY = 0 ->
                        <<p.px, centerAxis(tiles, p.px, p.py, dirX * speed, TRUE, speed)>>
                   [] dirY # 0 /\ dirX = 0 ->
                        <<centerAxis(tiles, p.py, p.px, dirY * speed, FALSE, speed), p.py>>
                   [] OTHER -> <<p.px, p.py>>
        diagSpeed == speed
        x == stepAxis(tiles, lined[1], lined[2], dirX * diagSpeed, TRUE)
        y == stepAxis(tiles, lined[2], x, dirY * diagSpeed, FALSE)
        cy == clampAxis(tiles, y, x, FALSE, speed)
    IN  IF p.live
        THEN [p EXCEPT !.px = clampAxis(tiles, x, cy, TRUE, speed), !.py = cy]
        ELSE p

tick(p, tiles, dirX, dirY, speedLv, trapped) ==
    LET speed == IF trapped THEN TrapSpeed ELSE MoveBase + speedLv * MoveStep
        lined == CASE dirX # 0 /\ dirY = 0 ->
                        <<p.px, centerAxis(tiles, p.px, p.py, dirX * speed, TRUE, speed)>>
                   [] dirY # 0 /\ dirX = 0 ->
                        <<centerAxis(tiles, p.py, p.px, dirY * speed, FALSE, speed), p.py>>
                   [] OTHER -> <<p.px, p.py>>
        diagSpeed == IF dirX # 0 /\ dirY # 0 THEN (speed * 181) \div 256 ELSE speed
        x == stepAxis(tiles, lined[1], lined[2], dirX * diagSpeed, TRUE)
        y == stepAxis(tiles, lined[2], x, dirY * diagSpeed, FALSE)
        cy == clampAxis(tiles, y, x, FALSE, speed)
    IN  IF p.live
        THEN [p EXCEPT !.px = clampAxis(tiles, x, cy, TRUE, speed), !.py = cy]
        ELSE p

\* A mutant of reconcile: a small error is faded, but not taken out of the prediction.
reconcileFar(p, sx, sy) ==
    LET dx == p.px - sx
        dy == p.py - sy
        far == Abs(dx) > Tile \div 2 \/ Abs(dy) > Tile \div 2
    IN  IF ~p.live \/ far
        THEN [p EXCEPT !.live = TRUE, !.px = sx, !.py = sy, !.errX = 0, !.errY = 0]
        ELSE [p EXCEPT !.errX = dx, !.errY = dy]

\* The server has answered: its place is the true one; what was wrong is
\* faded out, or, when it is more than half a tile, dropped at once.
reconcile(p, sx, sy) ==
    LET dx == p.px - sx
        dy == p.py - sy
        far == Abs(dx) > Tile \div 2 \/ Abs(dy) > Tile \div 2
        there == [p EXCEPT !.live = TRUE, !.px = sx, !.py = sy]
    IN  IF ~p.live \/ far
        THEN [there EXCEPT !.errX = 0, !.errY = 0]
        ELSE [there EXCEPT !.errX = dx, !.errY = dy]

stop(p) == [p EXCEPT !.live = FALSE, !.errX = 0, !.errY = 0]

\* view: each picture fades a quarter of the error; less than two units is none.
Fade(e) == LET left == IF e < 0 THEN -((-3 * e) \div 4) ELSE (3 * e) \div 4
           IN  IF Abs(left) < 2 THEN 0 ELSE left

viewed(p) == [p EXCEPT !.errX = Fade(p.errX), !.errY = Fade(p.errY)]
=============================================================================
