---------------------------------- MODULE Grid ----------------------------------
(***************************************************************************)
(* src/dataStructures/avGrid.c: grids of elements, kept row by row.  Each  *)
(* call that writes is a function from the grid before to the grid after.  *)
(***************************************************************************)
EXTENDS Integers, FiniteSets, FiniteSetsExt

CONSTANTS Grids,    (* AvGrid handles                                       *)
          Cells,    (* the elements; 0 is what avCallocate gives            *)
          MaxSide,  (* bound: the largest width and height                  *)
          Modulus   (* stands for 2^32, the width of the coordinates        *)

(* A grid of half the coordinates' width has more elements than memory.    *)
ASSUME SidesFitTwice == MaxSide \in Nat /\ Modulus \in Nat /\ 2 * MaxSide <= Modulus

VARIABLE grid       (* grid[g]: the AvGrid_T; its width is 0 if there is none *)

NoGrid == [width |-> 0, height |-> 0, data |-> <<>>]

GridInit == grid = [g \in Grids |-> NoGrid]

(* avGridCreate; with a width or height of 0 it makes no grid.             *)
GridCreate(g, w, h) ==
    /\ grid[g] = NoGrid
    /\ w # 0 /\ h # 0
    /\ grid' = [grid EXCEPT ![g] = [width |-> w, height |-> h, data |-> [i \in 0..(w * h - 1) |-> 0]]]

(* aGridDestroy *)
GridDestroy(g) ==
    /\ grid[g] # NoGrid
    /\ grid' = [grid EXCEPT ![g] = NoGrid]

InGrid(r, x, y) == x < r.width /\ y < r.height
Index(r, x, y) == y * r.width + x

(* avGridWrite *)
Written(r, v, x, y) == IF InGrid(r, x, y) THEN [r EXCEPT !.data[Index(r, x, y)] = v] ELSE r

(* avGridClear with and without an element *)
Cleared(r, v) == [r EXCEPT !.data = [i \in DOMAIN @ |-> v]]

(* avGridWriteGrid: the width is cut to x - dst->width, which wraps around, *)
(* so that only the tests of avGridGetPtr and avGridRead cut at the edge.   *)
(* The elements are copied one after the other.                             *)
Pasted(src, dst, same, x, y, w, h) ==
    LET width == Min({w, src.width, (x - dst.width) % Modulus})
        height == Min({h, src.height, (y + dst.height) % Modulus})
        Copied[n \in 0..(width * height)] ==
            IF n = 0 THEN dst
            ELSE LET xx == (n - 1) % width
                     yy == (n - 1) \div width
                     from == IF same THEN Copied[n - 1] ELSE src
                 IN  Written(Copied[n - 1], from.data[Index(from, xx, yy)], xx + x, yy + y)
    IN  IF InGrid(dst, x, y) THEN Copied[width * height] ELSE dst

(* avGridFindMinRectSurrounding: <<xMin, yMin, xMax, yMax>>, widened by one *)
(* element after the other.                                                 *)
MinRect(r, v) ==
    LET Seen[n \in 0..(r.width * r.height)] ==
            IF n = 0 THEN <<r.width, r.height, 0, 0>>
            ELSE LET x == (n - 1) % r.width
                     y == (n - 1) \div r.width
                     b == Seen[n - 1]
                 IN  IF r.data[Index(r, x, y)] # v THEN b
                     ELSE <<Min({b[1], x}), Min({b[2], y}), Max({b[3], x}), Max({b[4], y})>>
    IN  Seen[r.width * r.height]

Sides == 1..MaxSide
Coordinates == 0..MaxSide

GridNext ==
    \E g \in Grids :
        \/ GridDestroy(g)
        \/ \E w, h \in Sides : GridCreate(g, w, h)
        \/ /\ grid[g] # NoGrid
           /\ \/ \E v \in Cells, x, y \in Coordinates : grid' = [grid EXCEPT ![g] = Written(@, v, x, y)]
              \/ \E v \in Cells : grid' = [grid EXCEPT ![g] = Cleared(@, v)]
              \/ \E s \in Grids, x, y \in Coordinates, w, h \in Sides :
                    /\ grid[s] # NoGrid
                    /\ grid' = [grid EXCEPT ![g] = Pasted(grid[s], @, s = g, x, y, w, h)]

--------------------------------------------------------------------------------

Element(r, x, y) == r.data[Index(r, x, y)]
Points(r) == (0..(r.width - 1)) \X (0..(r.height - 1))

(* Writing an element changes this element alone, wherever it is.          *)
WritesOne ==
    \A g \in Grids : LET r == grid[g] IN
        \A v \in Cells, x, y \in Coordinates, p \in Points(r) :
            Element(Written(r, v, x, y), p[1], p[2])
                = IF p = <<x, y>> THEN v ELSE Element(r, p[1], p[2])

(* However the sizes wrap around, avGridWriteGrid copies the part of the   *)
(* region that both grids have, and nothing else; only a grid pasted into  *)
(* itself may read what it has just written.                               *)
PastesClipped ==
    \A g, s \in Grids : LET r == grid[g] IN
        r # NoGrid /\ grid[s] # NoGrid /\ g # s =>
        \A x, y \in Coordinates, w, h \in Sides, p \in Points(r) :
            LET u == p[1] - x
                v == p[2] - y
            IN  Element(Pasted(grid[s], r, FALSE, x, y, w, h), p[1], p[2])
                    = IF u \in 0..(w - 1) /\ v \in 0..(h - 1) /\ <<u, v>> \in Points(grid[s])
                      THEN Element(grid[s], u, v) ELSE Element(r, p[1], p[2])

(* The rectangle found holds every element that is equal, touches one on   *)
(* each side, and is turned inside out when there is none.                 *)
RectIsTight ==
    \A g \in Grids, v \in Cells : LET r == grid[g] IN
        r # NoGrid =>
        LET found == {p \in Points(r) : Element(r, p[1], p[2]) = v}
            b == MinRect(r, v)
        IN  IF found = {} THEN b[1] > b[3] /\ b[2] > b[4]
            ELSE b = <<Min({p[1] : p \in found}), Min({p[2] : p \in found}),
                       Max({p[1] : p \in found}), Max({p[2] : p \in found})>>

GridSound == WritesOne /\ PastesClipped /\ RectIsTight
================================================================================
