------------------------------- MODULE Rects -------------------------------
(***************************************************************************)
(* The rectangles of gui/shapes.h.  A rectangle holds the pixels from its  *)
(* left and top edges up to, and without, its right and bottom edges.      *)
(***************************************************************************)
EXTENDS Integers, Sequences

Rect == [l : Int, t : Int, r : Int, b : Int]

Larger(m, n) == IF m > n THEN m ELSE n
Smaller(m, n) == IF m < n THEN m ELSE n

Inside(x, y, R) == R.l <= x /\ x < R.r /\ R.t <= y /\ y < R.b

\* The return value of rect_intersect(): true also when only edges meet, ...
Meet(A, B) ==
  /\ Smaller(A.r, B.r) >= Larger(A.l, B.l)
  /\ Smaller(A.b, B.b) >= Larger(A.t, B.t)

\* ... and the rectangle it leaves in dst, which may be empty.
Intersection(A, B) ==
  [l |-> Larger(A.l, B.l), t |-> Larger(A.t, B.t),
   r |-> Smaller(A.r, B.r), b |-> Smaller(A.b, B.b)]

\* Mutant: the rows below the upper rectangle are taken from it.
rect_union_WrongFoot(A, B) ==
  LET hi == IF A.t < B.t THEN A ELSE B
      lo == IF A.t < B.t THEN B ELSE A
      foot == IF A.b < B.b THEN A ELSE B
  IN  IF ~ Meet(A, B) THEN <<A, B>>
      ELSE << [l |-> hi.l, t |-> hi.t, r |-> hi.r, b |-> lo.t],
              [l |-> Smaller(A.l, B.l), t |-> lo.t, r |-> Larger(A.r, B.r), b |-> foot.b],
              [l |-> foot.l, t |-> foot.b, r |-> foot.r, b |-> foot.b] >>

\* rect_union(): the rows of the upper rectangle alone, the rows of both, and the
\* rows of the one that reaches further down.
rect_union(A, B) ==
  LET hi == IF A.t < B.t THEN A ELSE B
      lo == IF A.t < B.t THEN B ELSE A
      head == IF A.b < B.b THEN A ELSE B
      foot == IF A.b < B.b THEN B ELSE A
  IN  IF ~ Meet(A, B) THEN <<A, B>>
      ELSE << [l |-> hi.l, t |-> hi.t, r |-> hi.r, b |-> lo.t],
              [l |-> Smaller(A.l, B.l), t |-> lo.t, r |-> Larger(A.r, B.r), b |-> head.b],
              [l |-> foot.l, t |-> head.b, r |-> foot.r, b |-> foot.b] >>

\* Window::move()
Shifted(R, dx, dy) == [l |-> R.l + dx, t |-> R.t + dy, r |-> R.r + dx, b |-> R.b + dy]
=============================================================================
