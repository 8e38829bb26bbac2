------------------------------ MODULE TextBox ------------------------------
(***************************************************************************)
(* The text of a TextBox (gui/objects.h): a ring of rows that print() and  *)
(* backspace() change and GUITextBox::draw() shows.  A character takes one *)
(* pixel, so that CHAR_SPACING_X and CHAR_SPACING_Y are 1, and offset_x,   *)
(* which nobody sets, is 0.                                                *)
(***************************************************************************)
EXTENDS Rects

Buffer(w, h) ==
  [char_w |-> w, max |-> w * h, offset_y |-> 0, head |-> 0, tail |-> 0,
   text |-> [k \in 0 .. w * h - 1 |-> " "]]

\* n cells of the ring, from position `at` on, are set to c.
Put(buf, at, n, c) ==
  [buf EXCEPT !.text = [k \in DOMAIN @ |->
     IF \E j \in 0 .. n - 1 : k = (at + j) % buf.max THEN c ELSE @[k]]]

\* One round of the loop of print(): a newline fills the line with blanks.
Typed(buf, c) ==
  LET n == IF c = "NL" THEN buf.char_w - (buf.tail % buf.char_w) ELSE 1
  IN  [Put(buf, buf.tail, n, IF c = "NL" THEN " " ELSE c) EXCEPT !.tail = @ + n]

\* print(): what does not fit is cut off in front, a full ring gives up one row,
\* a new line is cleared, and the cursor follows the text.
Printed(buf, s) ==
  LET len == Smaller(Len(s), buf.max)
      after[k \in 0 .. len] ==
        IF k = 0 THEN buf ELSE Typed(after[k - 1], s[Len(s) - len + k])
      typed == after[len]
      headed == IF typed.tail - typed.head >= buf.max
                THEN [typed EXCEPT !.head = @ + buf.char_w] ELSE typed
      cleared == IF headed.tail % buf.char_w = 0
                 THEN Put(headed, headed.tail, buf.char_w, " ") ELSE headed
  IN  Put(cleared, cleared.tail, 1, "_")

\* backspace(), of a buffer that is not empty
CanErase(buf) == buf.head < buf.tail
Erased(buf) ==
  Put([Put(buf, buf.tail, 1, " ") EXCEPT !.tail = @ - 1], buf.tail - 1, 1, "_")

-----------------------------------------------------------------------------
(* set_redraw_rect() of a box of w by h *)

CursorX(buf, at) == at % buf.char_w
CursorY(buf, at) == (at \div buf.char_w) + buf.offset_y
Leaves(buf, h) == CursorY(buf, buf.tail) < 0 \/ CursorY(buf, buf.tail) + 1 > h

\* The box scrolls when the cursor leaves it at the top or at the bottom, ...
Scrolled(buf, h) ==
  LET y == CursorY(buf, buf.tail) IN
  [buf EXCEPT !.offset_y = IF y < 0 THEN @ - y ELSE IF y + 1 > h THEN @ + h - (y + 1) ELSE @]

\* ... and is then redrawn as a whole; otherwise from the old cursor to the new.
RedrawRect(buf, old, w, h) ==
  LET x == CursorX(buf, buf.tail)  y == CursorY(buf, buf.tail)
      old_x == CursorX(buf, old)   old_y == CursorY(buf, old)
  IN  IF Leaves(buf, h) THEN [l |-> 0, t |-> 0, r |-> w, b |-> h]
      ELSE [l |-> IF y = old_y THEN Smaller(x, old_x) ELSE 0,
            t |-> Smaller(y, old_y),
            r |-> IF y = old_y THEN Larger(x, old_x) + 1 ELSE w,
            b |-> Larger(y, old_y) + 1]

\* GUITextBox::draw(): the character at a pixel of the box, in the rows from head
\* to tail.
CharAt(buf, x, y) ==
  LET row == y - buf.offset_y IN
  IF /\ buf.head \div buf.char_w <= row /\ row <= buf.tail \div buf.char_w
     /\ 0 <= x /\ x <= buf.char_w
  THEN buf.text[(row * buf.char_w + x) % buf.max] ELSE " "
=============================================================================
