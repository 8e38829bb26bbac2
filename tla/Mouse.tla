------------------------------- MODULE Mouse -------------------------------
(***************************************************************************)
(* MouseState of devices/ps2.h, and what mouse_packet() of ps2.cpp makes   *)
(* of a complete packet: the new state and the events it posts.            *)
(***************************************************************************)
EXTENDS Integers, Sequences

CONSTANTS
  VGA_WIDTH, VGA_HEIGHT,
  CLICK_BOX            \* a release this near to the press is a click

ASSUME ScreenAssumption ==
  VGA_WIDTH \in Nat \ {0} /\ VGA_HEIGHT \in Nat \ {0} /\ CLICK_BOX \in Nat

VARIABLE mouse

MouseState ==
  [x : 0 .. VGA_WIDTH - 1, y : 0 .. VGA_HEIGHT - 1,
   old_x : 0 .. VGA_WIDTH - 1, old_y : 0 .. VGA_HEIGHT - 1,
   lclick_x : 0 .. VGA_WIDTH - 1, lclick_y : 0 .. VGA_HEIGHT - 1,
   lbutton : BOOLEAN, ldrag : BOOLEAN]

\* init_gui() puts the pointer in the upper left of the screen.
InitialMouse ==
  [x |-> VGA_WIDTH \div 4, y |-> VGA_HEIGHT \div 4,
   old_x |-> VGA_WIDTH \div 4, old_y |-> VGA_HEIGHT \div 4,
   lclick_x |-> 0, lclick_y |-> 0, lbutton |-> FALSE, ldrag |-> FALSE]

\* Mutant: the edge of the screen is taken for a part of it.
Clamp_PastEdge(n, size) == IF n > size THEN size - 1 ELSE IF n < 0 THEN 0 ELSE n

Clamp(n, size) == IF n >= size THEN size - 1 ELSE IF n < 0 THEN 0 ELSE n

Moved(dx, dy) ==
  [mouse EXCEPT !.x = Clamp(@ + dx, VGA_WIDTH), !.y = Clamp(@ + dy, VGA_HEIGHT)]

\* The code adds CLICK_BOX, and compares the sum as a uint with twice the box.
InClickBox(m) ==
  /\ m.x - m.lclick_x \in -CLICK_BOX .. CLICK_BOX - 1
  /\ m.y - m.lclick_y \in -CLICK_BOX .. CLICK_BOX - 1

Event(id, x, y) == [id |-> id, x |-> x, y |-> y]
When(c, event) == IF c THEN <<event>> ELSE <<>>

\* Mutant: a release leaves the drag flag set.
Pressed_KeepsDrag(m, left) ==
  IF left /\ ~ m.lbutton
  THEN [m EXCEPT !.lbutton = TRUE, !.lclick_x = m.x, !.lclick_y = m.y]
  ELSE [m EXCEPT !.lbutton = left]

\* The state once the left button has been looked at.
Pressed(m, left) ==
  IF left /\ ~ m.lbutton
  THEN [m EXCEPT !.lbutton = TRUE, !.lclick_x = m.x, !.lclick_y = m.y]
  ELSE [m EXCEPT !.lbutton = left, !.ldrag = @ /\ left]

\* A move is reported at most once in a while (due), and the first one with the
\* button down starts a drag, also within the click box.
Moves(m, due) == due /\ <<m.old_x, m.old_y>> # <<m.x, m.y>>
StartsDrag(m, due) == Moves(m, due) /\ m.lbutton /\ ~ m.ldrag

AfterPacket(m, left, due) ==
  LET p == Pressed(m, left) IN [p EXCEPT !.ldrag = @ \/ StartsDrag(p, due)]

\* The events of a packet, in the order in which they are posted.  A click is
\* reported where the button went down, and so is a move after it.
PacketEvents(m, left, due) ==
  LET p        == Pressed(m, left)
      released == ~ left /\ m.lbutton
      clicked  == released /\ InClickBox(m)
      x        == IF clicked THEN m.lclick_x ELSE m.x
      y        == IF clicked THEN m.lclick_y ELSE m.y
  IN  When(left /\ ~ m.lbutton, Event("MOUSE_LEFT_DOWN", m.x, m.y))
      \o When(~ left /\ m.ldrag, Event("MOUSE_LEFT_DRAG_END", m.x, m.y))
      \o When(released, Event("MOUSE_LEFT_UP", m.x, m.y))
      \o When(clicked, Event("MOUSE_LEFT_CLICK", x, y))
      \o When(Moves(p, due), Event("MOUSE_MOVE", x, y))
      \o When(StartsDrag(p, due) /\ ~ InClickBox(p),
              Event("MOUSE_LEFT_DRAG_START", x, y))
=============================================================================
