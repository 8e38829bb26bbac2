----------------------------- MODULE MCDesktop -----------------------------
(* Two frames that overlap on a small screen: the kernel's, which is there from
   the start, and that of a process, with an opaque border, a transparent
   background and a text box, which shows one of the rows that its buffer has.
   They come in an order in which insert() puts one on top and one at the end.   *)
EXTENDS Desktop

R(l, t, r, b) == [l |-> l, t |-> t, r |-> r, b |-> b]

W(class, rect, z, id, parent, alpha) ==
  [class |-> class, rect |-> rect, zindex |-> z, id |-> id, parent_id |-> parent,
   alpha |-> alpha, chars |-> <<2, 2>>]

MCWindows ==
  [g \in {1, 2, 4, 5, 6, 7} |->
     CASE g = 1 -> W("WINDOW_FRAME", R(1, 1, 3, 3), 0, 1, -1, FALSE)
       [] g = 2 -> W("WINDOW", R(0, 0, 2, 2), 0, 1, 1, FALSE)
       [] g = 4 -> W("WINDOW_FRAME", R(0, 0, 3, 2), 0, 0, -1, FALSE)
       [] g = 5 -> W("WINDOW", R(1, 0, 3, 2), 1, 1, 0, TRUE)
       [] g = 6 -> W("TEXT_BOX", R(1, 1, 3, 2), 2, 2, 0, FALSE)
       [] g = 7 -> W("WINDOW", R(0, 0, 3, 2), 0, 3, 0, FALSE)]

MCTexts == {<<"a">>, <<"NL">>}

P(dx, dy, left) == [dx |-> dx, dy |-> dy, left |-> left]
MCPackets == {P(0, 2, TRUE), P(1, -1, TRUE), P(-1, -2, FALSE)}
=============================================================================
