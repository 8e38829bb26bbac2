--------------------------- MODULE Ps2InputProofs ---------------------------
(***************************************************************************)
(* The decoder of the PS/2 bytes, for every set of bytes and keys and any  *)
(* number of losses.                                                       *)
(***************************************************************************)
EXTENDS Ps2Input, FiniteSetTheorems, TLAPS

\* b is followed on the wire by part k of packet p.
Precedes(b, p, k) ==
  k = (b.part + 1) % 3 /\ p = IF b.part = 2 THEN b.packet + 1 ELSE b.packet

Gap(b, p, k) == IF Precedes(b, p, k) THEN 0 ELSE 1

\* Places in the buffer, and after it, where bytes are missing.
Gaps ==
  CASE Len(mouse_buffer) = 0 -> 0
    [] Len(mouse_buffer) = 1 -> Gap(mouse_buffer[1], packet, part)
    [] OTHER -> Gap(mouse_buffer[1], mouse_buffer[2].packet, mouse_buffer[2].part)
                + Gap(mouse_buffer[2], packet, part)

\* b is part k of the packet that is being sent.
Current(b, k) == b.packet = packet /\ b.part = k

\* The packet that is being sent can still be decoded.
Alive ==
  \/ part = 0
  \/ /\ part = 1 /\ Len(mouse_buffer) > 0
     /\ Current(mouse_buffer[Len(mouse_buffer)], 0)
     /\ IsHeader(mouse_buffer[Len(mouse_buffer)].byte)
  \/ /\ part = 2 /\ Len(mouse_buffer) = 2
     /\ Current(mouse_buffer[1], 0) /\ Current(mouse_buffer[2], 1)
     /\ IsHeader(mouse_buffer[1].byte)

Doomed == IF Alive THEN 0 ELSE 1

\* What the decoder owes to the bytes that are missing.
Accounted ==
  /\ \A k \in 1 .. Len(mouse_buffer) : IsHeader(mouse_buffer[k].byte) => mouse_buffer[k].part = 0
  /\ mixed + Gaps <= lost
  /\ (packet - whole) + Doomed + Gaps <= 2 * lost + overflows

\* Nothing is missing.
Aligned ==
  /\ Len(mouse_buffer) = part /\ mixed = 0 /\ whole = packet
  /\ \A k \in 1 .. part : Current(mouse_buffer[k], k - 1)
  /\ part > 0 => IsHeader(mouse_buffer[1].byte)

StepInv ==
  /\ ~ lookalike => Accounted
  /\ lost = 0 /\ overflows = 0 => Aligned

\* The gesture of the events is the one of the mouse state.  While a drag has
\* not left the click box its start is not posted.
Tells(m, g) ==
  /\ ~ m.lbutton => ~ m.ldrag /\ g = "up"
  /\ m.lbutton /\ ~ m.ldrag => g = "down"
  /\ m.lbutton /\ m.ldrag => g \in {"down", "dragging"}

GestureInv == Tells(mouse, gesture)

-----------------------------------------------------------------------------
(* Types *)

\* A clamped coordinate is on the screen.
LEMMA ClampRange ==
  ASSUME NEW n \in Int, NEW size \in Nat \ {0}
  PROVE  Clamp(n, size) \in 0 .. size - 1
  BY DEF Clamp

\* The pointer stays on the screen.
LEMMA MovedType ==
  ASSUME mouse \in MouseState, NEW dx \in Int, NEW dy \in Int
  PROVE  Moved(dx, dy) \in MouseState
  <1>1. mouse.x + dx \in Int /\ mouse.y + dy \in Int
    BY ScreenAssumption DEF MouseState
  <1> DEFINE cx == Clamp(mouse.x + dx, VGA_WIDTH)
             cy == Clamp(mouse.y + dy, VGA_HEIGHT)
  <1>2. cx \in 0 .. VGA_WIDTH - 1 /\ cy \in 0 .. VGA_HEIGHT - 1
    BY <1>1, ClampRange, ScreenAssumption
  <1> HIDE DEF cx, cy
  <1>3. [mouse EXCEPT !.x = cx, !.y = cy] \in MouseState
    BY <1>2 DEF MouseState
  <1> QED BY <1>3 DEF Moved, cx, cy

\* What a packet does to the mouse state keeps its type.
LEMMA AfterPacketType ==
  ASSUME NEW m \in MouseState, NEW left \in BOOLEAN, NEW due \in BOOLEAN
  PROVE  Pressed(m, left) \in MouseState /\ AfterPacket(m, left, due) \in MouseState
  <1> DEFINE p == Pressed(m, left)
  <1>1. p \in MouseState
    BY DEF Pressed, MouseState
  <1> HIDE DEF p
  <1>2. \A d \in BOOLEAN : [p EXCEPT !.ldrag = d] \in MouseState
    BY <1>1 DEF MouseState
  <1>3. (p.ldrag \/ StartsDrag(p, due)) \in BOOLEAN
    OBVIOUS
  <1>4. [p EXCEPT !.ldrag = p.ldrag \/ StartsDrag(p, due)] \in MouseState
    BY <1>2, <1>3
  <1>5. AfterPacket(m, left, due) = [p EXCEPT !.ldrag = p.ldrag \/ StartsDrag(p, due)]
    BY DEF AfterPacket, p
  <1> QED BY <1>1, <1>4, <1>5 DEF p

\* The signs make the movements integers.
LEMMA DeltaType ==
  ASSUME NEW b \in Byte, NEW c \in Byte
  PROVE  DeltaX(b.byte, c.byte) \in Int /\ DeltaY(b.byte, c.byte) \in Int
  <1>1. c.byte \in Int
    BY DEF Byte
  <1> QED BY <1>1 DEF DeltaX, DeltaY

\* What a byte does to the buffer: it is kept, the oldest one is given up for it,
\* or it completes a packet.
Kept(b) ==
  /\ Len(mouse_buffer) < 2 /\ mouse_buffer' = Append(mouse_buffer, b)
  /\ UNCHANGED <<mouse, whole, mixed, gesture>>

Shifted(b) ==
  /\ Len(mouse_buffer) = 2 /\ ~ IsHeader(mouse_buffer[1].byte)
  /\ mouse_buffer' = <<mouse_buffer[2], b>>
  /\ UNCHANGED <<mouse, whole, mixed, gesture>>

Completed(b) ==
  /\ Len(mouse_buffer) = 2 /\ IsHeader(mouse_buffer[1].byte)
  /\ Decode(mouse_buffer[1], mouse_buffer[2], b)

\* These are the cases of mouse_packet().
LEMMA PacketCases ==
  ASSUME TypeOK, NEW b \in Byte, MousePacket(b)
  PROVE  Kept(b) \/ Shifted(b) \/ Completed(b)
  <1> DEFINE n == Len(mouse_buffer)
             bytes == Append(mouse_buffer, b)
  <1>1. mouse_buffer \in Seq(Byte) /\ n \in Nat /\ n <= 2
    BY DEF TypeOK
  <1>2. bytes \in Seq(Byte) /\ Len(bytes) = n + 1 /\ bytes[n + 1] = b
        /\ \A k \in 1 .. n : bytes[k] = mouse_buffer[k]
    BY <1>1
  <1>3. CASE n < 2
    <2>1. ~(Len(bytes) >= 3)
      <3> HIDE DEF bytes
      <3> QED BY <1>1, <1>2, <1>3
    <2> QED BY <1>3, <2>1 DEF MousePacket, Kept
  <1>4. CASE n = 2
    <2>1. Len(bytes) >= 3 /\ bytes[1] = mouse_buffer[1] /\ bytes[2] = mouse_buffer[2] /\ bytes[3] = b
      <3> HIDE DEF bytes
      <3> QED BY <1>2, <1>4
    <2>2. Tail(bytes) = <<mouse_buffer[2], b>>
      <3> DEFINE s == Tail(bytes)
      <3>1. s \in Seq(Byte) /\ Len(s) = 2 /\ s[1] = bytes[2] /\ s[2] = bytes[3]
        <4> HIDE DEF bytes
        <4> QED BY <1>2, <1>4
      <3> HIDE DEF s, bytes
      <3>2. s = <<bytes[2], bytes[3]>>
        BY <3>1
      <3> QED BY <2>1, <3>2 DEF s
    <2>3. CASE IsHeader(mouse_buffer[1].byte)
      <3>1. Decode(bytes[1], bytes[2], bytes[3])
        BY <2>1, <2>3 DEF MousePacket
      <3> HIDE DEF bytes
      <3> QED BY <1>4, <2>1, <2>3, <3>1 DEF Completed
    <2>4. CASE ~ IsHeader(mouse_buffer[1].byte)
      <3>1. mouse_buffer' = Shift(bytes) /\ UNCHANGED <<mouse, whole, mixed, gesture>>
        BY <2>1, <2>4 DEF MousePacket
      <3> QED BY <1>4, <2>2, <2>4, <3>1 DEF Shifted, Shift
    <2> QED BY <2>3, <2>4
  <1>5. n < 2 \/ n = 2
    <2> HIDE DEF n, bytes
    <2> QED BY <1>1
  <1> QED BY <1>3, <1>4, <1>5

-----------------------------------------------------------------------------
(* Gestures *)

\* A click is the end of its gesture.
Settled(g) == IF g = "released" THEN "up" ELSE g

\* s is the sequence of gestures that the events lead through.
Traces(s, g, events) ==
  s[0] = g /\ \A k \in 1 .. Len(events) : s[k] = Follow(s[k - 1], events[k].id)

\* The gesture after a short sequence of events is found by following them one
\* by one.
LEMMA FollowEvents ==
  ASSUME NEW g, NEW events, NEW s, Len(events) \in 0 .. 6, Traces(s, g, events)
  PROVE  Gesture(g, events) = Settled(s[Len(events)])
  <1> DEFINE n == Len(events)
  <1> HIDE DEF n
  <1>0. n \in 0 .. 6 /\ s[0] = g /\ \A k \in 1 .. n : s[k] = Follow(s[k - 1], events[k].id)
    BY DEF n, Traces
  <1> USE <1>0
  <1> DEFINE IsTrace(f) ==
               f = [k \in 0 .. n |-> IF k = 0 THEN g ELSE Follow(f[k - 1], events[k].id)]
             after == CHOOSE f : IsTrace(f)
             r == [k \in 0 .. n |-> s[k]]
  <1>1. IsTrace(r)
    <2> DEFINE e == [k \in 0 .. n |-> IF k = 0 THEN g ELSE Follow(r[k - 1], events[k].id)]
    <2>1. ASSUME NEW k \in 0 .. n PROVE r[k] = e[k]
      <3>1. CASE k = 0
        BY <3>1
      <3>2. CASE k # 0
        <4>1. k \in 1 .. n /\ k - 1 \in 0 .. n
          BY <3>2
        <4>2. r[k] = s[k] /\ r[k - 1] = s[k - 1]
          BY <4>1
        <4>3. e[k] = Follow(r[k - 1], events[k].id)
          BY <3>2
        <4> HIDE DEF r, e
        <4> QED BY <4>1, <4>2, <4>3
      <3> QED BY <3>1, <3>2
    <2>2. r = [k \in 0 .. n |-> r[k]] /\ e = [k \in 0 .. n |-> e[k]]
      OBVIOUS
    <2>3. r = e
      <3> HIDE DEF r, e
      <3> QED BY <2>1, <2>2
    <2> QED BY <2>3
  <1>2. IsTrace(after)
    <2> HIDE DEF IsTrace
    <2> QED BY <1>1
  <1>3. after[0] = g /\ \A k \in 1 .. n : after[k] = Follow(after[k - 1], events[k].id)
    <2> HIDE DEF after
    <2>1. \A k \in 0 .. n : after[k] = IF k = 0 THEN g ELSE Follow(after[k - 1], events[k].id)
      BY <1>2
    <2> QED BY <2>1
  <1> HIDE DEF after, r
  <1>4. after[n] = s[n]
    <2>1. /\ n >= 1 => 1 \in 1 .. n
          /\ n >= 2 => 2 \in 1 .. n
          /\ n >= 3 => 3 \in 1 .. n
          /\ n >= 4 => 4 \in 1 .. n
          /\ n >= 5 => 5 \in 1 .. n
          /\ n >= 6 => 6 \in 1 .. n
      OBVIOUS
    <2>2. n >= 1 => after[1] = s[1]
      BY <1>3, <2>1
    <2>3. n >= 2 => after[2] = s[2]
      BY <1>3, <2>1, <2>2
    <2>4. n >= 3 => after[3] = s[3]
      BY <1>3, <2>1, <2>3
    <2>5. n >= 4 => after[4] = s[4]
      BY <1>3, <2>1, <2>4
    <2>6. n >= 5 => after[5] = s[5]
      BY <1>3, <2>1, <2>5
    <2>7. n >= 6 => after[6] = s[6]
      BY <1>3, <2>1, <2>6
    <2>8. n = 0 \/ n = 1 \/ n = 2 \/ n = 3 \/ n = 4 \/ n = 5 \/ n = 6
      OBVIOUS
    <2> QED BY <1>3, <2>2, <2>3, <2>4, <2>5, <2>6, <2>7, <2>8
  <1>5. Gesture(g, events) = Settled(after[n])
    BY DEF Gesture, after, Settled, n
  <1> QED BY <1>4, <1>5 DEF n

\* Events, as far as a gesture is concerned.
Posted ==
  [id : {"MOUSE_LEFT_DOWN", "MOUSE_LEFT_DRAG_END", "MOUSE_LEFT_UP", "MOUSE_LEFT_CLICK",
         "MOUSE_MOVE", "MOUSE_LEFT_DRAG_START"}, x : Int, y : Int]

\* Following the events s, at most n of them, from g leads to h.
Leads(g, s, h, n) ==
  s \in Seq(Posted) /\ Len(s) <= n /\ \E t : Traces(t, g, s) /\ t[Len(s)] = h

\* One more event, if it is posted.
LEMMA LeadsOn ==
  ASSUME NEW g, NEW s, NEW h, NEW n \in Nat, Leads(g, s, h, n),
         NEW c \in BOOLEAN, NEW e \in Posted
  PROVE  Leads(g, s \o When(c, e), IF c THEN Follow(h, e.id) ELSE h, n + 1)
  <1>1. s \in Seq(Posted) /\ Len(s) \in Nat /\ Len(s) <= n
    BY DEF Leads
  <1>2. CASE c
    <2> DEFINE s2 == s \o <<e>>
               len == Len(s)
    <2>1. /\ s2 \in Seq(Posted) /\ Len(s2) = len + 1 /\ s2[len + 1] = e
          /\ \A k \in 1 .. len : s2[k] = s[k]
      BY <1>1
    <2>2. PICK t : Traces(t, g, s) /\ t[len] = h
      BY DEF Leads
    <2> DEFINE t2 == [k \in 0 .. len + 1 |-> IF k <= len THEN t[k] ELSE Follow(h, e.id)]
    <2>3. len \in Nat /\ len <= n
      BY <1>1
    <2>4. t[0] = g /\ t[len] = h /\ \A k \in 1 .. len : t[k] = Follow(t[k - 1], s[k].id)
      BY <2>2 DEF Traces
    <2> HIDE DEF s2, len
    <2>5. t2[len + 1] = Follow(h, e.id) /\ \A k \in 0 .. len : t2[k] = t[k]
      BY <2>3
    <2> HIDE DEF t2
    <2>6. t2[0] = g
      BY <2>3, <2>4, <2>5
    <2>7. ASSUME NEW k \in 1 .. len + 1 PROVE t2[k] = Follow(t2[k - 1], s2[k].id)
      <3>1. CASE k = len + 1
        <4>1. k - 1 = len /\ len \in 0 .. len
          BY <2>3, <3>1
        <4>2. t2[k - 1] = h
          BY <2>4, <2>5, <4>1
        <4> QED BY <2>1, <2>5, <3>1, <4>2
      <3>2. CASE k # len + 1
        <4>1. k \in 1 .. len /\ k \in 0 .. len /\ k - 1 \in 0 .. len
          BY <2>3, <3>2
        <4> QED BY <2>1, <2>4, <2>5, <4>1
      <3> QED BY <3>1, <3>2
    <2>8. Traces(t2, g, s2) /\ t2[Len(s2)] = Follow(h, e.id)
      BY <2>1, <2>5, <2>6, <2>7 DEF Traces
    <2>9. Leads(g, s2, Follow(h, e.id), n + 1)
      BY <2>1, <2>3, <2>8 DEF Leads
    <2>10. s \o When(c, e) = s2
      BY <1>2 DEF When, s2
    <2> QED BY <1>2, <2>9, <2>10
  <1>3. CASE ~ c
    <2>1. When(c, e) = <<>>
      BY <1>3 DEF When
    <2>2. s \o When(c, e) = s
      BY <1>1, <2>1
    <2>3. Leads(g, s, h, n + 1)
      BY <1>1 DEF Leads
    <2> QED BY <1>3, <2>2, <2>3
  <1> QED BY <1>2, <1>3

\* Where the events lead is what they tell.
LEMMA LeadsTo ==
  ASSUME NEW g, NEW s, NEW h, Leads(g, s, h, 6)
  PROVE  Gesture(g, s) = Settled(h)
  <1>0. s \in Seq(Posted) /\ Len(s) <= 6
    BY DEF Leads
  <1>1. Len(s) \in 0 .. 6
    <2>1. Len(s) \in Nat
      BY <1>0
    <2> DEFINE n == Len(s)
    <2>2. n \in Nat /\ n <= 6
      BY <1>0, <2>1
    <2> HIDE DEF n
    <2>3. n \in 0 .. 6
      BY <2>2
    <2> QED BY <2>3 DEF n
  <1>2. PICK t : Traces(t, g, s) /\ t[Len(s)] = h
    BY DEF Leads
  <1> QED BY <1>1, <1>2, FollowEvents

\* The steps of a gesture.
LEMMA FollowTable ==
  /\ Follow("up", "MOUSE_LEFT_DOWN") = "down"
  /\ Follow("down", "MOUSE_LEFT_DRAG_START") = "dragging"
  /\ Follow("down", "MOUSE_LEFT_DRAG_END") = "down"
  /\ Follow("dragging", "MOUSE_LEFT_DRAG_END") = "down"
  /\ Follow("down", "MOUSE_LEFT_UP") = "released"
  /\ Follow("released", "MOUSE_LEFT_CLICK") = "up"
  /\ \A h : Follow(h, "MOUSE_MOVE") = h
  /\ Settled("up") = "up" /\ Settled("down") = "down" /\ Settled("dragging") = "dragging"
  /\ Settled("released") = "up"
  BY DEF Follow, Settled

\* A packet's events tell the new state of the mouse if they told the old one.
LEMMA GestureStep ==
  ASSUME NEW m \in MouseState, NEW left \in BOOLEAN, NEW due \in BOOLEAN, NEW g, Tells(m, g)
  PROVE  Tells(AfterPacket(m, left, due), Gesture(g, PacketEvents(m, left, due)))
  <1> DEFINE p == Pressed(m, left)
             after == AfterPacket(m, left, due)
             moved == Moves(p, due)
             drag == StartsDrag(p, due)
             released == ~ left /\ m.lbutton
             clicked == released /\ InClickBox(m)
             x == IF clicked THEN m.lclick_x ELSE m.x
             y == IF clicked THEN m.lclick_y ELSE m.y
             D == Event("MOUSE_LEFT_DOWN", m.x, m.y)
             E == Event("MOUSE_LEFT_DRAG_END", m.x, m.y)
             U == Event("MOUSE_LEFT_UP", m.x, m.y)
             C == Event("MOUSE_LEFT_CLICK", x, y)
             M == Event("MOUSE_MOVE", x, y)
             S == Event("MOUSE_LEFT_DRAG_START", x, y)
             w1 == When(left /\ ~ m.lbutton, D)
             w2 == When(~ left /\ m.ldrag, E)
             w3 == When(released, U)
             w4 == When(clicked, C)
             w5 == When(moved, M)
             w6 == When(drag /\ ~ InClickBox(p), S)
             events == PacketEvents(m, left, due)
  <1>1. events = w1 \o w2 \o w3 \o w4 \o w5 \o w6
    BY DEF PacketEvents
  <1>2. /\ D.id = "MOUSE_LEFT_DOWN" /\ E.id = "MOUSE_LEFT_DRAG_END" /\ U.id = "MOUSE_LEFT_UP"
        /\ C.id = "MOUSE_LEFT_CLICK" /\ M.id = "MOUSE_MOVE" /\ S.id = "MOUSE_LEFT_DRAG_START"
    <2> HIDE DEF x, y
    <2> QED BY DEF Event
  <1>3. D \in Posted /\ E \in Posted /\ U \in Posted /\ C \in Posted /\ M \in Posted /\ S \in Posted
    <2>1. m.x \in Int /\ m.y \in Int /\ m.lclick_x \in Int /\ m.lclick_y \in Int
      BY ScreenAssumption DEF MouseState
    <2>2. x \in Int /\ y \in Int
      BY <2>1
    <2> HIDE DEF x, y
    <2>4. D \in Posted /\ E \in Posted /\ U \in Posted
      BY <2>1 DEF Event, Posted
    <2>5. C \in Posted /\ M \in Posted /\ S \in Posted
      BY <2>2 DEF Event, Posted
    <2> QED BY <2>4, <2>5
  <1> HIDE DEF x, y, D, E, U, C, M, S
  <1>4. m.lbutton \in BOOLEAN /\ m.ldrag \in BOOLEAN
    BY DEF MouseState
  <1>5. p \in MouseState /\ p.lbutton = left /\ (p.ldrag <=> m.ldrag /\ left)
    <2>1. p \in MouseState
      BY AfterPacketType
    <2>2. CASE left /\ ~ m.lbutton
      <3>1. p = [m EXCEPT !.lbutton = TRUE, !.lclick_x = m.x, !.lclick_y = m.y]
        BY <2>2 DEF Pressed
      <3> HIDE DEF p
      <3>2. p.lbutton = TRUE /\ p.ldrag = m.ldrag
        BY <3>1 DEF MouseState
      <3> QED BY <2>1, <2>2, <3>2
    <2>3. CASE ~(left /\ ~ m.lbutton)
      <3>1. p = [m EXCEPT !.lbutton = left, !.ldrag = m.ldrag /\ left]
        BY <2>3 DEF Pressed
      <3> HIDE DEF p
      <3>2. p.lbutton = left /\ p.ldrag = (m.ldrag /\ left)
        BY <3>1 DEF MouseState
      <3> QED BY <2>1, <3>2
    <2> QED BY <2>2, <2>3
  <1>6. drag <=> moved /\ left /\ ~ p.ldrag
    BY <1>5 DEF StartsDrag
  <1>7. after.lbutton = left /\ (after.ldrag <=> p.ldrag \/ drag)
    <2>1. after = [p EXCEPT !.ldrag = p.ldrag \/ drag]
      BY DEF AfterPacket
    <2> HIDE DEF p, after, drag
    <2>2. after.lbutton = p.lbutton /\ after.ldrag = (p.ldrag \/ drag)
      BY <1>5, <2>1 DEF MouseState
    <2> QED BY <1>5, <2>2
  <1> SUFFICES Tells(after, Gesture(g, events))
    OBVIOUS
  <1> DEFINE c1 == left /\ ~ m.lbutton
             c2 == ~ left /\ m.ldrag
             c6 == drag /\ ~ InClickBox(p)
             F(c, h, id) == IF c THEN Follow(h, id) ELSE h
             h1 == F(c1, g, "MOUSE_LEFT_DOWN")
             h2 == F(c2, h1, "MOUSE_LEFT_DRAG_END")
             h3 == F(released, h2, "MOUSE_LEFT_UP")
             h4 == F(clicked, h3, "MOUSE_LEFT_CLICK")
             h5 == F(moved, h4, "MOUSE_MOVE")
             h6 == F(c6, h5, "MOUSE_LEFT_DRAG_START")
  <1>8. /\ c1 \in BOOLEAN /\ c2 \in BOOLEAN /\ released \in BOOLEAN
        /\ clicked \in BOOLEAN /\ moved \in BOOLEAN /\ c6 \in BOOLEAN
    BY DEF Moves
  <1>9. /\ clicked => released
        /\ released <=> ~ left /\ m.lbutton
        /\ c1 <=> left /\ ~ m.lbutton
        /\ c2 <=> ~ left /\ m.ldrag
        /\ c6 => drag
    <2> HIDE DEF drag, p
    <2> QED OBVIOUS
  <1> HIDE DEF p, after, moved, drag, c1, c2, released, clicked, c6, events
  <1>10. Gesture(g, events) = Settled(h6)
    <2> HIDE DEF h1, h2, h3, h4, h5, h6
    <2>1. Leads(g, <<>>, g, 0)
      <3> DEFINE t == [k \in {0} |-> g]
      <3>1. <<>> \in Seq(Posted) /\ Len(<<>>) = 0
        OBVIOUS
      <3>2. Traces(t, g, <<>>) /\ t[0] = g
        BY <3>1 DEF Traces
      <3> HIDE DEF t
      <3> QED BY <3>1, <3>2 DEF Leads
    <2>2. Leads(g, <<>> \o w1, h1, 1)
      BY <1>2, <1>3, <1>8, <2>1, LeadsOn, 0 + 1 = 1 DEF h1, c1
    <2>3. <<>> \o w1 = w1
      BY DEF When
    <2>4. Leads(g, w1 \o w2, h2, 2)
      BY <1>2, <1>3, <1>8, <2>2, <2>3, LeadsOn, 1 + 1 = 2 DEF h2, c2
    <2>5. Leads(g, w1 \o w2 \o w3, h3, 3)
      <3> DEFINE s == w1 \o w2
      <3>1. Leads(g, s, h2, 2)
        BY <2>4
      <3> HIDE DEF s
      <3>2. Leads(g, s \o w3, h3, 3)
        BY <1>2, <1>3, <1>8, <3>1, LeadsOn, 2 + 1 = 3 DEF h3
      <3> QED BY <3>2 DEF s
    <2>6. Leads(g, w1 \o w2 \o w3 \o w4, h4, 4)
      <3> DEFINE s == w1 \o w2 \o w3
      <3>1. Leads(g, s, h3, 3)
        BY <2>5
      <3> HIDE DEF s
      <3>2. Leads(g, s \o w4, h4, 4)
        BY <1>2, <1>3, <1>8, <3>1, LeadsOn, 3 + 1 = 4 DEF h4
      <3> QED BY <3>2 DEF s
    <2>7. Leads(g, w1 \o w2 \o w3 \o w4 \o w5, h5, 5)
      <3> DEFINE s == w1 \o w2 \o w3 \o w4
      <3>1. Leads(g, s, h4, 4)
        BY <2>6
      <3> HIDE DEF s
      <3>2. Leads(g, s \o w5, h5, 5)
        BY <1>2, <1>3, <1>8, <3>1, LeadsOn, 4 + 1 = 5 DEF h5
      <3> QED BY <3>2 DEF s
    <2>8. Leads(g, w1 \o w2 \o w3 \o w4 \o w5 \o w6, h6, 6)
      <3> DEFINE s == w1 \o w2 \o w3 \o w4 \o w5
      <3>1. Leads(g, s, h5, 5)
        BY <2>7
      <3> HIDE DEF s
      <3>2. Leads(g, s \o w6, h6, 6)
        BY <1>2, <1>3, <1>8, <3>1, LeadsOn, 5 + 1 = 6 DEF h6, c6
      <3> QED BY <3>2 DEF s
    <2> QED BY <1>1, <2>8, LeadsTo
  <1>11. /\ IF c1 THEN h1 = Follow(g, "MOUSE_LEFT_DOWN") ELSE h1 = g
         /\ IF c2 THEN h2 = Follow(h1, "MOUSE_LEFT_DRAG_END") ELSE h2 = h1
         /\ IF released THEN h3 = Follow(h2, "MOUSE_LEFT_UP") ELSE h3 = h2
         /\ IF clicked THEN h4 = Follow(h3, "MOUSE_LEFT_CLICK") ELSE h4 = h3
         /\ IF moved THEN h5 = Follow(h4, "MOUSE_MOVE") ELSE h5 = h4
         /\ IF c6 THEN h6 = Follow(h5, "MOUSE_LEFT_DRAG_START") ELSE h6 = h5
    OBVIOUS
  <1> HIDE DEF h1, h2, h3, h4, h5, h6
  <1>12. h5 = h4
    BY <1>11, FollowTable
  <1>13. CASE left /\ ~ m.lbutton
    <2>1. g = "up" /\ ~ m.ldrag
      BY <1>13 DEF Tells
    <2>2. h4 = "down"
      BY <1>9, <1>11, <1>13, <2>1, FollowTable
    <2>3. IF c6 THEN h6 = "dragging" ELSE h6 = "down"
      BY <1>11, <1>12, <2>2, FollowTable
    <2>4. Settled(h6) = h6 /\ (h6 = "dragging" => drag)
      BY <1>9, <2>3, FollowTable
    <2> QED BY <1>5, <1>7, <1>10, <1>13, <2>1, <2>3, <2>4 DEF Tells
  <1>14. CASE left /\ m.lbutton
    <2>1. h4 = g
      BY <1>9, <1>11, <1>14
    <2>2. CASE m.ldrag
      <3>1. g \in {"down", "dragging"} /\ ~ c6
        BY <1>5, <1>6, <1>9, <1>14, <2>2 DEF Tells
      <3>2. Settled(h6) = g
        BY <1>11, <1>12, <2>1, <3>1, FollowTable
      <3> QED BY <1>5, <1>7, <1>10, <1>14, <2>2, <3>1, <3>2 DEF Tells
    <2>3. CASE ~ m.ldrag
      <3>1. g = "down"
        BY <1>14, <2>3 DEF Tells
      <3>2. IF c6 THEN h6 = "dragging" ELSE h6 = "down"
        BY <1>11, <1>12, <2>1, <3>1, FollowTable
      <3>3. Settled(h6) = h6 /\ (h6 = "dragging" => drag)
        BY <1>9, <3>2, FollowTable
      <3> QED BY <1>5, <1>7, <1>10, <1>14, <2>3, <3>2, <3>3 DEF Tells
    <2> QED BY <2>2, <2>3
  <1>15. CASE ~ left
    <2>1. ~ after.lbutton /\ ~ after.ldrag /\ ~ c6
      BY <1>5, <1>6, <1>7, <1>9, <1>15
    <2>2. h6 \in {"up", "released"}
      <3>1. CASE m.lbutton
        <4>1. g \in {"down", "dragging"} /\ (~ m.ldrag => g = "down") /\ h1 = g
          BY <1>9, <1>11, <1>15, <3>1 DEF Tells
        <4>2. h2 = "down"
          BY <1>9, <1>11, <1>15, <4>1, FollowTable
        <4>3. h3 = "released"
          BY <1>9, <1>11, <1>15, <3>1, <4>2, FollowTable
        <4> QED BY <1>11, <1>12, <2>1, <4>3, FollowTable
      <3>2. CASE ~ m.lbutton
        <4>1. g = "up" /\ ~ m.ldrag
          BY <3>2 DEF Tells
        <4> QED BY <1>9, <1>11, <1>12, <1>15, <2>1, <3>2, <4>1
      <3> QED BY <3>1, <3>2
    <2>3. Settled(h6) = "up"
      BY <2>2, FollowTable
    <2> QED BY <1>10, <2>1, <2>3 DEF Tells
  <1> QED BY <1>13, <1>14, <1>15

-----------------------------------------------------------------------------
(* The theorems about types and gestures *)

\* The button and the drag flag are not touched by a movement.
LEMMA MovedTells ==
  ASSUME mouse \in MouseState, NEW dx, NEW dy, NEW g, Tells(mouse, g)
  PROVE  Tells(Moved(dx, dy), g)
  <1> DEFINE m == Moved(dx, dy)
             cx == Clamp(mouse.x + dx, VGA_WIDTH)
             cy == Clamp(mouse.y + dy, VGA_HEIGHT)
  <1>1. m = [mouse EXCEPT !.x = cx, !.y = cy]
    BY DEF Moved
  <1> HIDE DEF m, cx, cy
  <1>2. m.lbutton = mouse.lbutton /\ m.ldrag = mouse.ldrag
    BY <1>1 DEF MouseState
  <1>3. Tells(m, g)
    BY <1>2 DEF Tells
  <1> QED BY <1>3 DEF m

\* The mouse goes on to the next part.
LEMMA NextPartType ==
  ASSUME part \in 0 .. 2, packet \in 0 .. MaxPackets, packet < MaxPackets, NextPart
  PROVE  /\ part' \in 0 .. 2 /\ packet' \in 0 .. MaxPackets
         /\ part = 0 => part' = 1 /\ packet' = packet
         /\ part = 1 => part' = 2 /\ packet' = packet
         /\ part = 2 => part' = 0 /\ packet' = packet + 1
  <1>0. MaxPackets \in Nat
    BY InputAssumption
  <1>1. part = 0 \/ part = 1 \/ part = 2
    OBVIOUS
  <1>2. CASE part = 0
    BY <1>0, <1>2 DEF NextPart
  <1>3. CASE part = 1
    BY <1>0, <1>3 DEF NextPart
  <1>4. CASE part = 2
    BY <1>0, <1>4 DEF NextPart
  <1> QED BY <1>1, <1>2, <1>3, <1>4

\* A completed packet leaves types and gestures in order.
LEMMA DecodeType ==
  ASSUME TypeOK, GestureInv, NEW b0 \in Byte, NEW b1 \in Byte, NEW b2 \in Byte,
         Decode(b0, b1, b2)
  PROVE  /\ mouse_buffer' = <<>> /\ mouse' \in MouseState
         /\ whole' \in Nat /\ mixed' \in Nat /\ Tells(mouse', gesture')
  <1> DEFINE m == Moved(DeltaX(b0.byte, b1.byte), DeltaY(b0.byte, b2.byte))
             left == Bit(b0.byte, 0)
             own == /\ b0.packet = b1.packet /\ b1.packet = b2.packet
                    /\ <<b0.part, b1.part, b2.part>> = <<0, 1, 2>>
  <1>1. /\ mouse_buffer' = <<>>
        /\ whole' = whole + (IF own THEN 1 ELSE 0)
        /\ mixed' = mixed + (IF own THEN 0 ELSE 1)
        /\ \E due \in BOOLEAN :
             /\ mouse' = AfterPacket(m, left, due)
             /\ gesture' = Gesture(gesture, PacketEvents(m, left, due))
    BY DEF Decode
  <1>2. m \in MouseState
    BY DeltaType, MovedType DEF TypeOK
  <1>3. Tells(m, gesture)
    BY MovedTells DEF GestureInv, TypeOK
  <1>4. left \in BOOLEAN
    BY DEF Bit
  <1>5. whole' \in Nat /\ mixed' \in Nat
    <2> HIDE DEF own
    <2> QED BY <1>1 DEF TypeOK
  <1> HIDE DEF m, left
  <1>6. PICK due \in BOOLEAN : /\ mouse' = AfterPacket(m, left, due)
                               /\ gesture' = Gesture(gesture, PacketEvents(m, left, due))
    BY <1>1
  <1>7. AfterPacket(m, left, due) \in MouseState
    BY <1>2, <1>4, AfterPacketType
  <1>8. Tells(AfterPacket(m, left, due), Gesture(gesture, PacketEvents(m, left, due)))
    BY <1>2, <1>3, <1>4, GestureStep
  <1> QED BY <1>1, <1>5, <1>6, <1>7, <1>8

\* The byte that the mouse sends.
LEMMA ByteType ==
  ASSUME TypeOK, NEW byte \in Headers \cup Motion
  PROVE  [byte |-> byte, packet |-> packet, part |-> part] \in Byte
  <1>1. byte \in 0 .. 255
    BY InputAssumption
  <1> QED BY <1>1 DEF Byte, TypeOK

\* A byte of the mouse keeps types, and the gesture that of the mouse.
LEMMA MouseByteType ==
  ASSUME TypeOK, GestureInv, NEW byte \in Headers \cup Motion, MouseByte(byte)
  PROVE  TypeOK' /\ GestureInv'
  <1> DEFINE b == [byte |-> byte, packet |-> packet, part |-> part]
  <1>1. b \in Byte
    BY ByteType
  <1>2. Sends(byte) /\ MousePacket(b) /\ UNCHANGED <<keyboardVars, lost>>
    BY DEF MouseByte
  <1> HIDE DEF b
  <1>3. part' \in 0 .. 2 /\ packet' \in 0 .. MaxPackets
    BY <1>2, NextPartType DEF Sends, TypeOK
  <1>4. overflows' \in Nat
    <2> DEFINE c == part = 0 /\ ~ IsHeader(byte)
    <2>1. overflows' = overflows + (IF c THEN 1 ELSE 0)
      BY <1>2 DEF Sends
    <2> HIDE DEF c
    <2> QED BY <2>1 DEF TypeOK
  <1>5. /\ mouse_buffer' \in Seq(Byte) /\ Len(mouse_buffer') <= 2
        /\ mouse' \in MouseState /\ whole' \in Nat /\ mixed' \in Nat
        /\ Tells(mouse', gesture')
    <2>1. Kept(b) \/ Shifted(b) \/ Completed(b)
      BY <1>1, <1>2, PacketCases
    <2>2. CASE Kept(b)
      <3>1. /\ mouse_buffer \in Seq(Byte) /\ Len(mouse_buffer) < 2
            /\ mouse_buffer' = Append(mouse_buffer, b)
        BY <2>2 DEF Kept, TypeOK
      <3>2. mouse_buffer' \in Seq(Byte) /\ Len(mouse_buffer') <= 2
        BY <1>1, <3>1
      <3> QED BY <2>2, <3>2 DEF Kept, TypeOK, GestureInv
    <2>3. CASE Shifted(b)
      <3>1. mouse_buffer \in Seq(Byte) /\ Len(mouse_buffer) = 2
        BY <2>3 DEF Shifted, TypeOK
      <3>2. mouse_buffer[2] \in Byte
        BY <3>1
      <3>3. mouse_buffer' = <<mouse_buffer[2], b>>
        BY <2>3 DEF Shifted
      <3>4. mouse_buffer' \in Seq(Byte) /\ Len(mouse_buffer') <= 2
        BY <1>1, <3>2, <3>3
      <3> QED BY <2>3, <3>4 DEF Shifted, TypeOK, GestureInv
    <2>4. CASE Completed(b)
      <3>1. mouse_buffer \in Seq(Byte) /\ Len(mouse_buffer) = 2
        BY <2>4 DEF Completed, TypeOK
      <3>2. mouse_buffer[1] \in Byte /\ mouse_buffer[2] \in Byte
        BY <3>1
      <3>3. /\ mouse_buffer' = <<>> /\ mouse' \in MouseState
            /\ whole' \in Nat /\ mixed' \in Nat /\ Tells(mouse', gesture')
        BY <1>1, <2>4, <3>2, DecodeType DEF Completed
      <3>4. mouse_buffer' \in Seq(Byte) /\ Len(mouse_buffer') <= 2
        BY <3>3
      <3> QED BY <3>3, <3>4
    <2> QED BY <2>1, <2>2, <2>3, <2>4
  <1>6. gesture' \in {"up", "down", "dragging", "error"}
    <2>1. mouse'.lbutton \in BOOLEAN /\ mouse'.ldrag \in BOOLEAN
      BY <1>5 DEF MouseState
    <2> QED BY <1>5, <2>1 DEF Tells
  <1> QED BY <1>2, <1>3, <1>4, <1>5, <1>6 DEF TypeOK, GestureInv, keyboardVars

\* What the event thread does with a move leaves the button alone.
LEMMA MoveHandledType ==
  ASSUME TypeOK, GestureInv, MoveHandled
  PROVE  TypeOK' /\ GestureInv'
  <1>1. mouse' = [mouse EXCEPT !.old_x = mouse.x, !.old_y = mouse.y]
    BY DEF MoveHandled
  <1>2. mouse \in MouseState
    BY DEF TypeOK
  <1>3. mouse' \in MouseState /\ mouse'.lbutton = mouse.lbutton /\ mouse'.ldrag = mouse.ldrag
    BY <1>1, <1>2 DEF MouseState
  <1>4. gesture' = gesture
    BY DEF MoveHandled, historyVars
  <1>5. GestureInv'
    BY <1>3, <1>4 DEF GestureInv, Tells
  <1> QED BY <1>3, <1>5 DEF MoveHandled, TypeOK, keyboardVars, historyVars

\* Types and gestures survive every step.
LEMMA TypeStep ==
  TypeOK /\ GestureInv /\ [Next]_vars => TypeOK' /\ GestureInv'
  <1> SUFFICES ASSUME TypeOK, GestureInv, [Next]_vars
               PROVE  TypeOK' /\ GestureInv'
    OBVIOUS
  <1>1. CASE \E byte \in Headers \cup Motion : MouseByte(byte)
    BY <1>1, MouseByteType
  <1>2. CASE LoseByte
    <2>1. part' \in 0 .. 2 /\ packet' \in 0 .. MaxPackets
      BY <1>2, NextPartType DEF LoseByte, TypeOK
    <2>2. lost' \in 0 .. MaxLost
      BY <1>2, InputAssumption DEF LoseByte, TypeOK
    <2>3. UNCHANGED <<mouse_buffer, mouse, shift, extended, caps, repeats, keys, whole, mixed,
                      overflows, gesture>>
      BY <1>2 DEF LoseByte, decoderVars, keyboardVars
    <2> QED BY <2>1, <2>2, <2>3 DEF TypeOK, GestureInv
  <1>3. CASE MoveHandled
    BY <1>3, MoveHandledType
  <1>4. CASE \E code \in Keys : Key(code) \/ Repeat(code)
    <2>1. PICK code \in Keys : Key(code) \/ Repeat(code)
      BY <1>4
    <2>2. UNCHANGED <<mouse_buffer, mouse, packet, part, whole, mixed, lost, overflows, gesture>>
      BY <2>1 DEF Key, Repeat, decoderVars, historyVars
    <2>3. PICK c, ext : ext \in BOOLEAN /\ KeyboardPacket(c, ext)
      <3> DEFINE e == extended \/ code \in EXTENDED_KEYS
      <3>1. e \in BOOLEAN /\ \E c : KeyboardPacket(c, e)
        BY <2>1 DEF Key, Repeat
      <3> HIDE DEF e
      <3> QED BY <3>1
    <2>4. shift' \in BOOLEAN /\ extended' \in BOOLEAN
      <3>1. shift' = (IF ~ ext /\ Toggles(c) THEN ~ shift ELSE shift) /\ extended' = ext
        BY <2>3 DEF KeyboardPacket
      <3>2. shift \in BOOLEAN
        BY DEF TypeOK
      <3>3. shift' \in BOOLEAN
        BY <3>1, <3>2, Zenon
      <3>4. extended' \in BOOLEAN
        BY <3>1, <2>3, Zenon
      <3> QED BY <3>3, <3>4
    <2>5. keys' \in 0 .. MaxKeys
      BY <2>1, InputAssumption DEF Key, Repeat, TypeOK
    <2>6. caps' \in Nat /\ repeats' \in Nat
      <3> DEFINE c1 == code = CAPSLOCK /\ code \notin held
                 c2 == Toggles(code)
      <3>1. \/ caps' = caps + (IF c1 THEN 1 ELSE 0) /\ repeats' = repeats
            \/ caps' = caps /\ repeats' = repeats + (IF c2 THEN 1 ELSE 0)
        BY <2>1 DEF Key, Repeat
      <3> HIDE DEF c1, c2
      <3> QED BY <3>1 DEF TypeOK
    <2> QED BY <2>2, <2>4, <2>5, <2>6 DEF TypeOK, GestureInv
  <1>5. CASE UNCHANGED vars
    <2>1. UNCHANGED <<mouse_buffer, mouse, shift, extended, packet, part, caps, repeats, keys,
                      whole, mixed, lost, overflows, gesture>>
      BY <1>5 DEF vars, decoderVars, keyboardVars, historyVars
    <2> QED BY <2>1 DEF TypeOK, GestureInv
  <1> QED BY <1>1, <1>2, <1>3, <1>4, <1>5 DEF Next

\* They hold at the start.
LEMMA TypeInit ==
  Init => TypeOK /\ GestureInv
  <1> SUFFICES ASSUME Init PROVE TypeOK /\ GestureInv
    OBVIOUS
  <1>1. mouse \in MouseState /\ mouse.lbutton = FALSE /\ mouse.ldrag = FALSE
    <2>1. VGA_WIDTH \div 4 \in 0 .. VGA_WIDTH - 1 /\ VGA_HEIGHT \div 4 \in 0 .. VGA_HEIGHT - 1
      BY ScreenAssumption
    <2>2. 0 \in 0 .. VGA_WIDTH - 1 /\ 0 \in 0 .. VGA_HEIGHT - 1
      BY ScreenAssumption
    <2> QED BY <2>1, <2>2 DEF Init, InitialMouse, MouseState
  <1>2. mouse_buffer \in Seq(Byte) /\ Len(mouse_buffer) <= 2
    BY DEF Init
  <1>3. gesture = "up"
    BY DEF Init
  <1>4. GestureInv
    BY <1>1, <1>3 DEF GestureInv, Tells
  <1>5. /\ shift \in BOOLEAN /\ extended \in BOOLEAN
        /\ packet \in 0 .. MaxPackets /\ part \in 0 .. 2
        /\ caps \in Nat /\ repeats \in Nat /\ keys \in 0 .. MaxKeys
        /\ whole \in Nat /\ mixed \in Nat /\ lost \in 0 .. MaxLost /\ overflows \in Nat
    <2>1. 0 \in 0 .. MaxPackets /\ 0 \in 0 .. MaxKeys /\ 0 \in 0 .. MaxLost
      BY InputAssumption
    <2>2. shift \in BOOLEAN /\ extended \in BOOLEAN
      BY DEF Init
    <2>3. packet = 0 /\ part = 0 /\ caps = 0 /\ repeats = 0 /\ keys = 0 /\ whole = 0 /\ mixed = 0 /\ lost = 0
          /\ overflows = 0
      BY DEF Init
    <2> QED BY <2>1, <2>2, <2>3
  <1> QED BY <1>1, <1>2, <1>3, <1>4, <1>5 DEF TypeOK

\* Every value keeps its type whatever bytes and keys arrive: the buffer never
\* holds more than two bytes between interrupts, and the pointer, which indexes
\* the pick buffer, never leaves the screen.
THEOREM InputTypes == Spec => []TypeOK
  <1>1. Spec => [](TypeOK /\ GestureInv)
    BY TypeInit, TypeStep, PTL DEF Spec
  <1> QED BY <1>1, PTL

\* The events of the left button that mouse_packet() posts are well formed, for all streams of
\* bytes: lost bytes, overflows and packets put together from two included.
THEOREM Gestures == Spec => []GesturesWellFormed
  <1>1. Spec => [](TypeOK /\ GestureInv)
    BY TypeInit, TypeStep, PTL DEF Spec
  <1>2. TypeOK /\ GestureInv => GesturesWellFormed
    <2> SUFFICES ASSUME TypeOK, GestureInv PROVE gesture # "error"
      BY DEF GesturesWellFormed
    <2>1. mouse.lbutton \in BOOLEAN /\ mouse.ldrag \in BOOLEAN
      BY DEF TypeOK, MouseState
    <2> QED BY <2>1 DEF GestureInv, Tells
  <1> QED BY <1>1, <1>2, PTL

-----------------------------------------------------------------------------
(* The keyboard *)

\* How many shift keys are down, caps lock presses, and repeated codes of either.
ShiftCount == Cardinality(held \cap SHIFTKEYS) + caps + repeats

Odd(n) == n % 2 = 1

\* One more, or one less, changes the parity.
LEMMA ParityFlips ==
  ASSUME NEW n \in Nat
  PROVE  Odd(n + 1) = ~ Odd(n)
  <1>1. n % 2 = 0 \/ n % 2 = 1
    OBVIOUS
  <1>2. CASE n % 2 = 0
    <2>1. (n + 1) % 2 = 1
      BY <1>2
    <2> QED BY <1>2, <2>1 DEF Odd
  <1>3. CASE n % 2 = 1
    <2>1. (n + 1) % 2 = 0
      BY <1>3
    <2> QED BY <1>3, <2>1 DEF Odd
  <1> QED BY <1>1, <1>2, <1>3

\* There are two shift keys, so that the number of those down is a number.
LEMMA ShiftKeysFinite ==
  IsFiniteSet(held \cap SHIFTKEYS) /\ Cardinality(held \cap SHIFTKEYS) \in Nat
  <1>1. IsFiniteSet(SHIFTKEYS)
    <2>1. IsFiniteSet({42}) /\ IsFiniteSet({54})
      BY FS_Singleton
    <2>2. SHIFTKEYS = {42} \cup {54}
      BY DEF SHIFTKEYS
    <2> QED BY <2>1, <2>2, FS_Union
  <1>2. IsFiniteSet(held \cap SHIFTKEYS)
    BY <1>1, FS_Subset
  <1> QED BY <1>2, FS_CardinalityType

\* A scan code toggles `shift` when it changes the count, which it does by one.
LEMMA KeyToggles ==
  ASSUME NEW code \in Keys, Key(code), caps \in Nat, repeats \in Nat
  PROVE  LET c == IF code \in held THEN code + RELEASED ELSE code IN
         Odd(ShiftCount') = IF Toggles(c) THEN ~ Odd(ShiftCount) ELSE Odd(ShiftCount)
  <1> DEFINE c == IF code \in held THEN code + RELEASED ELSE code
             down == held \cap SHIFTKEYS
             n == Cardinality(down)
  <1>1. code \in Int /\ 0 <= code /\ code <= 127
    BY InputAssumption
  <1>2. IsFiniteSet(down) /\ n \in Nat
    BY ShiftKeysFinite
  <1>3. /\ held' = IF code \in held THEN held \ {code} ELSE held \cup {code}
        /\ caps' = caps + (IF code = CAPSLOCK /\ code \notin held THEN 1 ELSE 0)
        /\ repeats' = repeats
    BY DEF Key
  <1>4. /\ ShiftCount = n + caps + repeats
        /\ ShiftCount' = Cardinality((held \cap SHIFTKEYS)') + caps' + repeats'
    BY DEF ShiftCount
  <1>5. SHIFTKEYS' = SHIFTKEYS
    BY DEF SHIFTKEYS
  <1>6. CASE code \in SHIFTKEYS
    <2>1. Toggles(c) /\ code # CAPSLOCK
      BY <1>1, <1>6 DEF Toggles, SHIFTKEYS, RELEASED, CAPSLOCK
    <2>2. caps' = caps
      BY <1>3, <2>1
    <2>3. CASE code \in held
      <3>1. held' \cap SHIFTKEYS = down \ {code} /\ code \in down
        BY <1>3, <1>6, <2>3
      <3>2. Cardinality(held' \cap SHIFTKEYS) = n - 1 /\ n - 1 \in Nat
        <4> HIDE DEF down
        <4>1. IsFiniteSet(down \ {code}) /\ Cardinality(down \ {code}) = n - 1
          BY <1>2, <3>1, FS_RemoveElement
        <4>2. Cardinality(down \ {code}) \in Nat
          BY <4>1, FS_CardinalityType
        <4> QED BY <3>1, <4>1, <4>2
      <3> HIDE DEF n, down
      <3>3. ShiftCount' \in Nat /\ ShiftCount = ShiftCount' + 1
        BY <1>2, <1>3, <1>4, <1>5, <2>2, <3>2
      <3>4. Odd(ShiftCount) = ~ Odd(ShiftCount')
        BY <3>3, ParityFlips
      <3>5. Odd(ShiftCount) \in BOOLEAN /\ Odd(ShiftCount') \in BOOLEAN
        BY DEF Odd
      <3> QED BY <2>1, <3>4, <3>5, Zenon
    <2>4. CASE code \notin held
      <3>1. held' \cap SHIFTKEYS = down \cup {code} /\ code \notin down
        BY <1>3, <1>6, <2>4
      <3>2. Cardinality(held' \cap SHIFTKEYS) = n + 1
        <4> HIDE DEF down
        <4> QED BY <1>2, <3>1, FS_AddElement
      <3> HIDE DEF n, down
      <3>3. ShiftCount \in Nat /\ ShiftCount' = ShiftCount + 1
        BY <1>2, <1>3, <1>4, <1>5, <2>2, <3>2
      <3> QED BY <2>1, <3>3, ParityFlips
    <2> QED BY <2>3, <2>4
  <1>7. CASE code \notin SHIFTKEYS
    <2>1. held' \cap SHIFTKEYS = down
      BY <1>3, <1>7
    <2>2. CASE code = CAPSLOCK /\ code \notin held
      <3>1. Toggles(c) /\ caps' = caps + 1
        BY <1>3, <2>2 DEF Toggles, CAPSLOCK
      <3>2. Cardinality(held' \cap SHIFTKEYS) = n
        BY <2>1
      <3> HIDE DEF n, down
      <3>3. ShiftCount \in Nat /\ ShiftCount' = ShiftCount + 1
        BY <1>2, <1>3, <1>4, <1>5, <3>1, <3>2
      <3> QED BY <3>1, <3>3, ParityFlips
    <2>3. CASE ~(code = CAPSLOCK /\ code \notin held)
      <3>1. ~ Toggles(c)
        BY <1>1, <1>7, <2>3 DEF Toggles, SHIFTKEYS, RELEASED, CAPSLOCK
      <3>2. caps' = caps
        BY <1>3, <2>3
      <3> HIDE DEF down
      <3>3. ShiftCount' = ShiftCount
        BY <1>3, <1>4, <1>5, <2>1, <3>2
      <3> QED BY <3>1, <3>3
    <2> QED BY <2>2, <2>3
  <1> QED BY <1>6, <1>7

\* So does a code that is repeated.
LEMMA RepeatToggles ==
  ASSUME NEW code, Repeat(code), caps \in Nat, repeats \in Nat
  PROVE  Odd(ShiftCount') = IF Toggles(code) THEN ~ Odd(ShiftCount) ELSE Odd(ShiftCount)
  <1>1. PICK n \in Nat : n = Cardinality(held \cap SHIFTKEYS)
    BY ShiftKeysFinite
  <1>2. /\ held' = held /\ caps' = caps
        /\ repeats' = repeats + (IF Toggles(code) THEN 1 ELSE 0)
    BY DEF Repeat
  <1>3. ShiftCount = n + caps + repeats /\ ShiftCount' = n + caps + repeats'
    BY <1>1, <1>2 DEF ShiftCount, SHIFTKEYS
  <1>4. CASE Toggles(code)
    <2>1. ShiftCount \in Nat /\ ShiftCount' = ShiftCount + 1
      BY <1>2, <1>3, <1>4
    <2> QED BY <1>4, <2>1, ParityFlips
  <1>5. CASE ~ Toggles(code)
    <2>1. ShiftCount' = ShiftCount
      BY <1>2, <1>3, <1>5
    <2> QED BY <1>5, <2>1
  <1> QED BY <1>4, <1>5

\* A code that toggles `shift` just when it changes the parity of the count leaves
\* them in agreement, and a letter comes out accordingly.
LEMMA PacketFollows ==
  ASSUME TypeOK, ShiftFollowsKeys, NEW c, NEW ext \in BOOLEAN, extended => ext,
         KeyboardPacket(c, ext),
         Odd(ShiftCount') = IF Toggles(c) THEN ~ Odd(ShiftCount) ELSE Odd(ShiftCount)
  PROVE  ShiftFollowsKeys'
  <1> DEFINE toggled == IF ~ ext /\ Toggles(c) THEN ~ shift ELSE shift
             id == IF c >= RELEASED THEN "KEY_CHAR_UP" ELSE "KEY_CHAR_DOWN"
             event == [id |-> id, data |-> Ascii(c, toggled)]
             has == ~ ext /\ c \in LETTERS \cup OTHER_CHARS
             upper == Odd(ShiftCount)
  <1>1. /\ shift' = toggled /\ extended' = ext
        /\ typed' = When(ext, [id |-> id, data |-> <<c, "raw">>]) \o When(has, event)
    BY DEF KeyboardPacket
  <1>2. upper \in BOOLEAN /\ shift \in BOOLEAN
    BY DEF Odd, TypeOK
  <1>3. ~ extended => shift = upper
    BY DEF ShiftFollowsKeys, ShiftCount, Odd
  <1> SUFFICES ASSUME ~ extended'
               PROVE  /\ shift' = Odd(ShiftCount')
                      /\ \A l \in LETTERS, case \in {"upper", "plain"} :
                           typed' # <<>> /\ typed'[1].data = <<l, case>>
                             => Odd(ShiftCount') = (case = "upper")
    BY DEF ShiftFollowsKeys, ShiftCount, Odd
  <1>4. ~ ext /\ ~ extended
    BY <1>1
  <1>5. toggled = IF Toggles(c) THEN ~ shift ELSE shift
    BY <1>4
  <1>6. shift' = Odd(ShiftCount') /\ toggled = Odd(ShiftCount')
    <2> HIDE DEF toggled, upper
    <2>1. shift = upper
      BY <1>3, <1>4
    <2>2. toggled = Odd(ShiftCount')
      BY <1>5, <2>1 DEF upper
    <2> QED BY <1>1, <2>2
  <1>7. typed' = When(has, event)
    <2> HIDE DEF has, event, id
    <2> QED BY <1>1, <1>4 DEF When
  <1>8. ASSUME NEW l \in LETTERS, NEW case \in {"upper", "plain"},
               typed' # <<>>, typed'[1].data = <<l, case>>
        PROVE  Odd(ShiftCount') = (case = "upper")
    <2>1. typed' = <<event>>
      <3> HIDE DEF has, event
      <3> QED BY <1>7, <1>8 DEF When
    <2>2. typed'[1].data = Ascii(c, toggled)
      <3> HIDE DEF id, toggled
      <3> QED BY <2>1
    <2>3. <<l, case>> = <<c, IF toggled /\ c \in LETTERS THEN "upper" ELSE "plain">>
      BY <1>8, <2>2 DEF Ascii
    <2> HIDE DEF toggled
    <2>4. l = c /\ case = IF toggled THEN "upper" ELSE "plain"
      BY <2>3
    <2>5. toggled \in BOOLEAN
      BY <1>6 DEF Odd
    <2>6. toggled <=> case = "upper"
      BY <2>4, <2>5
    <2> QED BY <1>6, <2>5, <2>6
  <1> QED BY <1>6, <1>8

\* The keys and the codes go together in every step.
LEMMA ShiftStep ==
  TypeOK /\ ShiftFollowsKeys /\ [Next]_vars => ShiftFollowsKeys'
  <1> SUFFICES ASSUME TypeOK, ShiftFollowsKeys, [Next]_vars
               PROVE  ShiftFollowsKeys'
    OBVIOUS
  <1>0. caps \in Nat /\ repeats \in Nat
    BY DEF TypeOK
  <1>1. CASE \E code \in Keys : Key(code)
    <2>1. PICK code \in Keys : Key(code)
      BY <1>1
    <2> DEFINE ext == extended \/ code \in EXTENDED_KEYS
    <2>2. PICK c : c = IF code \in held THEN code + RELEASED ELSE code
      OBVIOUS
    <2>3. KeyboardPacket(c, ext) /\ ext \in BOOLEAN /\ (extended => ext)
      BY <2>1, <2>2 DEF Key
    <2>4. Odd(ShiftCount') = IF Toggles(c) THEN ~ Odd(ShiftCount) ELSE Odd(ShiftCount)
      BY <1>0, <2>1, <2>2, KeyToggles
    <2> HIDE DEF ext
    <2> QED BY <2>3, <2>4, PacketFollows
  <1>2. CASE \E code \in Keys : Repeat(code)
    <2>1. PICK code \in Keys : Repeat(code)
      BY <1>2
    <2> DEFINE ext == extended \/ code \in EXTENDED_KEYS
    <2>2. KeyboardPacket(code, ext) /\ ext \in BOOLEAN /\ (extended => ext)
      BY <2>1 DEF Repeat
    <2>3. Odd(ShiftCount') = IF Toggles(code) THEN ~ Odd(ShiftCount) ELSE Odd(ShiftCount)
      BY <1>0, <2>1, RepeatToggles
    <2> HIDE DEF ext
    <2> QED BY <2>2, <2>3, PacketFollows
  <1>3. CASE ~ \E code \in Keys : Key(code) \/ Repeat(code)
    <2>1. UNCHANGED <<shift, extended, typed, held, caps, repeats>>
      BY <1>3 DEF Next, vars, MouseByte, LoseByte, MoveHandled, keyboardVars
    <2> QED BY <2>1 DEF ShiftFollowsKeys, SHIFTKEYS
  <1> QED BY <1>1, <1>2, <1>3

\* `shift` is the parity of the shift keys that are down, the caps lock presses and
\* the codes that these keys repeated while held, for every sequence of presses,
\* repeats and releases, until an extended key is pressed.  In particular it follows
\* the keys as long as none of the three is held long enough to repeat.
THEOREM ShiftToggles == Spec => []ShiftFollowsKeys
  <1>1. Init => ShiftFollowsKeys
    <2> SUFFICES ASSUME Init PROVE ShiftFollowsKeys
      OBVIOUS
    <2>1. held \cap SHIFTKEYS = {} /\ caps = 0 /\ repeats = 0 /\ shift = FALSE /\ typed = <<>>
      BY DEF Init
    <2>2. Cardinality(held \cap SHIFTKEYS) = 0
      BY <2>1, FS_EmptySet
    <2>3. Cardinality(held \cap SHIFTKEYS) + caps + repeats = 0
      BY <2>1, <2>2
    <2>4. ~((Cardinality(held \cap SHIFTKEYS) + caps + repeats) % 2 = 1)
      BY <2>3
    <2> QED BY <2>1, <2>4 DEF ShiftFollowsKeys
  <1>2. Spec => [](TypeOK /\ GestureInv)
    BY TypeInit, TypeStep, PTL DEF Spec
  <1> QED BY <1>1, <1>2, ShiftStep, PTL DEF Spec

-----------------------------------------------------------------------------
(* Getting back in step *)

\* A byte is sent, and the mouse goes on to the next part.
Sent(b) ==
  /\ b \in Byte /\ b.packet = packet /\ b.part = part
  /\ NextPart /\ packet < MaxPackets
  /\ lost' = lost
  /\ (part = 0 /\ ~ IsHeader(b.byte)) => overflows' = overflows + 1
  /\ ~(part = 0 /\ ~ IsHeader(b.byte)) => overflows' = overflows
  /\ ~ lookalike' => ~ lookalike /\ (IsHeader(b.byte) => b.part = 0)

\* That is what a byte of the mouse does besides what mouse_packet() does.
LEMMA MouseByteSends ==
  ASSUME TypeOK, NEW byte \in Headers \cup Motion, MouseByte(byte)
  PROVE  \E b \in Byte : Sent(b) /\ MousePacket(b)
  <1> DEFINE b == [byte |-> byte, packet |-> packet, part |-> part]
  <1>1. b \in Byte
    BY ByteType
  <1>2. b.byte = byte /\ b.packet = packet /\ b.part = part
    OBVIOUS
  <1>3. Sends(byte) /\ MousePacket(b) /\ lost' = lost
    BY DEF MouseByte
  <1> HIDE DEF b
  <1> DEFINE c == part = 0 /\ ~ IsHeader(byte)
  <1>4. overflows' = overflows + (IF c THEN 1 ELSE 0)
    BY <1>3 DEF Sends
  <1>5. /\ c => overflows' = overflows + 1
        /\ ~ c => overflows' = overflows
    <2> HIDE DEF c
    <2> QED BY <1>4 DEF TypeOK
  <1>6. ~ lookalike' => ~ lookalike /\ (IsHeader(byte) => part = 0)
    BY <1>3 DEF Sends
  <1>7. Sent(b)
    BY <1>1, <1>2, <1>3, <1>5, <1>6 DEF Sent, Sends
  <1> QED BY <1>1, <1>3, <1>7

\* A gap is there or not.
LEMMA GapValue ==
  ASSUME NEW b, NEW p, NEW k
  PROVE  Gap(b, p, k) \in {0, 1} /\ (Gap(b, p, k) = 0 => Precedes(b, p, k))
  BY DEF Gap

\* No gap follows the byte that was just sent.
LEMMA NoGapAfter ==
  ASSUME NEW b, Sent(b)
  PROVE  Gap(b, packet', part') = 0
  <1>1. Precedes(b, packet', part')
    BY DEF Precedes, Sent, NextPart
  <1> QED BY <1>1 DEF Gap

\* The gaps by the length of the buffer, in this state and in the next.
LEMMA GapsByLength ==
  /\ Len(mouse_buffer) = 0 => Gaps = 0
  /\ Len(mouse_buffer) = 1 => Gaps = Gap(mouse_buffer[1], packet, part)
  /\ Len(mouse_buffer) = 2 =>
       Gaps = Gap(mouse_buffer[1], mouse_buffer[2].packet, mouse_buffer[2].part)
              + Gap(mouse_buffer[2], packet, part)
  BY DEF Gaps

\* The same after the step.
LEMMA GapsByLengthNext ==
  /\ Len(mouse_buffer') = 0 => Gaps' = 0
  /\ Len(mouse_buffer') = 1 => Gaps' = Gap(mouse_buffer'[1], packet', part')
  /\ Len(mouse_buffer') = 2 =>
       Gaps' = Gap(mouse_buffer'[1], mouse_buffer'[2].packet, mouse_buffer'[2].part)
               + Gap(mouse_buffer'[2], packet', part')
  BY DEF Gaps

\* There are at most as many gaps as bytes.
LEMMA GapsType ==
  ASSUME mouse_buffer \in Seq(Byte), Len(mouse_buffer) <= 2
  PROVE  Gaps \in 0 .. 2
  <1> DEFINE n == Len(mouse_buffer)
             g1 == Gap(mouse_buffer[1], packet, part)
             g2 == Gap(mouse_buffer[1], mouse_buffer[2].packet, mouse_buffer[2].part)
             g3 == Gap(mouse_buffer[2], packet, part)
  <1>1. n \in Nat /\ n <= 2
    OBVIOUS
  <1>2. g1 \in {0, 1} /\ g2 \in {0, 1} /\ g3 \in {0, 1}
    BY GapValue
  <1>3. (n = 0 => Gaps = 0) /\ (n = 1 => Gaps = g1) /\ (n = 2 => Gaps = g2 + g3)
    BY GapsByLength
  <1> HIDE DEF n, g1, g2, g3
  <1> QED BY <1>1, <1>2, <1>3

\* What a byte does to the gaps and to the fate of the packet that is being sent.
LEMMA DoomedValue ==
  Doomed \in {0, 1} /\ (Doomed = 0 <=> Alive) /\ (part = 0 => Alive)
  BY DEF Doomed, Alive

\* The same after the step.
LEMMA DoomedValueNext ==
  Doomed' \in {0, 1} /\ (Doomed' = 0 <=> Alive') /\ (part' = 0 => Alive')
  BY DEF Doomed, Alive

\* While no packet is completed no gap is added; a packet whose first byte is a
\* header lives on, and one whose last byte completes nothing was doomed.
Continues(b) ==
  /\ Gaps' \in 0 .. 2 /\ Gaps' <= Gaps
  /\ part = 0 /\ IsHeader(b.byte) => Doomed' = 0
  /\ part = 1 /\ Doomed = 0 => Doomed' = 0
  /\ part = 2 => Doomed = 1 /\ Doomed' = 0

\* A byte that is kept.
LEMMA KeptContinues ==
  ASSUME TypeOK, NEW b, Sent(b), Kept(b)
  PROVE  /\ Continues(b) /\ mouse_buffer' \in Seq(Byte)
         /\ Len(mouse_buffer') = Len(mouse_buffer) + 1
         /\ mouse_buffer'[Len(mouse_buffer) + 1] = b
         /\ \A k \in 1 .. Len(mouse_buffer) : mouse_buffer'[k] = mouse_buffer[k]
  <1> DEFINE n == Len(mouse_buffer)
             q == mouse_buffer'
  <1>1. mouse_buffer \in Seq(Byte) /\ n \in Nat /\ n < 2 /\ b \in Byte
    BY DEF TypeOK, Kept, Sent
  <1>2. /\ q \in Seq(Byte) /\ Len(q) = n + 1 /\ q[n + 1] = b
        /\ \A k \in 1 .. n : q[k] = mouse_buffer[k]
    BY <1>1 DEF Kept
  <1>3. b.packet = packet /\ b.part = part
    BY DEF Sent
  <1>4. Gap(b, packet', part') = 0
    BY NoGapAfter
  <1>5. /\ part' \in 0 .. 2
        /\ part = 0 => part' = 1 /\ packet' = packet
        /\ part = 1 => part' = 2 /\ packet' = packet
        /\ part = 2 => part' = 0
    BY NextPartType DEF Sent, TypeOK
  <1>6. Gaps' = Gaps /\ Gaps \in 0 .. 2
    <2>1. Gaps \in 0 .. 2
      BY GapsType DEF TypeOK
    <2>2. n = 0 \/ n = 1
      <3> HIDE DEF n, q
      <3> QED BY <1>1
    <2>3. CASE n = 0
      <3>1. Len(q) = 1 /\ q[1] = b
        BY <1>2, <2>3
      <3> QED BY <1>4, <2>1, <2>3, <3>1, GapsByLength, GapsByLengthNext
    <2>4. CASE n = 1
      <3>1. Len(q) = 2 /\ q[1] = mouse_buffer[1] /\ q[2] = b
        <4> HIDE DEF q
        <4> QED BY <1>2, <2>4
      <3> DEFINE e == Gap(mouse_buffer[1], packet, part)
      <3>2. e \in {0, 1}
        BY GapValue
      <3>3. Gaps = e /\ Gaps' = e + 0
        BY <1>3, <1>4, <2>4, <3>1, GapsByLength, GapsByLengthNext
      <3> HIDE DEF e
      <3> QED BY <2>1, <3>2, <3>3
    <2> QED BY <2>2, <2>3, <2>4
  <1>7. ASSUME part = 0, IsHeader(b.byte) PROVE Doomed' = 0
    <2>1. Len(q) > 0 /\ q[Len(q)] = b
      <3> HIDE DEF n, q
      <3> QED BY <1>1, <1>2
    <2>2. Alive'
      BY <1>3, <1>5, <1>7, <2>1 DEF Alive, Current
    <2> QED BY <2>2, DoomedValueNext
  <1>8. ASSUME part = 1, Doomed = 0 PROVE Doomed' = 0
    <2>1. Alive
      BY <1>8, DoomedValue
    <2>2. Len(mouse_buffer) > 0 /\ Current(mouse_buffer[n], 0) /\ IsHeader(mouse_buffer[n].byte)
      BY <1>8, <2>1 DEF Alive
    <2>3. n = 1
      <3>1. n > 0
        BY <2>2
      <3> HIDE DEF n, q
      <3> QED BY <1>1, <3>1
    <2>4. Len(q) = 2 /\ q[1] = mouse_buffer[1] /\ q[2] = b
      <3> HIDE DEF q
      <3> QED BY <1>2, <2>3
    <2>5. Alive'
      BY <1>3, <1>5, <1>8, <2>2, <2>3, <2>4 DEF Alive, Current
    <2> QED BY <2>5, DoomedValueNext
  <1>9. ASSUME part = 2 PROVE Doomed = 1 /\ Doomed' = 0
    <2>1. ~ Alive
      BY <1>1, <1>9 DEF Alive
    <2>2. Alive'
      BY <1>5, <1>9, DoomedValueNext
    <2> QED BY <2>1, <2>2, DoomedValue, DoomedValueNext
  <1>10. Gaps' \in 0 .. 2 /\ Gaps' <= Gaps
    BY <1>6
  <1>11. Continues(b)
    BY <1>7, <1>8, <1>9, <1>10 DEF Continues
  <1> QED BY <1>2, <1>11

\* A byte for which the oldest one is given up.
LEMMA ShiftedContinues ==
  ASSUME TypeOK, NEW b, Sent(b), Shifted(b)
  PROVE  /\ Continues(b) /\ Len(mouse_buffer') = 2
         /\ mouse_buffer'[1] = mouse_buffer[2] /\ mouse_buffer'[2] = b
  <1> DEFINE q == mouse_buffer'
  <1>1. mouse_buffer \in Seq(Byte) /\ Len(mouse_buffer) = 2 /\ ~ IsHeader(mouse_buffer[1].byte)
    BY DEF TypeOK, Shifted
  <1>2. Len(q) = 2 /\ q[1] = mouse_buffer[2] /\ q[2] = b
    BY DEF Shifted
  <1>3. b.packet = packet /\ b.part = part
    BY DEF Sent
  <1>4. Gap(b, packet', part') = 0
    BY NoGapAfter
  <1>5. /\ part' \in 0 .. 2
        /\ part = 0 => part' = 1 /\ packet' = packet
        /\ part = 1 => part' = 2 /\ packet' = packet
        /\ part = 2 => part' = 0
    BY NextPartType DEF Sent, TypeOK
  <1>6. Gaps' \in 0 .. 2 /\ Gaps' <= Gaps
    <2> DEFINE e == Gap(mouse_buffer[2], packet, part)
               f == Gap(mouse_buffer[1], mouse_buffer[2].packet, mouse_buffer[2].part)
    <2>1. e \in {0, 1} /\ f \in {0, 1}
      BY GapValue
    <2>2. Gaps = f + e /\ Gaps' = e + 0
      BY <1>1, <1>2, <1>3, <1>4, GapsByLength, GapsByLengthNext
    <2> HIDE DEF e, f
    <2> QED BY <2>1, <2>2
  <1>7. ASSUME part = 0, IsHeader(b.byte) PROVE Doomed' = 0
    <2>1. Alive'
      BY <1>2, <1>3, <1>5, <1>7 DEF Alive, Current
    <2> QED BY <2>1, DoomedValueNext
  <1>8. ASSUME part = 1, Doomed = 0 PROVE Doomed' = 0
    <2>1. Alive
      BY <1>8, DoomedValue
    <2>2. Current(mouse_buffer[2], 0) /\ IsHeader(mouse_buffer[2].byte)
      BY <1>1, <1>8, <2>1 DEF Alive
    <2>3. Alive'
      BY <1>2, <1>3, <1>5, <1>8, <2>2 DEF Alive, Current
    <2> QED BY <2>3, DoomedValueNext
  <1>9. ASSUME part = 2 PROVE Doomed = 1 /\ Doomed' = 0
    <2>1. ~ Alive
      BY <1>1, <1>9 DEF Alive
    <2>2. Alive'
      BY <1>5, <1>9, DoomedValueNext
    <2> QED BY <2>1, <2>2, DoomedValue, DoomedValueNext
  <1>10. Continues(b)
    BY <1>6, <1>7, <1>8, <1>9 DEF Continues
  <1> QED BY <1>2, <1>10

\* The arithmetic of both: the packet's fate pays for the packet that ends.
LEMMA ContinuesAccounts ==
  ASSUME TypeOK, NEW b, Sent(b), Continues(b), UNCHANGED <<whole, mixed>>, Accounted
  PROVE  /\ mixed' + Gaps' <= lost'
         /\ (packet' - whole') + Doomed' + Gaps' <= 2 * lost' + overflows'
  <1>1. PICK G \in Int, G2 \in Int, D \in Int, D2 \in Int :
          G = Gaps /\ G2 = Gaps' /\ D = Doomed /\ D2 = Doomed'
    <2>1. Gaps \in Int /\ Gaps' \in Int
      BY GapsType DEF TypeOK, Continues
    <2>2. Doomed \in Int /\ Doomed' \in Int
      BY DoomedValue, DoomedValueNext
    <2> QED BY <2>1, <2>2
  <1>2. PICK P \in Int, W \in Int, M \in Int, L \in Int, O \in Int :
          P = packet /\ W = whole /\ M = mixed /\ L = lost /\ O = overflows
    BY InputAssumption DEF TypeOK
  <1>3. G2 <= G /\ D >= 0 /\ D2 <= 1
    BY <1>1, DoomedValue, DoomedValueNext DEF Continues
  <1>4. M + G <= L /\ (P - W) + D + G <= 2 * L + O
    BY <1>1, <1>2 DEF Accounted
  <1>5. lost' = L /\ mixed' = M /\ whole' = W
    BY <1>2 DEF Sent
  <1>6. M + G2 <= L
    BY <1>3, <1>4
  <1>7. (packet' - whole') + Doomed' + Gaps' <= 2 * lost' + overflows'
    <2>1. /\ part = 0 => packet' = packet
          /\ part = 1 => packet' = packet
          /\ part = 2 => packet' = packet + 1
      BY NextPartType DEF Sent, TypeOK
    <2>2. part = 0 \/ part = 1 \/ part = 2
      BY DEF TypeOK
    <2>3. CASE part = 0
      <3>1. D = 0
        BY <1>1, <2>3, DoomedValue
      <3>2. CASE IsHeader(b.byte)
        <4>1. D2 = 0 /\ overflows' = O /\ packet' = P
          BY <1>1, <1>2, <2>1, <2>3, <3>2 DEF Continues, Sent
        <4>2. (P - W) + D2 + G2 <= 2 * L + O
          BY <1>3, <1>4, <3>1, <4>1
        <4> QED BY <1>1, <1>5, <4>1, <4>2
      <3>3. CASE ~ IsHeader(b.byte)
        <4>1. overflows' = O + 1 /\ packet' = P
          BY <1>2, <2>1, <2>3, <3>3 DEF Sent
        <4>2. (P - W) + D2 + G2 <= 2 * L + (O + 1)
          BY <1>3, <1>4, <3>1
        <4> QED BY <1>1, <1>5, <4>1, <4>2
      <3> QED BY <3>2, <3>3
    <2>4. CASE part = 1
      <3>1. D2 <= D
        BY <1>1, <2>4, DoomedValue, DoomedValueNext DEF Continues
      <3>2. (P - W) + D2 + G2 <= 2 * L + O
        BY <1>3, <1>4, <3>1
      <3>3. overflows' = O /\ packet' = P
        BY <1>2, <2>1, <2>4 DEF Sent
      <3> QED BY <1>1, <1>5, <3>2, <3>3
    <2>5. CASE part = 2
      <3>1. D = 1 /\ D2 = 0
        BY <1>1, <2>5 DEF Continues
      <3>2. ((P + 1) - W) + D2 + G2 <= 2 * L + O
        BY <1>3, <1>4, <3>1
      <3>3. overflows' = O /\ packet' = P + 1
        BY <1>2, <2>1, <2>5 DEF Sent
      <3> QED BY <1>1, <1>5, <3>2, <3>3
    <2> QED BY <2>2, <2>3, <2>4, <2>5
  <1> QED BY <1>1, <1>5, <1>6, <1>7

\* A packet is put together: from its own three bytes, or over a gap.
LEMMA CompletedAccounts ==
  ASSUME TypeOK, NEW b, Sent(b), Completed(b), Accounted
  PROVE  /\ mixed' + Gaps' <= lost'
         /\ (packet' - whole') + Doomed' + Gaps' <= 2 * lost' + overflows'
  <1> DEFINE b0 == mouse_buffer[1]
             b1 == mouse_buffer[2]
             own == /\ b0.packet = b1.packet /\ b1.packet = b.packet
                    /\ <<b0.part, b1.part, b.part>> = <<0, 1, 2>>
             e == Gap(b1, packet, part)
             f == Gap(b0, b1.packet, b1.part)
  <1>1. mouse_buffer \in Seq(Byte) /\ Len(mouse_buffer) = 2 /\ IsHeader(b0.byte)
    BY DEF TypeOK, Completed
  <1>2. /\ mouse_buffer' = <<>>
        /\ whole' = whole + (IF own THEN 1 ELSE 0)
        /\ mixed' = mixed + (IF own THEN 0 ELSE 1)
    BY DEF Completed, Decode
  <1>3. b.packet = packet /\ b.part = part
    BY DEF Sent
  <1>4. b0.part = 0
    BY <1>1 DEF Accounted
  <1>5. e \in {0, 1} /\ f \in {0, 1} /\ Gaps = f + e /\ Gaps' = 0
    <2>1. e \in {0, 1} /\ f \in {0, 1}
      BY GapValue
    <2>2. Gaps = f + e
      BY <1>1, GapsByLength
    <2>3. Len(mouse_buffer') = 0
      BY <1>2
    <2>4. Gaps' = 0
      BY <2>3, GapsByLengthNext
    <2> QED BY <2>1, <2>2, <2>4
  <1>6. b0 \in Byte /\ b1 \in Byte
    <2>1. \A q \in Seq(Byte) : Len(q) = 2 => q[1] \in Byte /\ q[2] \in Byte
      OBVIOUS
    <2> QED BY <1>1, <2>1, Zenon
  <1>7. e = 0 /\ f = 0 => own
    <2> SUFFICES ASSUME e = 0, f = 0 PROVE own
      OBVIOUS
    <2>1. Precedes(b0, b1.packet, b1.part) /\ Precedes(b1, packet, part)
      BY GapValue
    <2> HIDE DEF b0, b1
    <2>2. b1.part = 1 /\ b1.packet = b0.packet
      BY <1>4, <2>1 DEF Precedes
    <2>3. part = 2 /\ packet = b1.packet
      BY <2>1, <2>2 DEF Precedes
    <2> QED BY <1>3, <1>4, <2>2, <2>3
  <1>8. own => part = 2
    <2> HIDE DEF b0, b1
    <2> QED BY <1>3
  <1>9. /\ packet \in Nat /\ whole \in Nat /\ mixed \in Nat /\ lost \in Nat /\ overflows \in Nat
        /\ part \in 0 .. 2
    BY InputAssumption DEF TypeOK
  <1>10. Doomed \in {0, 1} /\ Doomed' \in {0, 1} /\ (part' = 0 => Doomed' = 0)
    BY DoomedValue, DoomedValueNext
  <1>11. /\ part = 0 => packet' = packet
         /\ part = 1 => packet' = packet
         /\ part = 2 => packet' = packet + 1 /\ part' = 0
    BY NextPartType DEF Sent, TypeOK
  <1>12. lost' = lost /\ overflows' \in Nat /\ overflows' >= overflows
    <2> DEFINE h == part = 0 /\ ~ IsHeader(b.byte)
    <2>1. lost' = lost /\ (h => overflows' = overflows + 1) /\ (~ h => overflows' = overflows)
      BY DEF Sent
    <2> HIDE DEF h
    <2> QED BY <1>9, <2>1
  <1>13. mixed + Gaps <= lost /\ (packet - whole) + Doomed + Gaps <= 2 * lost + overflows
    BY DEF Accounted
  <1> HIDE DEF own, e, f
  <1>14. CASE own
    <2>1. whole' = whole + 1 /\ mixed' = mixed /\ packet' = packet + 1 /\ Doomed' = 0
      BY <1>2, <1>8, <1>9, <1>10, <1>11, <1>14
    <2>2. mixed' + Gaps' <= lost'
      BY <1>5, <1>9, <1>12, <1>13, <2>1
    <2>3. packet' - whole' = packet - whole /\ Doomed' + Gaps' = 0
      BY <1>5, <1>9, <2>1
    <2>4. packet - whole <= 2 * lost + overflows
      BY <1>5, <1>9, <1>10, <1>13
    <2>5. (packet' - whole') + Doomed' + Gaps' = packet - whole
      BY <1>5, <1>9, <2>1, <2>3
    <2> QED BY <1>9, <1>12, <2>2, <2>4, <2>5
  <1>15. CASE ~ own
    <2>1. whole' = whole /\ mixed' = mixed + 1 /\ f + e >= 1
      BY <1>2, <1>5, <1>7, <1>9, <1>15
    <2>2. (packet' - whole') + Doomed' <= (packet - whole) + 1
      BY <1>9, <1>10, <1>11, <2>1
    <2> QED BY <1>5, <1>9, <1>10, <1>11, <1>12, <1>13, <2>1, <2>2
  <1> QED BY <1>14, <1>15

\* A byte keeps the accounts as long as no motion byte looks like a header.
LEMMA AccountedStep ==
  ASSUME TypeOK, NEW b, Sent(b), Kept(b) \/ Shifted(b) \/ Completed(b), Accounted, ~ lookalike'
  PROVE  Accounted'
  <1>1. \A k \in 1 .. Len(mouse_buffer) :
          IsHeader(mouse_buffer[k].byte) => mouse_buffer[k].part = 0
    BY DEF Accounted
  <1>2. IsHeader(b.byte) => b.part = 0
    BY DEF Sent
  <1>3. CASE Kept(b)
    <2>1. /\ Continues(b)
          /\ Len(mouse_buffer') = Len(mouse_buffer) + 1
          /\ mouse_buffer'[Len(mouse_buffer) + 1] = b
          /\ \A k \in 1 .. Len(mouse_buffer) : mouse_buffer'[k] = mouse_buffer[k]
      BY <1>3, KeptContinues
    <2>2. Len(mouse_buffer) \in Nat
      BY DEF TypeOK
    <2>3. ASSUME NEW k \in 1 .. Len(mouse_buffer'), IsHeader(mouse_buffer'[k].byte)
          PROVE  mouse_buffer'[k].part = 0
      <3>1. k = Len(mouse_buffer) + 1 \/ k \in 1 .. Len(mouse_buffer)
        BY <2>1, <2>2
      <3>2. CASE k = Len(mouse_buffer) + 1
        BY <1>2, <2>1, <2>3, <3>2
      <3>3. CASE k \in 1 .. Len(mouse_buffer)
        BY <1>1, <2>1, <2>3, <3>3
      <3> QED BY <3>1, <3>2, <3>3
    <2>4. UNCHANGED <<whole, mixed>>
      BY <1>3 DEF Kept
    <2>5. /\ mixed' + Gaps' <= lost'
          /\ (packet' - whole') + Doomed' + Gaps' <= 2 * lost' + overflows'
      BY <2>1, <2>4, ContinuesAccounts
    <2> QED BY <2>3, <2>5 DEF Accounted
  <1>4. CASE Shifted(b)
    <2>1. /\ Continues(b) /\ Len(mouse_buffer') = 2
          /\ mouse_buffer'[1] = mouse_buffer[2] /\ mouse_buffer'[2] = b
      BY <1>4, ShiftedContinues
    <2>2. 2 \in 1 .. Len(mouse_buffer)
      BY <1>4 DEF Shifted
    <2>3. ASSUME NEW k \in 1 .. Len(mouse_buffer'), IsHeader(mouse_buffer'[k].byte)
          PROVE  mouse_buffer'[k].part = 0
      <3>1. k = 1 \/ k = 2
        BY <2>1
      <3> QED BY <1>1, <1>2, <2>1, <2>2, <2>3, <3>1
    <2>4. UNCHANGED <<whole, mixed>>
      BY <1>4 DEF Shifted
    <2>5. /\ mixed' + Gaps' <= lost'
          /\ (packet' - whole') + Doomed' + Gaps' <= 2 * lost' + overflows'
      BY <2>1, <2>4, ContinuesAccounts
    <2> QED BY <2>3, <2>5 DEF Accounted
  <1>5. CASE Completed(b)
    <2>1. mouse_buffer' = <<>>
      BY <1>5 DEF Completed, Decode
    <2>2. 1 .. Len(mouse_buffer') = {}
      BY <2>1
    <2>3. /\ mixed' + Gaps' <= lost'
          /\ (packet' - whole') + Doomed' + Gaps' <= 2 * lost' + overflows'
      BY <1>5, CompletedAccounts
    <2> QED BY <2>2, <2>3 DEF Accounted
  <1> QED BY <1>3, <1>4, <1>5

\* A byte keeps a decoder in step that has lost nothing.
LEMMA AlignedStep ==
  ASSUME TypeOK, NEW b, Sent(b), Kept(b) \/ Shifted(b) \/ Completed(b), Aligned,
         overflows = 0, overflows' = 0
  PROVE  Aligned'
  <1>1. /\ Len(mouse_buffer) = part /\ mixed = 0 /\ whole = packet
        /\ \A k \in 1 .. part : mouse_buffer[k].packet = packet /\ mouse_buffer[k].part = k - 1
        /\ part > 0 => IsHeader(mouse_buffer[1].byte)
    BY DEF Aligned, Current
  <1>2. b.packet = packet /\ b.part = part /\ (part = 0 => IsHeader(b.byte))
    BY DEF Sent
  <1>3. /\ part = 0 => part' = 1 /\ packet' = packet
        /\ part = 1 => part' = 2 /\ packet' = packet
        /\ part = 2 => part' = 0 /\ packet' = packet + 1
    BY NextPartType DEF Sent, TypeOK
  <1>4. part \in 0 .. 2 /\ packet \in Nat
    BY InputAssumption DEF TypeOK
  <1>5. CASE Kept(b)
    <2>1. /\ Len(mouse_buffer') = part + 1
          /\ mouse_buffer'[part + 1] = b
          /\ \A k \in 1 .. part : mouse_buffer'[k] = mouse_buffer[k]
      BY <1>1, <1>5, KeptContinues
    <2>2. Len(mouse_buffer) < 2 /\ mixed' = 0 /\ whole' = packet
      BY <1>1, <1>5 DEF Kept
    <2>3. (part = 0 \/ part = 1) /\ part' = part + 1 /\ packet' = packet
      <3>1. part < 2
        BY <1>1, <2>2
      <3> QED BY <1>3, <1>4, <3>1
    <2>4. ASSUME NEW k \in 1 .. part'
          PROVE  mouse_buffer'[k].packet = packet' /\ mouse_buffer'[k].part = k - 1
      <3>1. k = part + 1 \/ k \in 1 .. part
        BY <2>3
      <3>2. CASE k = part + 1
        BY <1>2, <1>4, <2>1, <2>3, <3>2
      <3>3. CASE k \in 1 .. part
        BY <1>1, <2>1, <2>3, <3>3
      <3> QED BY <3>1, <3>2, <3>3
    <2>5. IsHeader(mouse_buffer'[1].byte)
      <3>1. CASE part = 0
        BY <1>2, <2>1, <3>1
      <3>2. CASE part = 1
        BY <1>1, <2>1, <3>2
      <3> QED BY <2>3, <3>1, <3>2
    <2> QED BY <2>1, <2>2, <2>3, <2>4, <2>5 DEF Aligned, Current
  <1>6. CASE Shifted(b)
    <2>1. part = 2
      BY <1>1, <1>6 DEF Shifted
    <2> QED BY <1>1, <1>6, <2>1 DEF Shifted
  <1>7. CASE Completed(b)
    <2> DEFINE b0 == mouse_buffer[1]
               b1 == mouse_buffer[2]
               own == /\ b0.packet = b1.packet /\ b1.packet = b.packet
                      /\ <<b0.part, b1.part, b.part>> = <<0, 1, 2>>
    <2>1. part = 2
      BY <1>1, <1>7 DEF Completed
    <2>2. /\ mouse_buffer' = <<>>
          /\ whole' = whole + (IF own THEN 1 ELSE 0)
          /\ mixed' = mixed + (IF own THEN 0 ELSE 1)
      BY <1>7 DEF Completed, Decode
    <2>3. b0.packet = packet /\ b0.part = 0 /\ b1.packet = packet /\ b1.part = 1
      BY <1>1, <2>1
    <2>4. own
      <3> HIDE DEF b0, b1
      <3> QED BY <1>2, <2>1, <2>3
    <2> HIDE DEF own
    <2>5. whole' = packet + 1 /\ mixed' = 0 /\ part' = 0 /\ packet' = packet + 1
      BY <1>1, <1>3, <1>4, <2>1, <2>2, <2>4
    <2>6. Len(mouse_buffer') = 0
      BY <2>2
    <2> QED BY <2>5, <2>6 DEF Aligned
  <1> QED BY <1>5, <1>6, <1>7

\* A byte is lost: one more gap at most, and one packet more is doomed or over.
LEMMA LostAccounts ==
  ASSUME TypeOK, LoseByte, Accounted
  PROVE  Accounted'
  <1>1. /\ NextPart /\ lost' = lost + 1
        /\ UNCHANGED <<mouse_buffer, whole, mixed, overflows>>
    BY DEF LoseByte, decoderVars
  <1>2. Gaps' \in Int /\ Gaps \in Int /\ Gaps' <= Gaps + 1 /\ Gaps >= 0
    <2> DEFINE n == Len(mouse_buffer)
               f == Gap(mouse_buffer[1], mouse_buffer[2].packet, mouse_buffer[2].part)
               e1 == Gap(mouse_buffer[1], packet, part)
               e2 == Gap(mouse_buffer[2], packet, part)
               d1 == Gap(mouse_buffer[1], packet', part')
               d2 == Gap(mouse_buffer[2], packet', part')
    <2>1. /\ f \in {0, 1} /\ e1 \in {0, 1} /\ e2 \in {0, 1} /\ d1 \in {0, 1} /\ d2 \in {0, 1}
      BY GapValue
    <2>2. /\ n = 0 => Gaps = 0 /\ Gaps' = 0
          /\ n = 1 => Gaps = e1 /\ Gaps' = d1
          /\ n = 2 => Gaps = f + e2 /\ Gaps' = f + d2
      BY <1>1, GapsByLength, GapsByLengthNext
    <2>3. n \in Nat /\ n <= 2
      BY DEF TypeOK
    <2> HIDE DEF n, f, e1, e2, d1, d2
    <2>4. n = 0 \/ n = 1 \/ n = 2
      BY <2>3
    <2> QED BY <2>1, <2>2, <2>4
  <1>3. PICK G \in Int, G2 \in Int, D \in Int, D2 \in Int :
          G = Gaps /\ G2 = Gaps' /\ D = Doomed /\ D2 = Doomed'
    BY <1>2, DoomedValue, DoomedValueNext
  <1>4. PICK P \in Int, W \in Int, M \in Int, L \in Int, O \in Int :
          P = packet /\ W = whole /\ M = mixed /\ L = lost /\ O = overflows
    BY InputAssumption DEF TypeOK
  <1>5. G2 <= G + 1 /\ D >= 0 /\ D2 <= 1
    BY <1>2, <1>3, DoomedValue, DoomedValueNext
  <1>6. M + G <= L /\ (P - W) + D + G <= 2 * L + O
    BY <1>3, <1>4 DEF Accounted
  <1>7. M + G2 <= L + 1
    BY <1>5, <1>6
  <1>8. \/ packet' = P /\ (P - W) + D2 + G2 <= 2 * (L + 1) + O
        \/ packet' = P + 1 /\ ((P + 1) - W) + D2 + G2 <= 2 * (L + 1) + O
    <2>1. /\ part = 0 => packet' = packet
          /\ part = 1 => packet' = packet
          /\ part = 2 => packet' = packet + 1 /\ part' = 0
      BY NextPartType DEF LoseByte, TypeOK
    <2>2. part = 0 \/ part = 1 \/ part = 2
      BY DEF TypeOK
    <2>3. CASE part # 2
      <3>1. packet' = P
        BY <1>4, <2>1, <2>2, <2>3
      <3>2. (P - W) + D2 + G2 <= 2 * (L + 1) + O
        BY <1>5, <1>6
      <3> QED BY <3>1, <3>2
    <2>4. CASE part = 2
      <3>1. D2 = 0
        BY <1>3, <2>1, <2>4, DoomedValueNext
      <3>2. packet' = P + 1
        BY <1>4, <2>1, <2>4
      <3>3. ((P + 1) - W) + D2 + G2 <= 2 * (L + 1) + O
        BY <1>5, <1>6, <3>1
      <3> QED BY <3>2, <3>3
    <2> QED BY <2>3, <2>4
  <1>9. lost' = L + 1 /\ mixed' = M /\ whole' = W /\ overflows' = O
    BY <1>1, <1>4
  <1>10. /\ mixed' + Gaps' <= lost'
         /\ (packet' - whole') + Doomed' + Gaps' <= 2 * lost' + overflows'
    BY <1>3, <1>7, <1>8, <1>9
  <1>11. \A k \in 1 .. Len(mouse_buffer') :
           IsHeader(mouse_buffer'[k].byte) => mouse_buffer'[k].part = 0
    BY <1>1 DEF Accounted
  <1> QED BY <1>10, <1>11 DEF Accounted

\* The decoder's accounts survive every step.
LEMMA StepInvStep ==
  TypeOK /\ StepInv /\ [Next]_vars => StepInv'
  <1> SUFFICES ASSUME TypeOK, StepInv, [Next]_vars
               PROVE  StepInv'
    OBVIOUS
  <1>1. CASE \E byte \in Headers \cup Motion : MouseByte(byte)
    <2>1. PICK b \in Byte : Sent(b) /\ MousePacket(b)
      BY <1>1, MouseByteSends
    <2>2. Kept(b) \/ Shifted(b) \/ Completed(b)
      BY <2>1, PacketCases
    <2>3. ASSUME ~ lookalike' PROVE Accounted'
      <3>1. ~ lookalike
        BY <2>1, <2>3 DEF Sent
      <3>2. Accounted
        BY <3>1 DEF StepInv
      <3> QED BY <2>1, <2>2, <2>3, <3>2, AccountedStep
    <2>4. ASSUME lost' = 0, overflows' = 0 PROVE Aligned'
      <3>1. lost = 0
        BY <2>1, <2>4 DEF Sent
      <3>2. overflows = 0
        <4> DEFINE h == part = 0 /\ ~ IsHeader(b.byte)
        <4>1. (h => overflows' = overflows + 1) /\ (~ h => overflows' = overflows)
          BY <2>1 DEF Sent
        <4>2. overflows \in Nat
          BY DEF TypeOK
        <4> HIDE DEF h
        <4> QED BY <2>4, <4>1, <4>2
      <3>3. Aligned
        BY <3>1, <3>2 DEF StepInv
      <3> QED BY <2>1, <2>2, <2>4, <3>2, <3>3, AlignedStep
    <2> QED BY <2>3, <2>4 DEF StepInv
  <1>2. CASE LoseByte
    <2>1. lost' # 0 /\ lookalike' = lookalike
      <3>1. lost' = lost + 1 /\ lost \in Nat /\ lookalike' = lookalike
        BY <1>2, InputAssumption DEF LoseByte, TypeOK
      <3>2. lost + 1 # 0
        BY <3>1
      <3> QED BY <3>1, <3>2
    <2>2. ~ lookalike => Accounted'
      BY <1>2, LostAccounts DEF StepInv
    <2> QED BY <2>1, <2>2 DEF StepInv
  <1>3. CASE MoveHandled \/ (\E code \in Keys : Key(code) \/ Repeat(code)) \/ UNCHANGED vars
    <2>1. UNCHANGED <<mouse_buffer, packet, part, whole, mixed, lost, overflows, lookalike>>
      BY <1>3 DEF MoveHandled, Key, Repeat, vars, decoderVars, historyVars
    <2>2. Accounted => Accounted'
      BY <2>1 DEF Accounted, Gaps, Doomed, Alive, Current
    <2>3. Aligned => Aligned'
      BY <2>1 DEF Aligned, Current
    <2> QED BY <2>1, <2>2, <2>3 DEF StepInv
  <1> QED BY <1>1, <1>2, <1>3 DEF Next

\* They are in order at the start.
LEMMA StepInvInit ==
  Init => StepInv
  <1> SUFFICES ASSUME Init PROVE StepInv
    OBVIOUS
  <1>1. /\ Len(mouse_buffer) = 0 /\ packet = 0 /\ part = 0 /\ whole = 0 /\ mixed = 0
        /\ lost = 0 /\ overflows = 0
    BY DEF Init
  <1>2. Gaps = 0 /\ Doomed = 0
    BY <1>1, GapsByLength, DoomedValue
  <1>3. Accounted
    BY <1>1, <1>2 DEF Accounted
  <1>4. Aligned
    BY <1>1 DEF Aligned
  <1> QED BY <1>3, <1>4 DEF StepInv

\* mouse_packet() gets back in step, for any number of lost bytes in any place:
\* each costs it at most two packets, of which at most one is put together from
\* bytes of two, as long as no motion byte looks like a header.
THEOREM BackInStep == Spec => []InStep
  <1>1. Spec => [](TypeOK /\ GestureInv)
    BY TypeInit, TypeStep, PTL DEF Spec
  <1>2. Spec => []StepInv
    BY <1>1, StepInvInit, StepInvStep, PTL DEF Spec
  <1>3. TypeOK /\ StepInv => InStep
    <2> SUFFICES ASSUME TypeOK, StepInv, ~ lookalike \/ (lost = 0 /\ overflows = 0)
                 PROVE  mixed <= lost /\ packet - whole <= 2 * lost + overflows
      BY DEF InStep
    <2>1. CASE ~ lookalike
      <3>1. mixed + Gaps <= lost /\ (packet - whole) + Doomed + Gaps <= 2 * lost + overflows
        BY <2>1 DEF StepInv, Accounted
      <3>2. PICK G \in Nat, D \in Nat : G = Gaps /\ D = Doomed
        BY GapsType, DoomedValue DEF TypeOK
      <3>3. PICK P \in Int, W \in Int, M \in Int, L \in Int, O \in Int :
              P = packet /\ W = whole /\ M = mixed /\ L = lost /\ O = overflows
        BY InputAssumption DEF TypeOK
      <3>4. M + G <= L /\ (P - W) + D + G <= 2 * L + O
        BY <3>1, <3>2, <3>3
      <3>5. M <= L /\ P - W <= 2 * L + O
        BY <3>4
      <3> QED BY <3>3, <3>5
    <2>2. CASE lost = 0 /\ overflows = 0
      <3>1. mixed = 0 /\ whole = packet
        BY <2>2 DEF StepInv, Aligned
      <3>2. packet \in Int
        BY InputAssumption DEF TypeOK
      <3> QED BY <2>2, <3>1, <3>2
    <2> QED BY <2>1, <2>2
  <1> QED BY <1>1, <1>2, <1>3, PTL
=============================================================================
