------------------------------ MODULE Ps2Input ------------------------------
(***************************************************************************)
(* The interrupt handler of the PS/2 controller, ps2.cpp: it reads the     *)
(* bytes of the mouse and of the keyboard, aligns the mouse's packets of   *)
(* three bytes, translates scan codes, and posts events.                   *)
(*                                                                         *)
(* The devices are part of the model: the mouse sends packets, of which    *)
(* bytes may be lost on the way, and keys are pressed, repeat their codes  *)
(* while they are held, and are released.  The event thread appears as     *)
(* MoveHandled, which writes the mouse state too.                          *)
(***************************************************************************)
EXTENDS Mouse, FiniteSets

CONSTANTS
  Headers, Motion,     \* what a packet may be made of
  Keys,                \* scan codes of the keys in use
  LETTERS, OTHER_CHARS,  \* the codes for which keymap[] has a character
  EXTENDED_KEYS,       \* the keys whose codes follow an 0xE0
  MaxPackets, MaxLost, MaxKeys   \* bounds

\* Bytes are bytes, and a key's code leaves bit 7 to its release.
ASSUME InputAssumption ==
  /\ Headers \subseteq 0 .. 255 /\ Motion \subseteq 0 .. 255 /\ Keys \subseteq 0 .. 127
  /\ MaxPackets \in Nat /\ MaxLost \in Nat /\ MaxKeys \in Nat

VARIABLES
  mouse_buffer,        \* the bytes counted by num_mouse_packets, oldest first
  shift, extended,     \* statics of scan_to_ascii()
  packet, part,        \* the mouse's next byte is this part of that packet
  typed,               \* the event posted for the last scan code, if any
  held, typematic,     \* the keyboard: keys down, and the one that repeats its code
  keys,                \* the keyboard: codes sent
  caps, repeats,       \* history: caps lock presses, repeated codes that toggle shift
  whole, mixed,        \* history: packets decoded from their own three bytes, or not
  lost, overflows,     \* history: bytes lost, packets with an overflow bit
  lookalike,           \* history: has a motion byte looked like a header?
  gesture              \* history: the gesture as the posted events tell it

decoderVars == <<mouse_buffer, mouse>>
keyboardVars == <<shift, extended, typed, held, typematic, keys, caps, repeats>>
historyVars == <<whole, mixed, lost, overflows, lookalike, gesture>>
vars == <<decoderVars, keyboardVars, packet, part, historyVars>>

Bit(byte, k) == (byte \div 2^k) % 2 = 1

\* A byte with the packet and the part it comes from, which the code cannot see.
Byte == [byte : 0 .. 255, packet : 0 .. MaxPackets, part : 0 .. 2]

TypeOK ==
  /\ mouse_buffer \in Seq(Byte) /\ Len(mouse_buffer) <= 2
  /\ mouse \in MouseState
  /\ shift \in BOOLEAN /\ extended \in BOOLEAN
  /\ packet \in 0 .. MaxPackets /\ part \in 0 .. 2
  /\ caps \in Nat /\ repeats \in Nat /\ keys \in 0 .. MaxKeys
  /\ whole \in Nat /\ mixed \in Nat /\ lost \in 0 .. MaxLost /\ overflows \in Nat
  /\ gesture \in {"up", "down", "dragging", "error"}

Init ==
  /\ mouse_buffer = <<>>
  /\ mouse = InitialMouse
  /\ shift = FALSE /\ extended = FALSE
  /\ typed = <<>>
  /\ packet = 0 /\ part = 0
  /\ held = {} /\ typematic = {} /\ keys = 0 /\ caps = 0 /\ repeats = 0
  /\ whole = 0 /\ mixed = 0 /\ lost = 0 /\ overflows = 0
  /\ lookalike = FALSE /\ gesture = "up"

-----------------------------------------------------------------------------
(* mouse_packet() *)

\* No overflow bit, and the bit that is always set in the first byte.
IsHeader(byte) == ~ Bit(byte, 6) /\ ~ Bit(byte, 7) /\ Bit(byte, 3)

\* The signs of the two movements are bits of the first byte.
DeltaX(b0, b1) == b1 - (IF Bit(b0, 4) THEN 256 ELSE 0)
DeltaY(b0, b2) == (IF Bit(b0, 5) THEN 256 ELSE 0) - b2

\* The gesture after an event: what a program that only sees events knows of the left
\* button.  A drag within the click box is not announced, but its end is.
Follow(g, id) ==
  CASE id = "MOUSE_LEFT_DOWN" /\ g = "up"                       -> "down"
    [] id = "MOUSE_LEFT_DRAG_START" /\ g = "down"               -> "dragging"
    [] id = "MOUSE_LEFT_DRAG_END" /\ g \in {"down", "dragging"} -> "down"
    [] id = "MOUSE_LEFT_UP" /\ g = "down"                       -> "released"
    [] id = "MOUSE_LEFT_CLICK" /\ g = "released"                -> "up"
    [] id = "MOUSE_MOVE"                                        -> g
    [] OTHER                                                    -> "error"

Gesture(g, events) ==
  LET after[k \in 0 .. Len(events)] ==
        IF k = 0 THEN g ELSE Follow(after[k - 1], events[k].id)
      last == after[Len(events)]
  IN  IF last = "released" THEN "up" ELSE last

\* Mutant: after a misaligned packet all three bytes are dropped.
Shift_DropAll(bytes) == <<>>

\* "effectively shifts the data by 1 packet": the oldest byte is given up.
Shift(bytes) == Tail(bytes)

\* Three bytes are complete and the first is a header.
Decode(b0, b1, b2) ==
  LET m    == Moved(DeltaX(b0.byte, b1.byte), DeltaY(b0.byte, b2.byte))
      left == Bit(b0.byte, 0)
      own  == /\ b0.packet = b1.packet /\ b1.packet = b2.packet
              /\ <<b0.part, b1.part, b2.part>> = <<0, 1, 2>>
  IN
  /\ \E due \in BOOLEAN :
       /\ mouse' = AfterPacket(m, left, due)
       /\ gesture' = Gesture(gesture, PacketEvents(m, left, due))
  /\ mouse_buffer' = <<>>
  /\ whole' = whole + (IF own THEN 1 ELSE 0)
  /\ mixed' = mixed + (IF own THEN 0 ELSE 1)

MousePacket(b) ==
  LET bytes == Append(mouse_buffer, b)
      complete == Len(bytes) >= 3
  IN
  /\ IF complete /\ IsHeader(bytes[1].byte)
     THEN Decode(bytes[1], bytes[2], bytes[3])
     ELSE /\ mouse_buffer' = IF complete THEN Shift(bytes) ELSE bytes
          /\ UNCHANGED <<mouse, whole, mixed, gesture>>

-----------------------------------------------------------------------------
(* The mouse: a packet is a header and two bytes of motion *)

NextPart ==
  /\ part' = (part + 1) % 3
  /\ packet' = IF part = 2 THEN packet + 1 ELSE packet

Sends(byte) ==
  /\ packet < MaxPackets
  /\ byte \in (IF part = 0 THEN Headers ELSE Motion)
  /\ NextPart
  /\ overflows' = overflows + (IF part = 0 /\ ~ IsHeader(byte) THEN 1 ELSE 0)
  /\ lookalike' = (lookalike \/ (part # 0 /\ IsHeader(byte)))

MouseByte(byte) ==
  /\ Sends(byte)
  /\ MousePacket([byte |-> byte, packet |-> packet, part |-> part])
  /\ UNCHANGED <<keyboardVars, lost>>

LoseByte ==
  /\ packet < MaxPackets /\ lost < MaxLost
  /\ NextPart
  /\ lost' = lost + 1
  /\ UNCHANGED <<decoderVars, keyboardVars, whole, mixed, overflows, lookalike,
                 gesture>>

\* The event thread handles a MOUSE_MOVE: UserEventWorker::run().
MoveHandled ==
  /\ <<mouse.old_x, mouse.old_y>> # <<mouse.x, mouse.y>>
  /\ mouse' = [mouse EXCEPT !.old_x = mouse.x, !.old_y = mouse.y]
  /\ UNCHANGED <<mouse_buffer, keyboardVars, packet, part, historyVars>>

-----------------------------------------------------------------------------
(* keyboard_packet() and scan_to_ascii() *)

RELEASED  == 128                 \* added to a key's code when it is released
SHIFTKEYS == {42, 54}            \* 0x2A, 0x36
CAPSLOCK  == 58                  \* 0x3A

\* Mutant: the right shift key is forgotten.
Toggles_LeftOnly(code) == code \in {42, 42 + RELEASED, CAPSLOCK}

Toggles(code) ==
  code \in SHIFTKEYS \cup {k + RELEASED : k \in SHIFTKEYS} \cup {CAPSLOCK}

\* The character of a code.  The row of shifted digits is guarded by a condition
\* that no code satisfies, so that shift matters to letters only.
Ascii(code, upper) == <<code, IF upper /\ code \in LETTERS THEN "upper" ELSE "plain">>

\* A key that is down sends its code and RELEASED when it goes up.  An extended
\* key sends 0xE0 first: from then on every code is passed on as it is.
KeyboardPacket(code, ext) ==
  LET toggled == IF ~ ext /\ Toggles(code) THEN ~ shift ELSE shift
      id      == IF code >= RELEASED THEN "KEY_CHAR_UP" ELSE "KEY_CHAR_DOWN"
  IN
  /\ shift' = toggled
  /\ extended' = ext
  /\ typed' = When(ext, [id |-> id, data |-> <<code, "raw">>])
              \o When(~ ext /\ code \in LETTERS \cup OTHER_CHARS,
                      [id |-> id, data |-> Ascii(code, toggled)])

\* A key goes down or up.
Key(code) ==
  /\ keys < MaxKeys
  /\ keys' = keys + 1
  /\ typematic' = IF code \in held THEN typematic \ {code} ELSE {code}
  /\ held' = IF code \in held THEN held \ {code} ELSE held \cup {code}
  /\ caps' = caps + (IF code = CAPSLOCK /\ code \notin held THEN 1 ELSE 0)
  /\ KeyboardPacket(IF code \in held THEN code + RELEASED ELSE code,
                    extended \/ code \in EXTENDED_KEYS)
  /\ UNCHANGED <<decoderVars, packet, part, historyVars, repeats>>

\* The key that went down last sends its code again and again until it goes up.
Repeat(code) ==
  /\ code \in typematic /\ keys < MaxKeys
  /\ keys' = keys + 1
  /\ repeats' = repeats + (IF Toggles(code) THEN 1 ELSE 0)
  /\ KeyboardPacket(code, extended \/ code \in EXTENDED_KEYS)
  /\ UNCHANGED <<decoderVars, packet, part, historyVars, held, typematic, caps>>

-----------------------------------------------------------------------------

Next ==
  \/ \E byte \in Headers \cup Motion : MouseByte(byte)
  \/ LoseByte
  \/ MoveHandled
  \/ \E code \in Keys : Key(code) \/ Repeat(code)

Spec == Init /\ [][Next]_vars

-----------------------------------------------------------------------------
(* Properties *)

\* mouse_packet() gets back in step: a lost byte makes it put together at most
\* one packet from bytes of two, and costs at most two packets, as long as no
\* motion byte looks like a header; and without loss or overflow it is always
\* in step, whatever the motion bytes look like.
InStep ==
  (~ lookalike \/ (lost = 0 /\ overflows = 0)) =>
    mixed <= lost /\ packet - whole <= 2 * lost + overflows

\* Whatever bytes arrive, the posted events tell a story that a program can
\* follow: presses and releases of the left button alternate, a drag starts after a
\* press and ends before the release, and a click follows its release.
GesturesWellFormed == gesture # "error"

\* As long as no extended key has been pressed, letters come out as the keys that
\* are down say: upper case with one of the two shift keys or caps lock, in whatever
\* order they go down and up.  But `shift` counts codes, not keys: every code that a
\* held shift key or caps lock repeats turns the case of the letters around, until
\* another one does (ps2.h:63-67).
ShiftFollowsKeys ==
  LET upper == (Cardinality(held \cap SHIFTKEYS) + caps + repeats) % 2 = 1 IN
  ~ extended =>
    /\ shift = upper
    /\ \A c \in LETTERS, case \in {"upper", "plain"} :
         typed # <<>> /\ typed[1].data = <<c, case>> => upper = (case = "upper")
=============================================================================
