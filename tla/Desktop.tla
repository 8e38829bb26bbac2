------------------------------ MODULE Desktop ------------------------------
(***************************************************************************)
(* The window manager: windows that processes describe, the stack of their *)
(* frames, the mouse that raises and drags them, and the display worker    *)
(* that paints the screen and the pick buffer.                             *)
(*                                                                         *)
(* The mouse interrupts everybody.  The kernel event thread handles user   *)
(* events and display messages, and is preempted between any two steps by  *)
(* processes, whose system calls are one step each.  A window is named by  *)
(* its index in win_index[]; links are indices, NULL for none.  The colour *)
(* of a pixel is the sequence of the layers blended into it.  The image of *)
(* the mouse pointer is left out.                                          *)
(***************************************************************************)
EXTENDS Mouse, TextBox, FiniteSets

CONSTANTS
  Users,               \* pids of the processes with windows; 0 is the kernel
  MAX_PROC_WINDOWS,
  Windows,             \* what they put into env->windows[], by index
  MAX_EVENTS,          \* capacity of the queues of events and display messages
  BATCH,               \* messages that DisplayWorker takes at a time
  Packets,             \* mouse packets: movement and left button
  Texts,               \* what is printed
  MaxInputs            \* bound: mouse packets and changes of a text

NULL == -1
Gid(pid, i) == pid * MAX_PROC_WINDOWS + i
Pid(g) == g \div MAX_PROC_WINDOWS
desktop == Gid(0, 0)
Kernel == 0
Gids == {desktop} \cup DOMAIN Windows
OfProc(pid) == {g \in DOMAIN Windows : Pid(g) = pid}

\* What programs put into env->windows[]: frames before their children, no frame in
\* another frame, and ids that are indices of windows of the same process.
ASSUME WindowsAssumption ==
  /\ MAX_PROC_WINDOWS \in Nat \ {0} /\ Users \subseteq Nat \ {Kernel}
  /\ IsFiniteSet(DOMAIN Windows) /\ DOMAIN Windows \subseteq Nat \ {desktop}
  /\ \A g \in DOMAIN Windows :
       /\ Windows[g].class \in {"WINDOW", "WINDOW_FRAME", "TEXT_BOX"}
       /\ Windows[g].rect \in Rect /\ Windows[g].zindex \in Int
       /\ Windows[g].id \in 0 .. MAX_PROC_WINDOWS - 1
       /\ Gid(Pid(g), Windows[g].id) \in DOMAIN Windows
       /\ Windows[g].parent_id = NULL \/
            LET p == Gid(Pid(g), Windows[g].parent_id)
            IN  /\ Windows[g].parent_id \in 0 .. MAX_PROC_WINDOWS - 1
                /\ p \in DOMAIN Windows /\ p < g
                /\ Windows[p].class = "WINDOW_FRAME" /\ Windows[p].parent_id = NULL

VARIABLES
  win,                 \* win_index[]: rectangle and links of every window
  top,                 \* winstack.top
  drag_window,
  screen,              \* the pixels, and pick_buffer
  events, display,     \* queue of user events; of display messages
  worker,              \* UserEventWorker: [pc, root]
  created,             \* processes that have called update_gui()
  needs_redraw,        \* windows with that flag
  redraw_rect,         \* that rectangle of every window, in its own coordinates
  text,                \* buffers of the text boxes
  packets, prints,     \* mouse packets so far; texts printed
  order,               \* history: roots in the order in which they came to the top
  dropped              \* history: has the display queue been full?

wmVars == <<win, top, drag_window>>
userVars == <<created, needs_redraw, redraw_rect, text, prints>>
vars == <<mouse, wmVars, screen, events, display, worker, userVars, packets, order, dropped>>

Pixels == (0 .. VGA_WIDTH - 1) \X (0 .. VGA_HEIGHT - 1)
Screen == [l |-> 0, t |-> 0, r |-> VGA_WIDTH, b |-> VGA_HEIGHT]

Class(g) == IF g = desktop THEN "DESKTOP" ELSE Windows[g].class
Boxes == {g \in DOMAIN Windows : Windows[g].class = "TEXT_BOX"}
WidthOf(g) == Windows[g].rect.r - Windows[g].rect.l
HeightOf(g) == Windows[g].rect.b - Windows[g].rect.t

\* Text boxes have characters in both directions.
ASSUME InputAssumption ==
  /\ MAX_EVENTS \in Nat /\ BATCH \in Nat
  /\ Packets \subseteq [dx : Int, dy : Int, left : BOOLEAN]
  /\ Texts \subseteq Seq(STRING)
  /\ \A g \in Boxes : Windows[g].chars \in (Nat \ {0}) \X (Nat \ {0})

zindex(g) == IF g = desktop THEN 0 ELSE Windows[g].zindex

-----------------------------------------------------------------------------
(* GUIWindowStack: lists linked by next and prev *)

SetPrev(w, g, to) == IF g = NULL THEN w ELSE [w EXCEPT ![g].prev = to]
SetNext(w, g, to) == IF g = NULL THEN w ELSE [w EXCEPT ![g].next = to]

\* The windows of a list from g on, as far as a loop of the code follows it.  The
\* limit is the size of win_index[], here with a place for the end of the list.
MAX_WINDOW_LEVELS == Cardinality(Gids) + 1
Walk(w, g) ==
  LET at[i \in 1 .. MAX_WINDOW_LEVELS] ==
        IF i = 1 THEN g ELSE IF at[i - 1] = NULL THEN NULL ELSE w[at[i - 1]].next
  IN  at

First(S) == CHOOSE i \in S : \A j \in S : i <= j

\* Mutant: the loop stops at the first window.
Above_First(w, ptr, new) == ptr

\* insert() walks to the last window that new does not lie above.
Above(w, ptr, new) ==
  LET walk == Walk(w, ptr)
      stops == {i \in 1 .. MAX_WINDOW_LEVELS - 1 : walk[i] # NULL /\
                  (walk[i + 1] = NULL \/ zindex(walk[i + 1]) < zindex(new))}
  IN  walk[First(stops)]

\* insert() into the children of frame p, by zindex.
Insert(w, p, new) ==
  LET first == w[p].first IN
  IF first = NULL \/ zindex(first) < zindex(new)
  THEN [SetPrev(w, first, new) EXCEPT ![new].prev = NULL, ![new].next = first,
                                      ![p].first = new]
  ELSE LET ptr  == Above(w, first, new)
           next == w[ptr].next
       IN  [SetPrev(w, next, new) EXCEPT ![new].next = next, ![new].prev = ptr,
                                         ![ptr].next = new]

\* push() while nobody else uses the stack; `at` is the window on top.
Push(w, at, new) == [SetPrev(w, at, new) EXCEPT ![new].next = at, ![new].prev = NULL]

\* Mutant: the window above keeps its link to the one taken out.
Detach_KeepsLink(w, g) ==
  [SetPrev(w, w[g].next, w[g].prev) EXCEPT ![g].next = NULL, ![g].prev = NULL]

\* detach(), without the change of top
Detach(w, g) ==
  [SetNext(SetPrev(w, w[g].next, w[g].prev), w[g].prev, w[g].next)
     EXCEPT ![g].next = NULL, ![g].prev = NULL]

Members(s) == {s[i] : i \in 1 .. Len(s)}
List(w, g) ==
  LET walk == Walk(w, g)
      ends == {i \in 1 .. MAX_WINDOW_LEVELS : walk[i] = NULL}
  IN  IF ends = {} THEN walk ELSE [i \in 1 .. First(ends) - 1 |-> walk[i]]
Children(w, g) ==
  IF Class(g) = "WINDOW_FRAME"
  THEN {Walk(w, w[g].first)[i] : i \in 1 .. MAX_WINDOW_LEVELS} \ {NULL} ELSE {}

-----------------------------------------------------------------------------
(* gui_redraw_rect() and the draw() of every class of window *)

\* What window g adds to a pixel: its colour, and the text of a text box.
Layer(w, g, px) ==
  <<g, IF g \in Boxes THEN CharAt(text[g], px[1] - w[g].rect.l, px[2] - w[g].rect.t) ELSE "">>

\* What is drawn: a part of window g, which covers what is there or is blended into it.
Stroke(clip, g, blend) == [clip |-> clip, win |-> g, blend |-> blend]

\* rect_fill() and update_pick_buf() of a stroke.  gid is made of pid and windata.id.
Fill(w, s, stroke) ==
  LET g == stroke.win
      id == IF g = desktop THEN g ELSE Gid(Pid(g), Windows[g].id)
  IN  [px \in Pixels |->
         IF Inside(px[1], px[2], stroke.clip)
         THEN [color |-> (IF stroke.blend THEN s[px].color ELSE <<>>) \o <<Layer(w, g, px)>>,
               pick |-> id]
         ELSE s[px]]

Drawn(w, s, strokes) ==
  LET after[i \in 0 .. Len(strokes)] ==
        IF i = 0 THEN s ELSE Fill(w, after[i - 1], strokes[i])
  IN  after[Len(strokes)]

\* The first window of a list that meets the clip rectangle.
FirstMeeting(w, from, clip) ==
  LET walk == Walk(w, from)
      meets == {i \in 1 .. MAX_WINDOW_LEVELS : walk[i] # NULL /\ Meet(w[walk[i]].rect, clip)}
  IN  IF meets = {} THEN NULL ELSE walk[First(meets)]

Transparent(g) == Class(g) = "TEXT_BOX" \/ (Class(g) = "WINDOW" /\ Windows[g].alpha)

\* A transparent window first draws what is below its root, a frame its children.
\* Calls of gui_redraw_rect() from here are calls of below.
Draw(w, below, clip, g) ==
  CASE Class(g) = "WINDOW_FRAME" -> below[<<clip, w[g].first>>]
    [] Transparent(g) -> below[<<clip, w[w[g].wm_root].next>>] \o <<Stroke(clip, g, TRUE)>>
    [] OTHER -> <<Stroke(clip, g, FALSE)>>

\* The topmost window that meets the clip rectangle is drawn, and what is left
\* of the rectangle on its four sides goes to the windows below it.
Strokes(w, below, clip, from) ==
  LET g == FirstMeeting(w, from, clip)
      sub == Intersection(w[g].rect, clip)
      Rest(c, R) == IF c THEN below[<<R, w[g].next>>] ELSE <<>>
  IN  IF g = NULL THEN <<>>
      ELSE Rest(sub.t > clip.t, [clip EXCEPT !.b = sub.t])
           \o Rest(sub.l > clip.l, [sub EXCEPT !.l = clip.l, !.r = sub.l])
           \o Draw(w, below, sub, g)
           \o Rest(sub.r < clip.r, [sub EXCEPT !.l = sub.r, !.r = clip.r])
           \o Rest(sub.b < clip.b, [clip EXCEPT !.t = sub.b])

\* The strokes of gui_redraw_rect().  Every call goes on below the window that it
\* draws, so that calls are nested no deeper than there are windows.
Redraw(w, clip, from) ==
  LET calls == Rect \X (Gids \cup {NULL})
      nested[n \in 0 .. MAX_WINDOW_LEVELS] ==
        IF n = 0 THEN [c \in calls |-> <<>>]
        ELSE [c \in calls |-> Strokes(w, nested[n - 1], c[1], c[2])]
  IN  nested[MAX_WINDOW_LEVELS][<<clip, from>>]

-----------------------------------------------------------------------------
(* gui_update_proc(): the windows of a process become windows of the manager *)

\* addChild() also turns the child's rectangle into screen coordinates.
AddChild(w, p, g) ==
  [Insert(w, p, g) EXCEPT ![g].parent = p,
                          ![g].rect = Shifted(@, w[p].rect.l, w[p].rect.t)]

\* The first loop; every window is new, so none has a parent to leave.
AddWindow(w, g) ==
  LET copied == [w EXCEPT ![g].rect = Windows[g].rect]
  IN  IF Windows[g].parent_id = NULL THEN copied
      ELSE AddChild(copied, Gid(Pid(g), Windows[g].parent_id), g)

AddWindows(w, pid) ==
  LET after[i \in 0 .. MAX_PROC_WINDOWS] ==
        IF i = 0 THEN w
        ELSE IF Gid(pid, i - 1) \in DOMAIN Windows
        THEN AddWindow(after[i - 1], Gid(pid, i - 1)) ELSE after[i - 1]
  IN  after[MAX_PROC_WINDOWS]

Root(w, g) == IF w[g].parent = NULL THEN g ELSE w[g].parent

\* The second loop: wm_root of every window, and roots that are in no list are
\* pushed onto the stack.  Returns the windows and the new top.
PushRoots(w, at, pid) ==
  LET after[i \in 0 .. MAX_PROC_WINDOWS] ==
        LET g == Gid(pid, i - 1) IN
        IF i = 0 THEN <<w, at>>
        ELSE IF /\ g \in DOMAIN Windows /\ after[i - 1][1][g].parent = NULL
                /\ after[i - 1][1][g].next = NULL
        THEN <<Push(after[i - 1][1], after[i - 1][2], g), g>> ELSE after[i - 1]
  IN  after[MAX_PROC_WINDOWS]

UpdateProc(w, at, pid) ==
  LET added == AddWindows(w, pid)
      rooted == [g \in Gids |-> IF g \in OfProc(pid)
                                THEN [added[g] EXCEPT !.wm_root = Root(added, g)]
                                ELSE added[g]]
  IN  PushRoots(rooted, at, pid)

-----------------------------------------------------------------------------
(* Initial state: GUIModel::GUIModel() of main.cpp *)

NoWindow == [rect |-> [l |-> 0, t |-> 0, r |-> 0, b |-> 0], next |-> NULL, prev |-> NULL,
             parent |-> NULL, wm_root |-> NULL, first |-> NULL]

DisplayMsg(event, g, R) == [event |-> event, win |-> g, rect |-> R]

\* The desktop is pushed, the kernel's windows follow, and all is drawn once; the
\* kernel's first line of text clears its needs_redraw flags, before there is a
\* queue to post to, and main() ends with a redraw of the whole screen.
Init ==
  LET blank == [px \in Pixels |-> [color |-> <<>>, pick |-> desktop]]
      bare == [[g \in Gids |-> NoWindow] EXCEPT ![desktop].rect = Screen,
                                                ![desktop].wm_root = desktop]
      booted == UpdateProc(bare, desktop, Kernel)
  IN
  /\ mouse = InitialMouse
  /\ text = [g \in Boxes |-> Buffer(Windows[g].chars[1], Windows[g].chars[2])]
  /\ redraw_rect = [g \in DOMAIN Windows |->
                      [l |-> 0, t |-> 0, r |-> WidthOf(g), b |-> HeightOf(g)]]
  /\ win = booted[1] /\ top = booted[2] /\ drag_window = NULL
  /\ screen = Drawn(win, blank, Redraw(win, Screen, top))
  /\ events = <<>> /\ display = <<DisplayMsg("REDRAW_SCREEN", NULL, Screen)>>
  /\ worker = [pc |-> "idle", root |-> NULL]
  /\ created = {Kernel} /\ needs_redraw = {}
  /\ packets = 0 /\ prints = 0
  /\ order = (IF top = desktop THEN <<>> ELSE <<top>>) \o <<desktop>>
  /\ dropped = FALSE

-----------------------------------------------------------------------------
(* The mouse interrupt, and the queues *)

\* A full queue drops what does not fit.
Enqueued(q, msgs) == SubSeq(q \o msgs, 1, IF Len(q \o msgs) > MAX_EVENTS THEN MAX_EVENTS
                                         ELSE Len(q \o msgs))

PostDisplay(msgs) ==
  /\ display' = Enqueued(display, msgs)
  /\ dropped' = (dropped \/ Len(display \o msgs) > MAX_EVENTS)

Packet(p, due) ==
  LET m == Moved(p.dx, p.dy) IN
  /\ packets + prints < MaxInputs
  /\ packets' = packets + 1
  /\ mouse' = AfterPacket(m, p.left, due)
  /\ events' = Enqueued(events, PacketEvents(m, p.left, due))
  /\ UNCHANGED <<wmVars, screen, display, worker, userVars, order, dropped>>

-----------------------------------------------------------------------------
(* UserEventWorker::run() on the kernel event thread *)

TakesEvent(ids) ==
  /\ worker.pc = "idle" /\ events # <<>>
  /\ Head(events).id \in ids
  /\ events' = Tail(events)
  /\ UNCHANGED <<screen, userVars, packets>>

\* Mutant: only the frame moves.
MoveWindow_FrameOnly(w, g, dx, dy) == [w EXCEPT ![g].rect = Shifted(@, dx, dy)]

\* GUIWindow::move(), of a frame with its children
MoveWindow(w, g, dx, dy) ==
  [h \in Gids |-> IF h = g \/ h \in Children(w, g)
                  THEN [w[h] EXCEPT !.rect = Shifted(@, dx, dy)] ELSE w[h]]

Drags == mouse.ldrag /\ drag_window \notin {NULL, desktop}

\* A REDRAW_RECT for each part that is not empty.
RedrawPart(R) ==
  IF R.l # R.r /\ R.t # R.b THEN <<DisplayMsg("REDRAW_RECT", NULL, R)>> ELSE <<>>
RedrawRects(old, new) ==
  LET parts == rect_union(old, new)
  IN  RedrawPart(parts[1]) \o RedrawPart(parts[2])
      \o (IF Len(parts) = 2 THEN <<>> ELSE RedrawPart(parts[3]))

\* MOUSE_MOVE: the pointer's way since the last one handled, whatever the event
\* says; the window that is dragged moves by as much.
MouseMove ==
  LET dx == mouse.x - mouse.old_x
      dy == mouse.y - mouse.old_y
      moved == IF Drags THEN MoveWindow(win, drag_window, dx, dy) ELSE win
  IN
  /\ TakesEvent({"MOUSE_MOVE"})
  /\ mouse' = [mouse EXCEPT !.old_x = mouse.x, !.old_y = mouse.y]
  /\ IF dx = 0 /\ dy = 0 THEN UNCHANGED <<win, display, dropped>>
     ELSE /\ win' = moved
          /\ PostDisplay((IF Drags THEN RedrawRects(win[drag_window].rect,
                                                   moved[drag_window].rect)
                          ELSE <<>>)
                         \o <<DisplayMsg("REDRAW_MOUSE", NULL, Screen)>>)
  /\ UNCHANGED <<top, drag_window, worker, order>>

\* MOUSE_LEFT_DOWN: the pick buffer says which window was hit; its root will be
\* dragged, and is raised unless it is on top.
MouseDown ==
  LET hit == screen[<<Head(events).x, Head(events).y>>].pick
      root == win[hit].wm_root
  IN
  /\ TakesEvent({"MOUSE_LEFT_DOWN"})
  /\ drag_window' = IF hit # desktop THEN root ELSE NULL
  /\ worker' = IF hit # desktop /\ root # top THEN [pc |-> "detach", root |-> root]
               ELSE worker
  /\ UNCHANGED <<mouse, win, top, display, order, dropped>>

\* winstack.detach(root)
DetachRoot ==
  /\ worker.pc = "detach"
  /\ win' = Detach(win, worker.root)
  /\ top' = IF top = worker.root THEN win[top].next ELSE top
  /\ worker' = [worker EXCEPT !.pc = "link"]
  /\ UNCHANGED <<mouse, drag_window, screen, events, display, userVars, packets, order,
                 dropped>>

\* winstack.push(root): the links of the window ...
PushLink ==
  /\ worker.pc = "link"
  /\ win' = [win EXCEPT ![worker.root].next = top, ![worker.root].prev = NULL]
  /\ worker' = [worker EXCEPT !.pc = "top"]
  /\ UNCHANGED <<mouse, top, drag_window, screen, events, display, userVars, packets, order,
                 dropped>>

\* ... and the link of the window that was on top, which it replaces.
PushTop ==
  /\ worker.pc = "top"
  /\ win' = SetPrev(win, top, worker.root)
  /\ top' = worker.root
  /\ order' = <<worker.root>> \o SelectSeq(order, LAMBDA g : g # worker.root)
  /\ worker' = [worker EXCEPT !.pc = "post"]
  /\ UNCHANGED <<mouse, drag_window, screen, events, display, userVars, packets, dropped>>

PostRaised ==
  /\ worker.pc = "post"
  /\ PostDisplay(<<DisplayMsg("REDRAW_WINDOW", worker.root, Screen)>>)
  /\ worker' = [pc |-> "idle", root |-> NULL]
  /\ UNCHANGED <<mouse, wmVars, screen, events, userVars, packets, order>>

MouseUp ==
  /\ TakesEvent({"MOUSE_LEFT_UP"})
  /\ drag_window' = NULL
  /\ UNCHANGED <<mouse, win, top, display, worker, order, dropped>>

\* The worker does nothing on a click, nor at the ends of a drag.
OtherEvent ==
  /\ TakesEvent({"MOUSE_LEFT_CLICK", "MOUSE_LEFT_DRAG_START", "MOUSE_LEFT_DRAG_END"})
  /\ UNCHANGED <<mouse, wmVars, display, worker, order, dropped>>

-----------------------------------------------------------------------------
(* DisplayWorker::run(), on the same thread, when its deadline has passed *)

\* A window is redrawn from itself down, a rectangle from the top of the stack.
Painted(s, m) ==
  LET R == IF m.event = "REDRAW_WINDOW" THEN win[m.win].rect ELSE m.rect
      from == IF m.event = "REDRAW_WINDOW" THEN m.win ELSE top
  IN  IF m.event # "REDRAW_MOUSE" /\ Meet(R, Screen)
      THEN Drawn(win, s, Redraw(win, Intersection(R, Screen), from)) ELSE s

PaintedAll(s, msgs) ==
  LET after[i \in 0 .. Len(msgs)] == IF i = 0 THEN s ELSE Painted(after[i - 1], msgs[i])
  IN  after[Len(msgs)]

\* Up to BATCH messages; what is posted meanwhile waits for the next round.
DisplayRun ==
  LET n == Smaller(BATCH, Len(display)) IN
  /\ worker.pc = "idle" /\ display # <<>>
  /\ screen' = PaintedAll(screen, SubSeq(display, 1, n))
  /\ display' = SubSeq(display, n + 1, Len(display))
  /\ UNCHANGED <<mouse, wmVars, events, worker, userVars, packets, order, dropped>>

-----------------------------------------------------------------------------
(* Processes: update_gui(), redraw_gui() and the text they print *)

UpdateGui(pid) ==
  LET updated == UpdateProc(win, top, pid) IN
  /\ pid \notin created
  /\ created' = created \cup {pid}
  /\ needs_redraw' = needs_redraw \cup OfProc(pid)
  /\ win' = updated[1] /\ top' = updated[2]
  /\ order' = <<updated[2]>> \o order
  /\ UNCHANGED <<mouse, drag_window, screen, events, display, worker, redraw_rect, text, packets,
                 prints, dropped>>

\* A thread changes its text box, in memory that the display worker reads, and calls
\* redraw_gui() before it changes the box again.  There is one exception, left out:
\* read() takes back the last character of a full line and prints the next one in its
\* place before it redraws (terminal.h:80-93), and the print asks for the same cells.
ChangeText(g, buf) ==
  /\ Pid(g) \in created /\ g \notin needs_redraw /\ packets + prints < MaxInputs
  /\ prints' = prints + 1
  /\ text' = [text EXCEPT ![g] = Scrolled(buf, HeightOf(g))]
  /\ redraw_rect' = [redraw_rect EXCEPT ![g] =
                       RedrawRect(buf, text[g].tail, WidthOf(g), HeightOf(g))]
  /\ needs_redraw' = needs_redraw \cup {g}
  /\ UNCHANGED <<mouse, wmVars, screen, events, display, worker, created, packets, order,
                 dropped>>

PrintText(g) == \E s \in Texts : ChangeText(g, Printed(text[g], s))
Backspace(g) == CanErase(text[g]) /\ ChangeText(g, Erased(text[g]))

RectToRedraw(g) == Shifted(redraw_rect[g], win[g].rect.l, win[g].rect.t)

\* gui_redraw_proc(): a REDRAW_RECT for every window that asks for it.
RedrawGui(pid) ==
  LET flagged == needs_redraw \cap OfProc(pid)
      msgs[i \in 0 .. MAX_PROC_WINDOWS] ==
        IF i = 0 THEN <<>>
        ELSE msgs[i - 1] \o IF Gid(pid, i - 1) \in flagged
                            THEN <<DisplayMsg("REDRAW_RECT", NULL, RectToRedraw(Gid(pid, i - 1)))>>
                            ELSE <<>>
  IN
  /\ pid \in created /\ flagged # {}
  /\ needs_redraw' = needs_redraw \ flagged
  /\ PostDisplay(msgs[MAX_PROC_WINDOWS])
  /\ UNCHANGED <<mouse, wmVars, screen, events, worker, created, redraw_rect, text, packets,
                 prints, order>>

-----------------------------------------------------------------------------
Next ==
  \/ \E p \in Packets, due \in BOOLEAN : Packet(p, due)
  \/ MouseMove \/ MouseDown \/ MouseUp \/ OtherEvent
  \/ DetachRoot \/ PushLink \/ PushTop \/ PostRaised
  \/ DisplayRun
  \/ \E pid \in Users \cup {Kernel} : UpdateGui(pid) \/ RedrawGui(pid)
  \/ \E g \in Boxes : PrintText(g) \/ Backspace(g)

Spec == Init /\ [][Next]_vars

-----------------------------------------------------------------------------
(* Properties *)

\* Linked lists that several operations relink stay lists: while no window is
\* being raised, the stack holds every root once, in the order in which they came
\* to the top and with the desktop at the bottom, forwards and backwards.
StackExact ==
  worker.pc = "idle" =>
    /\ List(win, top) = order
    /\ \A k \in 1 .. Len(order) : win[order[k]].prev = (IF k = 1 THEN NULL ELSE order[k - 1])

\* The list of a frame, which insert() builds and which move() and draw() follow, has
\* the children of the frame and no other window, each once, from the highest zindex
\* to the lowest, forwards and backwards; also while windows are raised.
ChildrenByZindex ==
  \A g \in DOMAIN Windows : Pid(g) \in created /\ Class(g) = "WINDOW_FRAME" =>
    LET list == List(win, win[g].first) IN
    /\ Members(list) = {h \in DOMAIN Windows : win[h].parent = g}
    /\ Len(list) = Cardinality(Members(list))
    /\ \A k \in 1 .. Len(list) : win[list[k]].prev = (IF k = 1 THEN NULL ELSE list[k - 1])
    /\ \A k \in 1 .. Len(list) - 1 : zindex(list[k]) >= zindex(list[k + 1])

\* A child stays where it was put in its frame, wherever the frame is dragged.
ChildrenFollowFrame ==
  \A g \in DOMAIN Windows : win[g].parent # NULL =>
    LET R == win[win[g].parent].rect
    IN  win[g].rect = Shifted(Windows[g].rect, R.l, R.t)

\* The reference for what a pixel shows: the child with the highest zindex of
\* the topmost root there, over what is below that root if it is transparent.
Target(root, px) ==
  IF Class(root) # "WINDOW_FRAME" THEN root
  ELSE LET here == {g \in Gids : win[g].parent = root /\ Inside(px[1], px[2], win[g].rect)}
       IN  CHOOSE g \in here : \A h \in here : zindex(g) >= zindex(h)

Here(px) == SelectSeq(order, LAMBDA g : Inside(px[1], px[2], win[g].rect))

Shown(px) ==
  LET here == Here(px)
      from[i \in 1 .. Len(here)] ==
        LET g == Target(here[i], px)
        IN  (IF Transparent(g) THEN from[i + 1] ELSE <<>>) \o <<Layer(win, g, px)>>
  IN  from[1]

Picked(px) ==
  LET g == Target(Here(px)[1], px)
  IN  IF g = desktop THEN g ELSE Gid(Pid(g), Windows[g].id)

\* Is a pixel going to be redrawn?
Pending(px) ==
  \/ \E g \in needs_redraw : Inside(px[1], px[2], RectToRedraw(g))
  \/ worker.root # NULL /\ Inside(px[1], px[2], win[worker.root].rect)
  \/ \E k \in 1 .. Len(display) :
       CASE display[k].event = "REDRAW_WINDOW" ->
              Inside(px[1], px[2], win[display[k].win].rect)
         [] display[k].event = "REDRAW_MOUSE" -> FALSE
         [] OTHER -> Inside(px[1], px[2], display[k].rect)

\* Unless a redraw was dropped, every pixel shows, and the pick buffer names, the
\* topmost window there, or a message that redraws the pixel is on its way: the
\* clipping of gui_redraw_rect(), the union of a drag's rectangles, the rectangle
\* that print() and backspace() ask to redraw, and the order of the messages leave
\* no trace of a window that moved or was raised, or of an old text.
ScreenShowsTop ==
  ~ dropped =>
    \A px \in Pixels :
      Pending(px) \/ screen[px] = [color |-> Shown(px), pick |-> Picked(px)]
=============================================================================
