-------------------------- MODULE DesktopProofs --------------------------
(***************************************************************************)
(* What rect_intersect() and rect_union() compute, for all rectangles, and *)
(* that a child window stays where it was put in its frame, for all        *)
(* windows, packets and texts.                                             *)
(*                                                                         *)
(* The lists of next and prev, the walks along them and the loops over the *)
(* windows of a process are recursive functions.  A lemma called ...Exist  *)
(* says that there is such a function; what holds of its values is shown   *)
(* by assuming the least argument for which it fails.                      *)
(***************************************************************************)
EXTENDS Desktop, TLAPS, WellFoundedInduction, FiniteSetTheorems

-----------------------------------------------------------------------------
(* Rectangles *)

\* A rectangle whose edges are in order.
Proper(R) == R \in Rect /\ R.l <= R.r /\ R.t <= R.b

\* rect_intersect() leaves the pixels of both rectangles, and returns false only
\* when there is none.
THEOREM IntersectionExact ==
  ASSUME NEW A \in Rect, NEW B \in Rect, NEW x \in Int, NEW y \in Int
  PROVE  /\ Inside(x, y, Intersection(A, B)) <=> (Inside(x, y, A) /\ Inside(x, y, B))
         /\ Inside(x, y, A) /\ Inside(x, y, B) => Meet(A, B)
BY DEF Inside, Intersection, Meet, Larger, Smaller, Rect

\* rect_union(), by which a drag decides what to redraw: the pixels of its parts
\* are those of the two rectangles, no more and no less.
THEOREM UnionExact ==
  ASSUME NEW A, NEW B, Proper(A), Proper(B), NEW x \in Int, NEW y \in Int
  PROVE  (Inside(x, y, A) \/ Inside(x, y, B))
           <=> \E k \in 1 .. Len(rect_union(A, B)) : Inside(x, y, rect_union(A, B)[k])
<1> DEFINE hi == IF A.t < B.t THEN A ELSE B
           lo == IF A.t < B.t THEN B ELSE A
           head == IF A.b < B.b THEN A ELSE B
           foot == IF A.b < B.b THEN B ELSE A
           upper == [l |-> hi.l, t |-> hi.t, r |-> hi.r, b |-> lo.t]
           middle == [l |-> Smaller(A.l, B.l), t |-> lo.t, r |-> Larger(A.r, B.r),
                      b |-> head.b]
           lower == [l |-> foot.l, t |-> head.b, r |-> foot.r, b |-> foot.b]
<1>1. CASE ~ Meet(A, B)
  <2>1. rect_union(A, B) = <<A, B>>
    BY <1>1 DEF rect_union
  <2> QED BY <2>1
<1>2. CASE Meet(A, B)
  <2>1. rect_union(A, B) = <<upper, middle, lower>>
    BY <1>2 DEF rect_union
  <2>2. \A R : (\E k \in 1 .. Len(rect_union(A, B)) : rect_union(A, B)[k] = R)
                 <=> R \in {upper, middle, lower}
    BY <2>1
  <2>3. upper.l = hi.l /\ upper.t = hi.t /\ upper.r = hi.r /\ upper.b = lo.t
    BY DEF Proper, Rect
  <2>4. lower.l = foot.l /\ lower.t = head.b /\ lower.r = foot.r /\ lower.b = foot.b
    BY DEF Proper, Rect
  <2>5. (Inside(x, y, A) \/ Inside(x, y, B))
          <=> (Inside(x, y, upper) \/ Inside(x, y, middle) \/ Inside(x, y, lower))
    <3>1. middle.l = Smaller(A.l, B.l) /\ middle.t = lo.t /\ middle.r = Larger(A.r, B.r)
            /\ middle.b = head.b
      OBVIOUS
    <3> HIDE DEF upper, middle, lower
    <3> QED BY <1>2, <2>3, <2>4, <3>1 DEF Inside, Meet, Larger, Smaller, Proper, Rect
  <2> HIDE DEF upper, middle, lower
  <2>6. (\E k \in 1 .. Len(rect_union(A, B)) : Inside(x, y, rect_union(A, B)[k]))
          <=> \E R \in {upper, middle, lower} : Inside(x, y, R)
    BY <2>2
  <2> QED BY <2>5, <2>6
<1> QED BY <1>1, <1>2

\* The parts do not overlap: no pixel is redrawn twice.
THEOREM UnionDisjoint ==
  ASSUME NEW A, NEW B, Proper(A), Proper(B), NEW x \in Int, NEW y \in Int,
         NEW j \in 1 .. Len(rect_union(A, B)), NEW k \in 1 .. Len(rect_union(A, B)),
         Inside(x, y, rect_union(A, B)[j]), Inside(x, y, rect_union(A, B)[k])
  PROVE  j = k
<1> DEFINE hi == IF A.t < B.t THEN A ELSE B
           lo == IF A.t < B.t THEN B ELSE A
           head == IF A.b < B.b THEN A ELSE B
           foot == IF A.b < B.b THEN B ELSE A
           upper == [l |-> hi.l, t |-> hi.t, r |-> hi.r, b |-> lo.t]
           middle == [l |-> Smaller(A.l, B.l), t |-> lo.t, r |-> Larger(A.r, B.r),
                      b |-> head.b]
           lower == [l |-> foot.l, t |-> head.b, r |-> foot.r, b |-> foot.b]
<1>1. CASE ~ Meet(A, B)
  <2>1. rect_union(A, B) = <<A, B>>
    BY <1>1 DEF rect_union
  <2>2. ~ (Inside(x, y, A) /\ Inside(x, y, B))
    BY <1>1, IntersectionExact DEF Proper
  <2> QED BY <2>1, <2>2
<1>2. CASE Meet(A, B)
  <2>1. rect_union(A, B) = <<upper, middle, lower>>
    BY <1>2 DEF rect_union
  <2>2. upper.t = hi.t /\ upper.b = lo.t /\ middle.t = lo.t /\ middle.b = head.b
          /\ lower.t = head.b /\ lower.b = foot.b
    BY DEF Proper, Rect
  <2>3. lo.t <= head.b
    BY <1>2 DEF Meet, Larger, Smaller, Proper, Rect
  <2> HIDE DEF upper, middle, lower
  <2>4. /\ ~ (Inside(x, y, upper) /\ Inside(x, y, middle))
        /\ ~ (Inside(x, y, upper) /\ Inside(x, y, lower))
        /\ ~ (Inside(x, y, middle) /\ Inside(x, y, lower))
    BY <2>2, <2>3 DEF Inside, Proper, Rect
  <2> QED BY <2>1, <2>4
<1> QED BY <1>1, <1>2

-----------------------------------------------------------------------------
(* Numbers *)

\* A set of numbers that is not empty has a least element.
LEMMA LeastExists ==
  ASSUME NEW S \in SUBSET Nat, S # {}
  PROVE  \E j \in S : \A k \in S : j <= k
  <1> DEFINE less == {ss \in Nat \X Nat : ss[1] < ss[2]}
  <1>1. IsWellFoundedOn(less, Nat)
    BY NatLessThanWellFounded DEF OpToRel
  <1>2. PICK j \in S : \A k \in S : ~ (<<k, j>> \in less)
    <2> HIDE DEF less
    <2> QED BY <1>1, WFMin
  <1>3. ASSUME NEW k \in S PROVE j <= k
    <2>1. j \in Nat /\ k \in Nat /\ ~ (<<k, j>> \in less)
      BY <1>2
    <2> QED BY <2>1
  <1> QED BY <1>3

-----------------------------------------------------------------------------
(* Windows and their indices *)

\* Division by the size of a table, and what it leaves.
LEMMA Division ==
  ASSUME NEW a \in Nat, NEW b \in Nat \ {0}
  PROVE  /\ a \div b \in Nat /\ a % b \in 0 .. b - 1
         /\ a = (a \div b) * b + (a % b)
  <1>1. a \div b \in Nat
    OBVIOUS
  <1>2. a % b \in 0 .. b - 1
    OBVIOUS
  <1>3. a = (a \div b) * b + (a % b)
    OBVIOUS
  <1> QED BY <1>1, <1>2, <1>3

\* A place in a table belongs to the table's process.
LEMMA Quotient ==
  ASSUME NEW p \in Nat, NEW b \in Nat \ {0}, NEW i \in 0 .. b - 1
  PROVE  (p * b + i) \div b = p
  OBVIOUS

\* An index has a process and a place in its table, and no other.
LEMMA Indices ==
  ASSUME NEW pid \in Nat, NEW i \in 0 .. MAX_PROC_WINDOWS - 1
  PROVE  Gid(pid, i) \in Nat /\ Pid(Gid(pid, i)) = pid
  <1>0. MAX_PROC_WINDOWS \in Nat \ {0}
    BY WindowsAssumption
  <1>1. MAX_PROC_WINDOWS \in Nat /\ pid * MAX_PROC_WINDOWS \in Nat
    BY <1>0
  <1>2. pid * MAX_PROC_WINDOWS + i \in Nat
    BY <1>1
  <1>3. (pid * MAX_PROC_WINDOWS + i) \div MAX_PROC_WINDOWS = pid
    BY <1>0, Quotient
  <1> QED BY <1>2, <1>3 DEF Gid, Pid

\* Every window has one.
LEMMA IndexOf ==
  ASSUME NEW g \in DOMAIN Windows
  PROVE  /\ g \in Nat /\ Pid(g) \in Nat
         /\ \E i \in 0 .. MAX_PROC_WINDOWS - 1 : g = Gid(Pid(g), i)
  <1>0. MAX_PROC_WINDOWS \in Nat \ {0}
    BY WindowsAssumption
  <1>1. g \in Nat
    BY WindowsAssumption
  <1>2. g \div MAX_PROC_WINDOWS \in Nat
    BY <1>0, <1>1, Division
  <1>3. g % MAX_PROC_WINDOWS \in 0 .. MAX_PROC_WINDOWS - 1
    BY <1>0, <1>1, Division
  <1>4. g = (g \div MAX_PROC_WINDOWS) * MAX_PROC_WINDOWS + (g % MAX_PROC_WINDOWS)
    BY <1>0, <1>1, Division
  <1> QED BY <1>1, <1>2, <1>3, <1>4 DEF Gid, Pid

\* The frame of a window.
ParentOf(g) ==
  IF g = desktop \/ Windows[g].parent_id = NULL THEN NULL ELSE Gid(Pid(g), Windows[g].parent_id)

\* What belongs to a list of a frame, and what may be in the stack.
Roots == {g \in Gids : ParentOf(g) = NULL}

\* The frame of a window is a frame of the same process, and in no other frame.
LEMMA Parents ==
  ASSUME NEW g \in Gids, ParentOf(g) # NULL
  PROVE  /\ g # desktop /\ g \in DOMAIN Windows /\ g \in Nat
         /\ ParentOf(g) \in Roots /\ ParentOf(g) \in DOMAIN Windows /\ ParentOf(g) \in Nat
         /\ ParentOf(g) < g /\ ParentOf(g) # g /\ Pid(ParentOf(g)) = Pid(g)
         /\ Class(ParentOf(g)) = "WINDOW_FRAME"
         /\ Windows[g].parent_id # NULL /\ ParentOf(g) = Gid(Pid(g), Windows[g].parent_id)
  <1>1. g # desktop /\ g \in DOMAIN Windows /\ Windows[g].parent_id # NULL
    BY DEF ParentOf, Gids
  <1>2. PICK p : p = Gid(Pid(g), Windows[g].parent_id)
    OBVIOUS
  <1>3. /\ Windows[g].parent_id \in 0 .. MAX_PROC_WINDOWS - 1
        /\ p \in DOMAIN Windows /\ p < g
        /\ Windows[p].class = "WINDOW_FRAME" /\ Windows[p].parent_id = NULL
    BY <1>1, <1>2, WindowsAssumption
  <1>4. g \in Nat /\ p \in Nat /\ p # desktop /\ Pid(g) \in Nat
    BY <1>1, <1>3, WindowsAssumption, IndexOf
  <1>5. Pid(p) = Pid(g)
    BY <1>2, <1>3, <1>4, Indices
  <1>6. ParentOf(g) = p
    BY <1>1, <1>2 DEF ParentOf
  <1>7. p \in Roots /\ Class(p) = "WINDOW_FRAME"
    BY <1>3, <1>4 DEF Roots, Gids, ParentOf, Class
  <1> QED BY <1>1, <1>2, <1>3, <1>4, <1>5, <1>6, <1>7

\* NULL is no window.
LEMMA NullIsNone == NULL \notin Gids /\ desktop = 0 /\ desktop \in Roots /\ Gids \subseteq Nat
  <1>1. desktop = 0
    BY WindowsAssumption DEF desktop, Gid
  <1> QED BY <1>1, WindowsAssumption DEF NULL, Gids, Roots, ParentOf

\* Windows are compared by numbers.
LEMMA ZindexType == \A g \in Gids : zindex(g) \in Int
  BY WindowsAssumption DEF zindex, Gids

\* The windows of a list are no more than there are.
LEMMA LevelsType ==
  MAX_WINDOW_LEVELS \in Nat \ {0} /\ IsFiniteSet(Gids) /\ MAX_WINDOW_LEVELS = Cardinality(Gids) + 1
  <1>1. IsFiniteSet(DOMAIN Windows)
    BY WindowsAssumption
  <1>2. IsFiniteSet(DOMAIN Windows \cup {desktop})
    BY <1>1, FS_AddElement
  <1>3. Gids = DOMAIN Windows \cup {desktop}
    BY DEF Gids
  <1>4. IsFiniteSet(Gids) /\ Cardinality(Gids) \in Nat
    BY <1>2, <1>3, FS_CardinalityType
  <1> QED BY <1>4 DEF MAX_WINDOW_LEVELS

-----------------------------------------------------------------------------
(* Lists *)

\* The window after one, at the end none.
After(w, g) == IF g = NULL THEN NULL ELSE w[g].next
\* The first n windows of a list.
WalkNext(w, g, i, at) == After(w, at)
Walks(w, g, t, n) ==
  t = [i \in 1 .. n |-> IF i = 1 THEN g ELSE WalkNext(w, g, i, t[i - 1])]

\* A list can be walked along.
LEMMA WalksExist ==
  ASSUME NEW w, NEW g
  PROVE  \A n \in Nat : \E t : Walks(w, g, t, n)
  <1> DEFINE Step(f, i) == IF i = 1 THEN g ELSE WalkNext(w, g, i, f[i - 1])
             bad == {n \in Nat : ~ \E t : Walks(w, g, t, n)}
  <1>1. \A t, n : Walks(w, g, t, n) <=> t = [i \in 1 .. n |-> Step(t, i)]
    BY DEF Walks
  <1>2. \A f, h, i : i = 1 \/ f[i - 1] = h[i - 1] => Step(f, i) = Step(h, i)
    OBVIOUS
  <1> SUFFICES ASSUME bad # {} PROVE FALSE
    OBVIOUS
  <1>3. bad \in SUBSET Nat
    OBVIOUS
  <1> HIDE DEF bad, Step
  <1>4. PICK n \in bad : \A k \in bad : n <= k
    BY <1>3, LeastExists
  <1>5. n \in Nat /\ ~ \E t : Walks(w, g, t, n)
    BY <1>4 DEF bad
  <1>6. PICK s : n = 0 \/ s = [i \in 1 .. n - 1 |-> Step(s, i)]
    <2>1. n = 0 \/ (n - 1 \in Nat /\ n - 1 \notin bad)
      BY <1>4, <1>5
    <2> QED BY <1>1, <2>1 DEF bad
  <1> DEFINE t == [i \in 1 .. n |-> Step(s, i)]
  <1>7. ASSUME NEW i \in 1 .. n PROVE Step(s, i) = Step(t, i)
    <2>1. CASE i = 1
      BY <1>2, <2>1
    <2>2. CASE i > 1
      <3>1. i - 1 \in 1 .. n - 1 /\ i - 1 \in 1 .. n /\ n # 0
        BY <1>5, <2>2
      <3>2. t[i - 1] = Step(s, i - 1) /\ s[i - 1] = Step(s, i - 1)
        BY <1>6, <3>1
      <3> HIDE DEF t
      <3> QED BY <1>2, <3>2
    <2> QED BY <1>5, <2>1, <2>2
  <1>8. t = [i \in 1 .. n |-> Step(t, i)]
    <2>1. t = [i \in 1 .. n |-> t[i]] /\ \A i \in 1 .. n : t[i] = Step(s, i)
      OBVIOUS
    <2> HIDE DEF t
    <2> QED BY <1>7, <2>1
  <1>9. Walks(w, g, t, n)
    BY <1>1, <1>8
  <1> QED BY <1>5, <1>9

\* What an entry of win_index[] may be.
Links == Gids \cup {NULL}
Win == [rect : Rect, next : Links, prev : Links, parent : Links, wm_root : Links, first : Links]
Wins == [Gids -> Win]

\* Windows that two states of win_index[] differ in by their links only.
SameBut(v, w) ==
  \A h \in Gids : v[h].rect = w[h].rect /\ v[h].parent = w[h].parent /\ v[h].wm_root = w[h].wm_root

\* What an assignment to a link of a window changes.
LEMMA PutNext ==
  ASSUME NEW w \in Wins, NEW g \in Gids, NEW to \in Links,
         NEW v, v = [w EXCEPT ![g].next = to]
  PROVE  /\ v \in Wins /\ SameBut(v, w)
         /\ \A h \in Gids : /\ v[h].next = (IF h = g THEN to ELSE w[h].next)
                            /\ v[h].prev = w[h].prev /\ v[h].first = w[h].first
                            /\ h # g => v[h] = w[h]
  BY DEF Wins, Win, SameBut

\* The assignment of prev changes nothing else.
LEMMA PutPrev ==
  ASSUME NEW w \in Wins, NEW g \in Gids, NEW to \in Links,
         NEW v, v = [w EXCEPT ![g].prev = to]
  PROVE  /\ v \in Wins /\ SameBut(v, w)
         /\ \A h \in Gids : /\ v[h].prev = (IF h = g THEN to ELSE w[h].prev)
                            /\ v[h].next = w[h].next /\ v[h].first = w[h].first
                            /\ h # g => v[h] = w[h]
  BY DEF Wins, Win, SameBut

\* Nor does that of the first window of a list.
LEMMA PutFirst ==
  ASSUME NEW w \in Wins, NEW g \in Gids, NEW to \in Links,
         NEW v, v = [w EXCEPT ![g].first = to]
  PROVE  /\ v \in Wins /\ SameBut(v, w)
         /\ \A h \in Gids : /\ v[h].first = (IF h = g THEN to ELSE w[h].first)
                            /\ v[h].next = w[h].next /\ v[h].prev = w[h].prev
                            /\ h # g => v[h] = w[h]
  BY DEF Wins, Win, SameBut

\* The assignment of prev to a window that may be none.
LEMMA SetPrevPuts ==
  ASSUME NEW w \in Wins, NEW g \in Links, NEW to \in Links
  PROVE  /\ SetPrev(w, g, to) \in Wins /\ SameBut(SetPrev(w, g, to), w)
         /\ \A h \in Gids : /\ SetPrev(w, g, to)[h].next = w[h].next
                            /\ SetPrev(w, g, to)[h].first = w[h].first
                            /\ SetPrev(w, g, to)[h].prev = (IF h = g THEN to ELSE w[h].prev)
                            /\ h # g => SetPrev(w, g, to)[h] = w[h]
  <1>1. CASE g = NULL
    BY <1>1, NullIsNone DEF SetPrev, SameBut
  <1>2. CASE g # NULL
    <2>1. g \in Gids /\ SetPrev(w, g, to) = [w EXCEPT ![g].prev = to]
      BY <1>2 DEF SetPrev, Links
    <2>2. PICK v : v = SetPrev(w, g, to)
      OBVIOUS
    <2>3. v = [w EXCEPT ![g].prev = to]
      BY <2>1, <2>2
    <2>4. v \in Wins /\ SameBut(v, w)
      BY <2>1, <2>3, PutPrev
    <2>5. ASSUME NEW h \in Gids
          PROVE  /\ v[h].prev = (IF h = g THEN to ELSE w[h].prev)
                 /\ v[h].next = w[h].next /\ v[h].first = w[h].first
                 /\ h # g => v[h] = w[h]
      BY <2>1, <2>3 DEF Wins, Win
    <2> QED BY <2>2, <2>4, <2>5
  <1> QED BY <1>1, <1>2

\* The same of next.
LEMMA SetNextPuts ==
  ASSUME NEW w \in Wins, NEW g \in Links, NEW to \in Links
  PROVE  /\ SetNext(w, g, to) \in Wins /\ SameBut(SetNext(w, g, to), w)
         /\ \A h \in Gids : /\ SetNext(w, g, to)[h].prev = w[h].prev
                            /\ SetNext(w, g, to)[h].first = w[h].first
                            /\ SetNext(w, g, to)[h].next = (IF h = g THEN to ELSE w[h].next)
                            /\ h # g => SetNext(w, g, to)[h] = w[h]
  <1>1. CASE g = NULL
    BY <1>1, NullIsNone DEF SetNext, SameBut
  <1>2. CASE g # NULL
    <2>1. g \in Gids /\ SetNext(w, g, to) = [w EXCEPT ![g].next = to]
      BY <1>2 DEF SetNext, Links
    <2>2. PICK v : v = SetNext(w, g, to)
      OBVIOUS
    <2>3. v = [w EXCEPT ![g].next = to]
      BY <2>1, <2>2
    <2>4. v \in Wins /\ SameBut(v, w)
      BY <2>1, <2>3, PutNext
    <2>5. ASSUME NEW h \in Gids
          PROVE  /\ v[h].next = (IF h = g THEN to ELSE w[h].next)
                 /\ v[h].prev = w[h].prev /\ v[h].first = w[h].first
                 /\ h # g => v[h] = w[h]
      BY <2>1, <2>3 DEF Wins, Win
    <2> QED BY <2>2, <2>4, <2>5
  <1> QED BY <1>1, <1>2

\* A loop that follows next takes one step after the other.
LEMMA WalkIs ==
  ASSUME NEW w, NEW g
  PROVE  Walks(w, g, Walk(w, g), MAX_WINDOW_LEVELS)
  <1> DEFINE at[i \in 1 .. MAX_WINDOW_LEVELS] ==
               IF i = 1 THEN g ELSE IF at[i - 1] = NULL THEN NULL ELSE w[at[i - 1]].next
  <1>1. Walk(w, g) = at
    BY DEF Walk
  <1>2. at = CHOOSE f : Walks(w, g, f, MAX_WINDOW_LEVELS)
    BY DEF at, Walks, WalkNext, After
  <1>3. \E f : Walks(w, g, f, MAX_WINDOW_LEVELS)
    BY WalksExist, LevelsType
  <1> HIDE DEF at
  <1> QED BY <1>1, <1>2, <1>3

\* The least number of a set.
LEMMA FirstIs ==
  ASSUME NEW S \in SUBSET Nat, S # {}
  PROVE  First(S) \in S /\ \A k \in S : First(S) <= k
  <1>1. \E j \in S : \A k \in S : j <= k
    BY LeastExists
  <1> QED BY <1>1 DEF First

\* It stays among the windows that links lead to.
LEMMA WalkClosed ==
  ASSUME NEW w, NEW M, NEW g \in M \cup {NULL}, \A h \in M : w[h].next \in M \cup {NULL}
  PROVE  \A i \in 1 .. MAX_WINDOW_LEVELS : Walk(w, g)[i] \in M \cup {NULL}
  <1> DEFINE t == Walk(w, g)
             bad == {i \in 1 .. MAX_WINDOW_LEVELS : t[i] \notin M \cup {NULL}}
  <1>1. t = [i \in 1 .. MAX_WINDOW_LEVELS |-> IF i = 1 THEN g ELSE After(w, t[i - 1])]
    BY WalkIs DEF Walks, WalkNext
  <1> HIDE DEF t
  <1> SUFFICES ASSUME bad # {} PROVE FALSE
    BY DEF t
  <1>2. PICK i \in bad : \A k \in bad : i <= k
    <2>1. bad \in SUBSET Nat
      BY LevelsType
    <2> HIDE DEF bad
    <2> QED BY <2>1, LeastExists
  <1>3. i \in 1 .. MAX_WINDOW_LEVELS /\ t[i] \notin M \cup {NULL} /\ MAX_WINDOW_LEVELS \in Nat
    BY <1>2, LevelsType
  <1>4. i # 1 /\ t[i] = After(w, t[i - 1])
    BY <1>1, <1>3
  <1>5. i - 1 \in 1 .. MAX_WINDOW_LEVELS /\ i - 1 \notin bad
    BY <1>2, <1>3, <1>4
  <1>6. t[i - 1] \in M \cup {NULL}
    BY <1>5
  <1> QED BY <1>3, <1>4, <1>6 DEF After

\* s is the list that begins with first.
Ordered(w, n, s) ==
  \A i \in 1 .. n : /\ w[s[i]].prev = (IF i = 1 THEN NULL ELSE s[i - 1])
                    /\ i < n => zindex(s[i]) >= zindex(s[i + 1])
IsList(w, first, n, s) ==
  /\ n \in Nat /\ s \in [1 .. n -> Gids]
  /\ \A i, j \in 1 .. n : s[i] = s[j] => i = j
  /\ first = (IF n = 0 THEN NULL ELSE s[1])
  /\ \A i \in 1 .. n : w[s[i]].next = (IF i < n THEN s[i + 1] ELSE NULL)
  /\ Ordered(w, n, s)

\* A list is no longer than the loops that follow it.
LEMMA ListShort ==
  ASSUME NEW w, NEW first, NEW n, NEW s, IsList(w, first, n, s)
  PROVE  n \in Nat /\ n < MAX_WINDOW_LEVELS
  <1>1. n \in Nat /\ s \in Injection(1 .. n, Gids)
    BY DEF IsList, Injection, IsInjective
  <1>2. Cardinality(1 .. n) <= Cardinality(Gids)
    BY <1>1, FS_Injection, LevelsType
  <1>3. Cardinality(1 .. n) = n
    BY <1>1, FS_Interval
  <1>4. Cardinality(Gids) \in Nat
    BY LevelsType, FS_CardinalityType
  <1> QED BY <1>1, <1>2, <1>3, <1>4, LevelsType

\* Such a loop meets the windows of the list one by one.
LEMMA WalkList ==
  ASSUME NEW w, NEW first, NEW n, NEW s, IsList(w, first, n, s)
  PROVE  \A i \in 1 .. MAX_WINDOW_LEVELS : Walk(w, first)[i] = (IF i <= n THEN s[i] ELSE NULL)
  <1> DEFINE t == Walk(w, first)
             bad == {i \in 1 .. MAX_WINDOW_LEVELS : ~ (t[i] = (IF i <= n THEN s[i] ELSE NULL))}
  <1>1. t = [i \in 1 .. MAX_WINDOW_LEVELS |-> IF i = 1 THEN first ELSE After(w, t[i - 1])]
    BY WalkIs DEF Walks, WalkNext
  <1> HIDE DEF t
  <1> SUFFICES ASSUME bad # {} PROVE FALSE
    BY DEF t
  <1>2. PICK i \in bad : \A k \in bad : i <= k
    <2>1. bad \in SUBSET Nat
      BY LevelsType
    <2> HIDE DEF bad
    <2> QED BY <2>1, LeastExists
  <1>3. i \in 1 .. MAX_WINDOW_LEVELS /\ ~ (t[i] = (IF i <= n THEN s[i] ELSE NULL))
        /\ MAX_WINDOW_LEVELS \in Nat /\ n \in Nat
    BY <1>2, LevelsType DEF IsList
  <1>4. CASE i = 1
    BY <1>1, <1>3, <1>4 DEF IsList
  <1>5. CASE i # 1
    <2>1. i - 1 \in 1 .. MAX_WINDOW_LEVELS /\ i - 1 \notin bad /\ t[i] = After(w, t[i - 1])
      BY <1>1, <1>2, <1>3, <1>5
    <2>2. t[i - 1] = (IF i - 1 <= n THEN s[i - 1] ELSE NULL)
      BY <2>1
    <2>3. CASE i - 1 <= n
      <3>1. i - 1 \in 1 .. n /\ s[i - 1] \in Gids
        BY <1>3, <2>1, <2>3 DEF IsList
      <3>2. t[i] = w[s[i - 1]].next
        BY <2>1, <2>2, <2>3, <3>1, NullIsNone DEF After
      <3>3. w[s[i - 1]].next = (IF i - 1 < n THEN s[(i - 1) + 1] ELSE NULL)
        BY <3>1 DEF IsList
      <3> QED BY <1>3, <3>1, <3>2, <3>3
    <2>4. CASE ~ (i - 1 <= n)
      BY <1>3, <2>1, <2>2, <2>4 DEF After
    <2> QED BY <2>3, <2>4
  <1> QED BY <1>4, <1>5

\* insert() comes to a window of the list, behind which it puts the new one.
LEMMA AboveList ==
  ASSUME NEW w, NEW first, NEW n, NEW s, IsList(w, first, n, s), n # 0,
         NEW new \in Gids, ~ (zindex(first) < zindex(new))
  PROVE  \E k \in 1 .. n : /\ Above(w, first, new) = s[k] /\ zindex(s[k]) >= zindex(new)
                           /\ k < n => zindex(new) >= zindex(s[k + 1])
  <1> DEFINE walk == Walk(w, first)
             stops == {i \in 1 .. MAX_WINDOW_LEVELS - 1 : walk[i] # NULL /\
                         (walk[i + 1] = NULL \/ zindex(walk[i + 1]) < zindex(new))}
  <1>1. \A i \in 1 .. MAX_WINDOW_LEVELS : walk[i] = (IF i <= n THEN s[i] ELSE NULL)
    BY WalkList
  <1>2. n \in Nat /\ n < MAX_WINDOW_LEVELS /\ MAX_WINDOW_LEVELS \in Nat
    BY ListShort, LevelsType
  <1>3. Above(w, first, new) = walk[First(stops)]
    BY DEF Above
  <1> HIDE DEF walk
  <1>4. n \in stops
    <2>1. n \in 1 .. MAX_WINDOW_LEVELS - 1 /\ n \in 1 .. MAX_WINDOW_LEVELS
          /\ n + 1 \in 1 .. MAX_WINDOW_LEVELS
      BY <1>2
    <2>2. walk[n] = s[n] /\ s[n] \in Gids /\ walk[n + 1] = NULL
      BY <1>1, <1>2, <2>1 DEF IsList
    <2> QED BY <2>1, <2>2, NullIsNone
  <1>5. First(stops) \in stops /\ \A j \in stops : First(stops) <= j
    <2>1. stops \in SUBSET Nat
      BY <1>2
    <2> HIDE DEF stops
    <2> QED BY <1>4, <2>1, FirstIs
  <1>6. PICK k : k = First(stops)
    OBVIOUS
  <1>7. /\ k \in 1 .. MAX_WINDOW_LEVELS - 1 /\ walk[k] # NULL
        /\ walk[k + 1] = NULL \/ zindex(walk[k + 1]) < zindex(new)
    BY <1>5, <1>6
  <1>8. k \in Nat /\ k \in 1 .. MAX_WINDOW_LEVELS /\ k + 1 \in 1 .. MAX_WINDOW_LEVELS
    BY <1>2, <1>7
  <1>9. k \in 1 .. n /\ walk[k] = s[k]
    BY <1>1, <1>2, <1>7, <1>8
  <1>10. ASSUME NEW i \in 1 .. n PROVE s[i] \in Gids /\ s[i] # NULL /\ zindex(s[i]) \in Int
    <2>1. s[i] \in Gids
      BY DEF IsList
    <2> QED BY <2>1, NullIsNone, ZindexType
  <1>11. zindex(new) \in Int
    BY ZindexType
  <1>12. k < n => zindex(new) >= zindex(s[k + 1])
    <2> SUFFICES ASSUME k < n PROVE zindex(new) >= zindex(s[k + 1])
      OBVIOUS
    <2>1. k + 1 \in 1 .. n /\ walk[k + 1] = s[k + 1]
      BY <1>1, <1>2, <1>8
    <2> QED BY <1>7, <1>10, <1>11, <2>1
  <1>13. zindex(s[k]) >= zindex(new)
    <2>1. CASE k = 1
      <3>1. first = s[1]
        BY <1>9, <2>1 DEF IsList
      <3> QED BY <1>9, <1>10, <1>11, <2>1, <3>1
    <2>2. CASE k # 1
      <3>1. /\ k - 1 \in 1 .. n /\ k - 1 \in 1 .. MAX_WINDOW_LEVELS
            /\ k - 1 \in 1 .. MAX_WINDOW_LEVELS - 1 /\ (k - 1) + 1 = k /\ ~ (k <= k - 1)
        BY <1>2, <1>8, <1>9, <2>2
      <3>2. k - 1 \notin stops
        <4> HIDE DEF stops
        <4> QED BY <1>5, <1>6, <3>1
      <3>3. walk[k - 1] # NULL
        BY <1>1, <1>10, <3>1
      <3>4. ~ (zindex(walk[(k - 1) + 1]) < zindex(new))
        BY <3>1, <3>2, <3>3
      <3> QED BY <1>9, <1>10, <1>11, <3>1, <3>4
    <2> QED BY <2>1, <2>2
  <1> HIDE DEF stops
  <1> QED BY <1>3, <1>6, <1>9, <1>12, <1>13

\* The windows of a list.
Seen(n, s) == {s[i] : i \in 1 .. n}

\* A window that is linked behind the k-th of a list is a new one of the list.
LEMMA Splice ==
  ASSUME NEW w, NEW v, NEW first, NEW n, NEW s, IsList(w, first, n, s),
         NEW k \in 0 .. n, NEW new \in Gids, new \notin Seen(n, s),
         \A i \in 1 .. n : i # k => v[s[i]].next = w[s[i]].next,
         k # 0 => v[s[k]].next = new,
         v[new].next = (IF k < n THEN s[k + 1] ELSE NULL),
         \A i \in 1 .. n : i # k + 1 => v[s[i]].prev = w[s[i]].prev,
         k < n => v[s[k + 1]].prev = new,
         v[new].prev = (IF k = 0 THEN NULL ELSE s[k]),
         k # 0 => zindex(s[k]) >= zindex(new),
         k < n => zindex(new) >= zindex(s[k + 1])
  PROVE  \E z : /\ IsList(v, IF k = 0 THEN new ELSE first, n + 1, z)
                /\ Seen(n + 1, z) = Seen(n, s) \cup {new}
  <1> DEFINE z == [i \in 1 .. n + 1 |-> IF i <= k THEN s[i] ELSE IF i = k + 1 THEN new
                                        ELSE s[i - 1]]
  <1>1. /\ n \in Nat /\ s \in [1 .. n -> Gids] /\ k \in Nat /\ k <= n
        /\ \A i, j \in 1 .. n : s[i] = s[j] => i = j
        /\ first = (IF n = 0 THEN NULL ELSE s[1])
        /\ \A i \in 1 .. n : w[s[i]].next = (IF i < n THEN s[i + 1] ELSE NULL)
    BY DEF IsList
  <1>2. ASSUME NEW i \in 1 .. n PROVE s[i] \in Gids /\ s[i] # new
    BY <1>1 DEF Seen
  <1>3. ASSUME NEW i \in 1 .. n + 1
        PROVE  /\ z[i] = (IF i <= k THEN s[i] ELSE IF i = k + 1 THEN new ELSE s[i - 1])
               /\ i <= k => i \in 1 .. n
               /\ i > k + 1 => i - 1 \in 1 .. n
    BY <1>1
  <1>4. z \in [1 .. n + 1 -> Gids]
    BY <1>1, <1>2
  <1> HIDE DEF z
  <1>5. ASSUME NEW i \in 1 .. n + 1, NEW j \in 1 .. n + 1, z[i] = z[j] PROVE i = j
    <2>1. /\ z[i] = (IF i <= k THEN s[i] ELSE IF i = k + 1 THEN new ELSE s[i - 1])
          /\ z[j] = (IF j <= k THEN s[j] ELSE IF j = k + 1 THEN new ELSE s[j - 1])
          /\ i <= k => i \in 1 .. n
          /\ i > k + 1 => i - 1 \in 1 .. n
          /\ j <= k => j \in 1 .. n
          /\ j > k + 1 => j - 1 \in 1 .. n
      BY <1>3
    <2>2. /\ i <= k => s[i] # new
          /\ j <= k => s[j] # new
          /\ i > k + 1 => s[i - 1] # new
          /\ j > k + 1 => s[j - 1] # new
      BY <1>2, <2>1
    <2>3. CASE i <= k
      <3>1. z[i] = s[i] /\ i \in 1 .. n /\ s[i] # new
        BY <2>1, <2>2, <2>3
      <3>2. CASE j <= k
        BY <1>1, <1>5, <2>1, <3>1, <3>2
      <3>3. CASE j > k + 1
        <4>1. z[j] = s[j - 1] /\ j - 1 \in 1 .. n
          BY <1>1, <2>1, <3>3
        <4>2. i = j - 1
          BY <1>1, <1>5, <3>1, <4>1
        <4> QED BY <1>1, <2>3, <3>3, <4>2
      <3>4. CASE j = k + 1
        <4>1. z[j] = new
          BY <1>1, <2>1, <3>4
        <4> QED BY <1>5, <3>1, <4>1
      <3> QED BY <1>1, <3>2, <3>3, <3>4
    <2>4. CASE i = k + 1
      <3>1. z[i] = new
        BY <1>1, <2>1, <2>4
      <3>2. j <= k => z[j] # new
        BY <2>1, <2>2
      <3>3. j > k + 1 => z[j] # new
        <4>1. ASSUME j > k + 1 PROVE z[j] = s[j - 1]
          BY <1>1, <2>1, <4>1
        <4> QED BY <2>2, <4>1
      <3> QED BY <1>1, <1>5, <2>4, <3>1, <3>2, <3>3
    <2>5. CASE i > k + 1
      <3>1. z[i] = s[i - 1] /\ i - 1 \in 1 .. n /\ s[i - 1] # new
        BY <1>1, <2>1, <2>2, <2>5
      <3>2. CASE j <= k
        <4>1. z[j] = s[j] /\ j \in 1 .. n
          BY <2>1, <3>2
        <4>2. j = i - 1
          BY <1>1, <1>5, <3>1, <4>1
        <4> QED BY <1>1, <2>5, <3>2, <4>2
      <3>3. CASE j > k + 1
        <4>1. z[j] = s[j - 1] /\ j - 1 \in 1 .. n
          BY <1>1, <2>1, <3>3
        <4>2. i - 1 = j - 1
          BY <1>1, <1>5, <3>1, <4>1
        <4> QED BY <4>2
      <3>4. CASE j = k + 1
        <4>1. z[j] = new
          BY <1>1, <2>1, <3>4
        <4> QED BY <1>5, <3>1, <4>1
      <3> QED BY <1>1, <3>2, <3>3, <3>4
    <2> QED BY <1>1, <2>3, <2>4, <2>5
  <1>6. ASSUME NEW i \in 1 .. n + 1
        PROVE  v[z[i]].next = (IF i < n + 1 THEN z[i + 1] ELSE NULL)
    <2>1. /\ z[i] = (IF i <= k THEN s[i] ELSE IF i = k + 1 THEN new ELSE s[i - 1])
          /\ i < n + 1 => /\ i + 1 \in 1 .. n + 1
                          /\ z[i + 1] = (IF i + 1 <= k THEN s[i + 1] ELSE IF i + 1 = k + 1 THEN new
                                         ELSE s[(i + 1) - 1])
      <3>1. i < n + 1 => i + 1 \in 1 .. n + 1
        BY <1>1
      <3> QED BY <1>3, <3>1
    <2>2. CASE i < k
      <3>1. i \in 1 .. n /\ i # k /\ i < n /\ i < n + 1 /\ i + 1 <= k /\ i <= k
        BY <1>1, <2>2
      <3>2. v[s[i]].next = w[s[i]].next /\ w[s[i]].next = s[i + 1]
        BY <1>1, <3>1
      <3> QED BY <2>1, <3>1, <3>2
    <2>3. CASE i = k
      <3>1. i <= k /\ k # 0 /\ i < n + 1 /\ ~ (i + 1 <= k) /\ i + 1 = k + 1
        BY <1>1, <2>3
      <3> QED BY <2>1, <2>3, <3>1
    <2>4. CASE i = k + 1
      <3>1. ~ (i <= k) /\ ~ (i + 1 <= k) /\ ~ (i + 1 = k + 1) /\ (i + 1) - 1 = k + 1
            /\ (i < n + 1 <=> k < n)
        BY <1>1, <2>4
      <3> QED BY <2>1, <2>4, <3>1
    <2>5. CASE i > k + 1
      <3>1. /\ i - 1 \in 1 .. n /\ i - 1 # k /\ ~ (i <= k) /\ ~ (i = k + 1)
            /\ ~ (i + 1 <= k) /\ ~ (i + 1 = k + 1) /\ (i + 1) - 1 = (i - 1) + 1
            /\ (i < n + 1 <=> i - 1 < n)
        BY <1>1, <2>5
      <3>2. v[s[i - 1]].next = (IF i - 1 < n THEN s[(i - 1) + 1] ELSE NULL)
        BY <1>1, <3>1
      <3> QED BY <2>1, <3>1, <3>2
    <2>6. i < k \/ i = k \/ i = k + 1 \/ i > k + 1
      BY <1>1
    <2> QED BY <2>2, <2>3, <2>4, <2>5, <2>6
  <1>7. (IF k = 0 THEN new ELSE first) = (IF n + 1 = 0 THEN NULL ELSE z[1])
    <2>1. 1 \in 1 .. n + 1 /\ n + 1 # 0
      BY <1>1
    <2>2. z[1] = (IF 1 <= k THEN s[1] ELSE IF 1 = k + 1 THEN new ELSE s[1 - 1])
      BY <1>3, <2>1
    <2> QED BY <1>1, <2>1, <2>2
  <1>8. Seen(n + 1, z) = Seen(n, s) \cup {new}
    <2>1. ASSUME NEW i \in 1 .. n + 1 PROVE z[i] \in Seen(n, s) \cup {new}
      BY <1>1, <1>3 DEF Seen
    <2>2. ASSUME NEW i \in 1 .. n PROVE \E j \in 1 .. n + 1 : z[j] = s[i]
      <3>1. CASE i <= k
        <4>1. i \in 1 .. n + 1
          BY <1>1
        <4> QED BY <1>3, <3>1, <4>1
      <3>2. CASE ~ (i <= k)
        <4>1. i + 1 \in 1 .. n + 1 /\ ~ (i + 1 <= k) /\ ~ (i + 1 = k + 1) /\ (i + 1) - 1 = i
          BY <1>1, <3>2
        <4> QED BY <1>3, <4>1
      <3> QED BY <3>1, <3>2
    <2>3. \E j \in 1 .. n + 1 : z[j] = new
      <3>1. k + 1 \in 1 .. n + 1 /\ ~ (k + 1 <= k)
        BY <1>1
      <3> QED BY <1>3, <3>1
    <2> QED BY <2>1, <2>2, <2>3 DEF Seen
  <1>9. IsList(v, IF k = 0 THEN new ELSE first, n + 1, z)
    <2>1. n + 1 \in Nat
      BY <1>1
    <2>2. Ordered(v, n + 1, z)
      <3> SUFFICES ASSUME NEW i \in 1 .. n + 1
                   PROVE  /\ v[z[i]].prev = (IF i = 1 THEN NULL ELSE z[i - 1])
                          /\ i < n + 1 => zindex(z[i]) >= zindex(z[i + 1])
        BY DEF Ordered
      <3>0. \A j \in 1 .. n : /\ w[s[j]].prev = (IF j = 1 THEN NULL ELSE s[j - 1])
                              /\ j < n => zindex(s[j]) >= zindex(s[j + 1])
        BY DEF IsList, Ordered
      <3>1. /\ z[i] = (IF i <= k THEN s[i] ELSE IF i = k + 1 THEN new ELSE s[i - 1])
            /\ i < n + 1 => z[i + 1] = (IF i + 1 <= k THEN s[i + 1]
                                        ELSE IF i + 1 = k + 1 THEN new ELSE s[(i + 1) - 1])
            /\ i # 1 => z[i - 1] = (IF i - 1 <= k THEN s[i - 1]
                                    ELSE IF i - 1 = k + 1 THEN new ELSE s[(i - 1) - 1])
        <4>1. (i < n + 1 => i + 1 \in 1 .. n + 1) /\ (i # 1 => i - 1 \in 1 .. n + 1)
          BY <1>1
        <4> QED BY <1>3, <4>1
      <3>2. CASE i < k
        <4>1. /\ i \in 1 .. n /\ i # k + 1 /\ i < n /\ i < n + 1 /\ i + 1 <= k /\ i <= k
              /\ i - 1 <= k
          BY <1>1, <3>2
        <4> QED BY <3>0, <3>1, <4>1
      <3>3. CASE i = k
        <4>1. /\ i \in 1 .. n /\ i # k + 1 /\ k # 0 /\ i < n + 1 /\ ~ (i + 1 <= k)
              /\ i + 1 = k + 1 /\ i <= k /\ i - 1 <= k
          BY <1>1, <3>3
        <4> QED BY <3>0, <3>1, <3>3, <4>1
      <3>4. CASE i = k + 1
        <4>1. /\ ~ (i <= k) /\ ~ (i + 1 <= k) /\ ~ (i + 1 = k + 1) /\ (i + 1) - 1 = k + 1
              /\ (i < n + 1 <=> k < n) /\ (i = 1 <=> k = 0) /\ i - 1 = k /\ i - 1 <= k
          BY <1>1, <3>4
        <4> QED BY <3>1, <3>4, <4>1
      <3>5. CASE i = k + 2
        <4>1. /\ i - 1 = k + 1 /\ k < n /\ i - 1 \in 1 .. n /\ i # 1 /\ ~ (i <= k)
              /\ ~ (i = k + 1) /\ ~ (i - 1 <= k) /\ ~ (i + 1 <= k) /\ ~ (i + 1 = k + 1)
              /\ (i + 1) - 1 = (i - 1) + 1 /\ (i < n + 1 <=> i - 1 < n)
          BY <1>1, <3>5
        <4>2. z[i] = s[i - 1] /\ z[i - 1] = new /\ (i < n + 1 => z[i + 1] = s[(i - 1) + 1])
          BY <3>1, <4>1
        <4>3. v[s[i - 1]].prev = new
          BY <4>1
        <4> QED BY <3>0, <4>1, <4>2, <4>3
      <3>6. CASE i > k + 2
        <4>1. /\ i - 1 # k + 1 /\ i - 1 \in 1 .. n /\ i - 1 # 1 /\ i # 1 /\ ~ (i <= k)
              /\ ~ (i = k + 1) /\ ~ (i - 1 <= k) /\ ~ (i + 1 <= k) /\ ~ (i + 1 = k + 1)
              /\ (i + 1) - 1 = (i - 1) + 1 /\ (i < n + 1 <=> i - 1 < n)
          BY <1>1, <3>6
        <4>2. /\ z[i] = s[i - 1] /\ z[i - 1] = s[(i - 1) - 1]
              /\ i < n + 1 => z[i + 1] = s[(i - 1) + 1]
          BY <3>1, <4>1
        <4>3. v[s[i - 1]].prev = s[(i - 1) - 1]
          BY <3>0, <4>1
        <4> QED BY <3>0, <4>1, <4>2, <4>3
      <3>7. i < k \/ i = k \/ i = k + 1 \/ i = k + 2 \/ i > k + 2
        BY <1>1
      <3> QED BY <3>2, <3>3, <3>4, <3>5, <3>6, <3>7
    <2> QED BY <1>4, <1>5, <1>6, <1>7, <2>1, <2>2 DEF IsList
  <1> QED BY <1>8, <1>9

\* insert() makes a window one of the list of a frame, and touches nothing but the
\* links of this list.
LEMMA InsertList ==
  ASSUME NEW w \in Wins, NEW p \in Gids, NEW new \in Gids, p # new,
         NEW n, NEW s, IsList(w, w[p].first, n, s), new \notin Seen(n, s), p \notin Seen(n, s)
  PROVE  /\ Insert(w, p, new) \in Wins /\ SameBut(Insert(w, p, new), w)
         /\ \A h \in Gids : h # p => Insert(w, p, new)[h].first = w[h].first
         /\ \A h \in Gids \ Seen(n, s) : h # new =>
              Insert(w, p, new)[h].next = w[h].next /\ Insert(w, p, new)[h].prev = w[h].prev
         /\ \A h \in Gids \ Seen(n, s) : h # new /\ h # p => Insert(w, p, new)[h] = w[h]
         /\ \E z : /\ IsList(Insert(w, p, new), Insert(w, p, new)[p].first, n + 1, z)
                   /\ Seen(n + 1, z) = Seen(n, s) \cup {new}
  <1> DEFINE first == w[p].first
  <1>1. PICK v : v = Insert(w, p, new)
    OBVIOUS
  <1>2. /\ n \in Nat /\ s \in [1 .. n -> Gids]
        /\ \A i, j \in 1 .. n : s[i] = s[j] => i = j
        /\ first = (IF n = 0 THEN NULL ELSE s[1])
        /\ \A i \in 1 .. n : w[s[i]].next = (IF i < n THEN s[i + 1] ELSE NULL)
    BY DEF IsList
  <1>3. ASSUME NEW i \in 1 .. n PROVE s[i] \in Gids /\ s[i] # new /\ s[i] # p /\ s[i] \in Seen(n, s)
    BY <1>2 DEF Seen
  <1>4. NULL \in Links /\ new \in Links /\ first \in Links /\ Gids \subseteq Links
    BY DEF Links, Wins, Win
  <1> SUFFICES /\ v \in Wins /\ SameBut(v, w)
               /\ \A h \in Gids : h # p => v[h].first = w[h].first
               /\ \A h \in Gids \ Seen(n, s) : h # new =>
                    v[h].next = w[h].next /\ v[h].prev = w[h].prev
               /\ \A h \in Gids \ Seen(n, s) : h # new /\ h # p => v[h] = w[h]
               /\ \E z : /\ IsList(v, v[p].first, n + 1, z)
                         /\ Seen(n + 1, z) = Seen(n, s) \cup {new}
    BY <1>1
  <1>5. CASE first = NULL \/ zindex(first) < zindex(new)
    <2>1. PICK u : u = SetPrev(w, first, new)
      OBVIOUS
    <2>2. /\ u \in Wins /\ SameBut(u, w)
          /\ \A h \in Gids : /\ u[h].next = w[h].next /\ u[h].first = w[h].first
                             /\ u[h].prev = (IF h = first THEN new ELSE w[h].prev)
                             /\ h # first => u[h] = w[h]
      <3> HIDE DEF first
      <3>0. first \in Links /\ new \in Links
        BY <1>4
      <3>1. u \in Wins /\ SameBut(u, w)
        BY <3>0, <2>1, SetPrevPuts
      <3>2. ASSUME NEW h \in Gids
            PROVE  /\ u[h].next = w[h].next /\ u[h].first = w[h].first
                   /\ u[h].prev = (IF h = first THEN new ELSE w[h].prev)
                   /\ h # first => u[h] = w[h]
        <4>1. u[h].next = w[h].next
          BY <3>0, <2>1, SetPrevPuts
        <4>2. u[h].first = w[h].first
          BY <3>0, <2>1, SetPrevPuts
        <4>3. u[h].prev = (IF h = first THEN new ELSE w[h].prev)
          BY <3>0, <2>1, SetPrevPuts
        <4>4. h # first => u[h] = w[h]
          BY <3>0, <2>1, SetPrevPuts
        <4> QED BY <4>1, <4>2, <4>3, <4>4
      <3> QED BY <3>1, <3>2
    <2>3. v = [u EXCEPT ![new].prev = NULL, ![new].next = first, ![p].first = new]
      BY <1>1, <1>5, <2>1 DEF Insert
    <2>4. v \in Wins /\ SameBut(v, u)
      <3>1. u \in Wins /\ new \in Gids /\ p \in Gids
        BY <2>2
      <3>2. NULL \in Links /\ first \in Links /\ new \in Links
        BY <1>4 DEF Links
      <3> HIDE DEF first
      <3>3. v \in Wins
        BY <2>3, <3>1, <3>2 DEF Wins, Win
      <3>4. SameBut(v, u)
        BY <2>3, <3>1 DEF Wins, Win, SameBut
      <3> QED BY <3>3, <3>4
    <2>5. /\ \A h \in Gids : /\ v[h].next = (IF h = new THEN first ELSE u[h].next)
                             /\ v[h].prev = (IF h = new THEN NULL ELSE u[h].prev)
                             /\ v[h].first = (IF h = p THEN new ELSE u[h].first)
                             /\ h # new /\ h # p => v[h] = u[h]
      BY <2>2, <2>3 DEF Wins, Win
    <2>6. first = NULL \/ first \in Seen(n, s)
      BY <1>2, <1>3
    <2> HIDE DEF first
    <2>7. \E z : /\ IsList(v, v[p].first, n + 1, z)
                 /\ Seen(n + 1, z) = Seen(n, s) \cup {new}
      <3>1. 0 \in 0 .. n /\ v[p].first = (IF 0 = 0 THEN new ELSE first)
        BY <1>2, <2>5
      <3>2. \A i \in 1 .. n : v[s[i]].next = w[s[i]].next
        BY <1>3, <2>2, <2>5
      <3>3. v[new].next = (IF 0 < n THEN s[0 + 1] ELSE NULL)
        BY <1>2, <2>5
      <3>4. IsList(w, first, n, s)
        BY DEF first
      <3>5. ASSUME NEW i \in 1 .. n, i # 0 + 1 PROVE v[s[i]].prev = w[s[i]].prev
        <4>1. s[i] # first
          BY <1>2, <3>5
        <4> QED BY <1>3, <2>2, <2>5, <4>1
      <3>6. 0 < n => /\ v[s[0 + 1]].prev = new /\ zindex(new) >= zindex(s[0 + 1])
        <4> SUFFICES ASSUME 0 < n
                     PROVE  v[s[1]].prev = new /\ zindex(new) >= zindex(s[1])
          OBVIOUS
        <4>1. 1 \in 1 .. n /\ first = s[1] /\ first \in Gids /\ first # new /\ first # NULL
          BY <1>2, <1>3, NullIsNone
        <4>2. v[first].prev = new
          BY <2>2, <2>5, <4>1
        <4>3. zindex(first) \in Int /\ zindex(new) \in Int /\ zindex(first) < zindex(new)
          BY <1>5, <4>1, ZindexType
        <4> QED BY <4>1, <4>2, <4>3
      <3>7. v[new].prev = NULL
        BY <2>5
      <3> QED BY <3>1, <3>2, <3>3, <3>4, <3>5, <3>6, <3>7, Splice
    <2>8. SameBut(v, w)
      BY <2>2, <2>4 DEF SameBut
    <2> QED BY <2>2, <2>4, <2>5, <2>6, <2>7, <2>8, NullIsNone
  <1>6. CASE ~ (first = NULL \/ zindex(first) < zindex(new))
    <2>1. n # 0
      BY <1>2, <1>6
    <2>2. PICK k \in 1 .. n : /\ Above(w, first, new) = s[k] /\ zindex(s[k]) >= zindex(new)
                              /\ k < n => zindex(new) >= zindex(s[k + 1])
      BY <1>6, <2>1, AboveList
    <2>3. PICK ptr : ptr = s[k]
      OBVIOUS
    <2>4. PICK next : next = w[ptr].next
      OBVIOUS
    <2>5. /\ next = (IF k < n THEN s[k + 1] ELSE NULL) /\ next \in Links
          /\ ptr \in Gids /\ ptr # new /\ ptr # p /\ ptr \in Seen(n, s)
          /\ next = NULL \/ next \in Seen(n, s)
      <3>1. next = (IF k < n THEN s[k + 1] ELSE NULL)
        BY <1>2, <2>3, <2>4
      <3>2. k < n => k + 1 \in 1 .. n
        BY <1>2
      <3> QED BY <1>3, <1>4, <2>3, <3>1, <3>2
    <2>6. PICK u : u = SetPrev(w, next, new)
      OBVIOUS
    <2>7. /\ u \in Wins /\ SameBut(u, w)
          /\ \A h \in Gids : /\ u[h].next = w[h].next /\ u[h].first = w[h].first
                             /\ u[h].prev = (IF h = next THEN new ELSE w[h].prev)
                             /\ h # next => u[h] = w[h]
      <3> HIDE DEF first
      <3>0. next \in Links /\ new \in Links
        BY <1>4, <2>5
      <3>1. u \in Wins /\ SameBut(u, w)
        BY <3>0, <2>6, SetPrevPuts
      <3>2. ASSUME NEW h \in Gids
            PROVE  /\ u[h].next = w[h].next /\ u[h].first = w[h].first
                   /\ u[h].prev = (IF h = next THEN new ELSE w[h].prev)
                   /\ h # next => u[h] = w[h]
        <4>1. u[h].next = w[h].next
          BY <3>0, <2>6, SetPrevPuts
        <4>2. u[h].first = w[h].first
          BY <3>0, <2>6, SetPrevPuts
        <4>3. u[h].prev = (IF h = next THEN new ELSE w[h].prev)
          BY <3>0, <2>6, SetPrevPuts
        <4>4. h # next => u[h] = w[h]
          BY <3>0, <2>6, SetPrevPuts
        <4> QED BY <4>1, <4>2, <4>3, <4>4
      <3> QED BY <3>1, <3>2
    <2>8. v = [u EXCEPT ![new].next = next, ![new].prev = ptr, ![ptr].next = new]
      BY <1>1, <1>6, <2>2, <2>3, <2>4, <2>6 DEF Insert
    <2>9. v \in Wins /\ SameBut(v, u)
      <3>1. PICK u1 : u1 = [u EXCEPT ![new].next = next, ![new].prev = ptr]
        OBVIOUS
      <3>2. u1 \in Wins /\ SameBut(u1, u)
        <4>1. PICK u2 : u2 = [u EXCEPT ![new].next = next]
          OBVIOUS
        <4>2. u2 \in Wins /\ SameBut(u2, u)
          BY <2>5, <2>7, <4>1 DEF Wins, Win, SameBut
        <4>3. u1 = [u2 EXCEPT ![new].prev = ptr] /\ ptr \in Links
          BY <1>4, <2>5, <3>1, <4>1
        <4>4. u1 \in Wins /\ SameBut(u1, u2)
          BY <4>2, <4>3 DEF Wins, Win, SameBut
        <4> QED BY <4>2, <4>4 DEF SameBut
      <3>3. v = [u1 EXCEPT ![ptr].next = new]
        BY <2>8, <3>1
      <3>4. v \in Wins /\ SameBut(v, u1)
        BY <1>4, <2>5, <3>2, <3>3 DEF Wins, Win, SameBut
      <3> QED BY <3>2, <3>4 DEF SameBut
    <2>10. \A h \in Gids : /\ v[h].next = (IF h = new THEN next ELSE IF h = ptr THEN new
                                           ELSE u[h].next)
                           /\ v[h].prev = (IF h = new THEN ptr ELSE u[h].prev)
                           /\ v[h].first = u[h].first
                           /\ h # new /\ h # ptr => v[h] = u[h]
      BY <2>5, <2>7, <2>8 DEF Wins, Win
    <2> HIDE DEF first
    <2>11. \E z : /\ IsList(v, v[p].first, n + 1, z)
                  /\ Seen(n + 1, z) = Seen(n, s) \cup {new}
      <3>1. k \in 0 .. n /\ k # 0 /\ k \in 1 .. n
        BY <1>2
      <3>2. \A i \in 1 .. n : i # k => v[s[i]].next = w[s[i]].next
        <4> SUFFICES ASSUME NEW i \in 1 .. n, i # k PROVE v[s[i]].next = w[s[i]].next
          OBVIOUS
        <4>1. s[i] # ptr
          BY <1>2, <2>3, <3>1
        <4> QED BY <1>3, <2>7, <2>10, <4>1
      <3>3. v[new].next = (IF k < n THEN s[k + 1] ELSE NULL) /\ v[s[k]].next = new
        BY <2>3, <2>5, <2>10
      <3>4. IsList(w, first, n, s) /\ v[p].first = (IF k = 0 THEN new ELSE first)
        BY <2>7, <2>10, <3>1 DEF first
      <3>5. ASSUME NEW i \in 1 .. n, i # k + 1 PROVE v[s[i]].prev = w[s[i]].prev
        <4>1. s[i] # next
          <5>1. k < n => k + 1 \in 1 .. n
            BY <1>2
          <5> QED BY <1>2, <1>3, <2>5, <3>5, <5>1, NullIsNone
        <4> QED BY <1>3, <2>7, <2>10, <4>1
      <3>6. k < n => v[s[k + 1]].prev = new
        <4>1. k < n => next = s[k + 1] /\ next \in Gids /\ next # new
          <5>1. k < n => k + 1 \in 1 .. n
            BY <1>2
          <5> QED BY <1>3, <2>5, <5>1
        <4> QED BY <2>7, <2>10, <4>1
      <3>7. v[new].prev = (IF k = 0 THEN NULL ELSE s[k])
        BY <2>3, <2>10, <3>1
      <3> QED BY <2>2, <3>1, <3>2, <3>3, <3>4, <3>5, <3>6, <3>7, Splice
    <2>12. SameBut(v, w)
      BY <2>7, <2>9 DEF SameBut
    <2> QED BY <2>5, <2>7, <2>9, <2>10, <2>11, <2>12, NullIsNone
  <1> QED BY <1>5, <1>6

-----------------------------------------------------------------------------
(* Windows of the manager *)

\* The known windows of a frame.
Kids(M, f) == {h \in M : ParentOf(h) = f}

\* The windows of a set M and no others are known to the manager: the frame of each is
\* the one that its process named, and known too; the stack links roots; the list of
\* a frame has its children; and a child is where it was put in its frame.
Framed(w, M) ==
  \A g \in M : w[g].parent = ParentOf(g) /\ (ParentOf(g) # NULL => ParentOf(g) \in M)
Stacked(w, M) ==
  \A g \in M \cap Roots : /\ w[g].next \in (M \cap Roots) \cup {NULL}
                          /\ w[g].prev \in (M \cap Roots) \cup {NULL}
Listed(w, M) ==
  \A f \in M : \E n, s : IsList(w, w[f].first, n, s) /\ Seen(n, s) = Kids(M, f)
Placed(w, M) ==
  \A g \in M : ParentOf(g) # NULL =>
    w[g].rect = Shifted(Windows[g].rect, w[ParentOf(g)].rect.l, w[ParentOf(g)].rect.t)
WinsOK(w, M) ==
  /\ w \in Wins /\ M \subseteq Gids
  /\ \A g \in Gids \ M : w[g] = NoWindow
  /\ Framed(w, M) /\ Stacked(w, M) /\ Listed(w, M) /\ Placed(w, M)

\* A list stays one as long as its links do.
LEMMA ListKept ==
  ASSUME NEW w, NEW v, NEW first, NEW n, NEW s, IsList(w, first, n, s),
         \A h \in Seen(n, s) : v[h].next = w[h].next /\ v[h].prev = w[h].prev
  PROVE  IsList(v, first, n, s)
  <1>1. \A i \in 1 .. n : v[s[i]].next = w[s[i]].next /\ v[s[i]].prev = w[s[i]].prev
    BY DEF Seen
  <1>2. Ordered(v, n, s)
    BY <1>1 DEF IsList, Ordered
  <1> QED BY <1>1, <1>2 DEF IsList

\* A window without children has an empty list.
LEMMA EmptyList ==
  ASSUME NEW w
  PROVE  \E n, s : IsList(w, NULL, n, s) /\ Seen(n, s) = {}
  <1> DEFINE s == [i \in 1 .. 0 |-> desktop]
  <1>1. s \in [1 .. 0 -> Gids] /\ 1 .. 0 = {} /\ 0 \in Nat
    BY DEF Gids
  <1> HIDE DEF s
  <1>2. IsList(w, NULL, 0, s) /\ Seen(0, s) = {}
    BY <1>1 DEF IsList, Ordered, Seen
  <1> QED BY <1>2

\* A window that is not known yet has no children.
LEMMA NewHasNoKids ==
  ASSUME NEW w, NEW M, WinsOK(w, M), NEW g \in DOMAIN Windows, g \notin M
  PROVE  Kids(M \cup {g}, g) = {}
  <1>1. g \in Gids /\ g # NULL
    BY NullIsNone DEF Gids
  <1>2. ASSUME NEW h \in M, ParentOf(h) = g PROVE FALSE
    BY <1>1, <1>2 DEF WinsOK, Framed
  <1>3. ParentOf(g) # g
    BY <1>1, Parents
  <1> QED BY <1>2, <1>3 DEF Kids

\* The first loop of gui_update_proc(): a window becomes known, in its frame.
LEMMA AddRoot ==
  ASSUME NEW w, NEW M, WinsOK(w, M), NEW g \in DOMAIN Windows, g \notin M, ParentOf(g) = NULL
  PROVE  /\ WinsOK(AddWindow(w, g), M \cup {g})
         /\ \A h \in Gids : AddWindow(w, g)[h].wm_root = w[h].wm_root
  <1>1. PICK v : v = AddWindow(w, g)
    OBVIOUS
  <1>2. g \in Gids /\ w \in Wins /\ M \subseteq Gids /\ w[g] = NoWindow /\ g # desktop
    BY WindowsAssumption DEF WinsOK, Gids
  <1>3. v = [w EXCEPT ![g].rect = Windows[g].rect] /\ Windows[g].rect \in Rect
    <2>1. Windows[g].parent_id = NULL
      <3>1. Windows[g].parent_id # NULL => ParentOf(g) = Gid(Pid(g), Windows[g].parent_id)
        BY <1>2 DEF ParentOf
      <3>2. Windows[g].parent_id # NULL => Gid(Pid(g), Windows[g].parent_id) \in Gids
        BY WindowsAssumption DEF Gids
      <3> QED BY <3>1, <3>2, NullIsNone
    <2> QED BY <1>1, <2>1, WindowsAssumption DEF AddWindow
  <1>4. v \in Wins
    BY <1>2, <1>3 DEF Wins, Win
  <1>5. \A h \in Gids : /\ v[h].next = w[h].next /\ v[h].prev = w[h].prev
                        /\ v[h].first = w[h].first /\ v[h].parent = w[h].parent
                        /\ v[h].wm_root = w[h].wm_root
                        /\ h # g => v[h] = w[h]
    BY <1>2, <1>3 DEF Wins, Win
  <1>6. \A h \in Gids \ (M \cup {g}) : v[h] = NoWindow
    BY <1>2, <1>5 DEF WinsOK
  <1>7. v[g].next = NULL /\ v[g].prev = NULL /\ v[g].parent = NULL /\ v[g].first = NULL
    BY <1>2, <1>5 DEF NoWindow
  <1>8. Framed(v, M \cup {g})
    BY <1>2, <1>5, <1>7 DEF WinsOK, Framed
  <1>9. Stacked(v, M \cup {g})
    BY <1>2, <1>5, <1>7 DEF WinsOK, Stacked
  <1>10. Listed(v, M \cup {g})
    <2> SUFFICES ASSUME NEW f \in M \cup {g}
                 PROVE  \E n, s : IsList(v, v[f].first, n, s) /\ Seen(n, s) = Kids(M \cup {g}, f)
      BY DEF Listed
    <2>1. CASE f = g
      <3>1. Kids(M \cup {g}, f) = {}
        BY <2>1, NewHasNoKids
      <3> QED BY <1>7, <2>1, <3>1, EmptyList
    <2>2. CASE f # g
      <3>1. f \in M /\ f \in Gids /\ f # NULL
        BY <1>2, <2>2, NullIsNone
      <3>2. PICK n, s : IsList(w, w[f].first, n, s) /\ Seen(n, s) = Kids(M, f)
        BY <3>1 DEF WinsOK, Listed
      <3>3. \A h \in Seen(n, s) : v[h].next = w[h].next /\ v[h].prev = w[h].prev
        BY <1>2, <1>5, <3>2 DEF Kids
      <3>4. IsList(v, w[f].first, n, s)
        BY <3>2, <3>3, ListKept
      <3>5. Kids(M \cup {g}, f) = Kids(M, f)
        BY <3>1 DEF Kids
      <3> QED BY <1>5, <3>1, <3>2, <3>4, <3>5
    <2> QED BY <2>1, <2>2
  <1>11. Placed(v, M \cup {g})
    <2> SUFFICES ASSUME NEW h \in M \cup {g}, ParentOf(h) # NULL
                 PROVE  v[h].rect = Shifted(Windows[h].rect, v[ParentOf(h)].rect.l,
                                            v[ParentOf(h)].rect.t)
      BY DEF Placed
    <2>1. h \in M /\ h # g /\ ParentOf(h) \in M /\ ParentOf(h) # g
      BY DEF WinsOK, Framed
    <2>2. v[h] = w[h] /\ v[ParentOf(h)] = w[ParentOf(h)]
      BY <1>2, <1>5, <2>1
    <2> QED BY <2>1, <2>2 DEF WinsOK, Placed
  <1>12. M \cup {g} \subseteq Gids
    BY <1>2
  <1> QED BY <1>1, <1>4, <1>5, <1>6, <1>8, <1>9, <1>10, <1>11, <1>12 DEF WinsOK

\* A window with a frame becomes known: addChild() inserts it into the list of the
\* frame and moves it to its place on the screen.
LEMMA AddKid ==
  ASSUME NEW w, NEW M, WinsOK(w, M), NEW g \in DOMAIN Windows, g \notin M,
         ParentOf(g) # NULL, ParentOf(g) \in M
  PROVE  /\ WinsOK(AddWindow(w, g), M \cup {g})
         /\ \A h \in Gids : AddWindow(w, g)[h].wm_root = w[h].wm_root
  <1>1. PICK v : v = AddWindow(w, g)
    OBVIOUS
  <1>2. PICK p : p = ParentOf(g)
    OBVIOUS
  <1>3. /\ g \in Gids /\ w \in Wins /\ M \subseteq Gids /\ w[g] = NoWindow /\ g # desktop
        /\ p \in M /\ p \in Gids /\ p # g /\ p \in Roots /\ p # NULL
    BY <1>2, WindowsAssumption, NullIsNone, Parents DEF WinsOK, Gids
  <1>4. PICK c : c = [w EXCEPT ![g].rect = Windows[g].rect]
    OBVIOUS
  <1>5. Windows[g].rect \in Rect /\ v = AddChild(c, p, g)
    <2>1. Windows[g].parent_id # NULL /\ p = Gid(Pid(g), Windows[g].parent_id)
      BY <1>2, <1>3, Parents
    <2> QED BY <1>1, <1>4, <2>1, WindowsAssumption DEF AddWindow
  <1>6. c \in Wins
    BY <1>3, <1>4, <1>5 DEF Wins, Win
  <1>7. \A h \in Gids : /\ c[h].next = w[h].next /\ c[h].prev = w[h].prev
                        /\ c[h].first = w[h].first /\ c[h].parent = w[h].parent
                        /\ c[h].wm_root = w[h].wm_root
                        /\ c[h].rect = (IF h = g THEN Windows[g].rect ELSE w[h].rect)
                        /\ h # g => c[h] = w[h]
    BY <1>3, <1>4 DEF Wins, Win
  <1>8. PICK n, s : IsList(w, w[p].first, n, s) /\ Seen(n, s) = Kids(M, p)
    BY <1>3 DEF WinsOK, Listed
  <1>9. IsList(c, c[p].first, n, s)
    <2>1. \A h \in Seen(n, s) : c[h].next = w[h].next /\ c[h].prev = w[h].prev
      BY <1>3, <1>7, <1>8 DEF Kids
    <2>2. IsList(c, w[p].first, n, s)
      BY <1>8, <2>1, ListKept
    <2> QED BY <1>3, <1>7, <2>2
  <1>10. g \notin Seen(n, s) /\ p \notin Seen(n, s)
    BY <1>3, <1>8 DEF Kids, Roots
  <1>11. PICK x : x = Insert(c, p, g)
    OBVIOUS
  <1>12. /\ x \in Wins /\ SameBut(x, c)
         /\ \A h \in Gids : h # p => x[h].first = c[h].first
         /\ \A h \in Gids \ Seen(n, s) : h # g => x[h].next = c[h].next /\ x[h].prev = c[h].prev
         /\ \A h \in Gids \ Seen(n, s) : h # g /\ h # p => x[h] = c[h]
    BY <1>3, <1>6, <1>9, <1>10, <1>11, InsertList
  <1>13. \E z : IsList(x, x[p].first, n + 1, z) /\ Seen(n + 1, z) = Seen(n, s) \cup {g}
    BY <1>3, <1>6, <1>9, <1>10, <1>11, InsertList
  <1>14. PICK R : R = Shifted(x[g].rect, c[p].rect.l, c[p].rect.t)
    OBVIOUS
  <1>15. R \in Rect /\ R = Shifted(Windows[g].rect, w[p].rect.l, w[p].rect.t)
    <2>1. x[g].rect = Windows[g].rect /\ c[p].rect = w[p].rect /\ w[p].rect \in Rect
      BY <1>3, <1>7, <1>12 DEF SameBut, Wins, Win
    <2> QED BY <1>5, <1>14, <2>1 DEF Shifted, Rect
  <1>16. v = [x EXCEPT ![g].parent = p, ![g].rect = R]
    <2>1. PICK y : y = [x EXCEPT ![g].parent = p]
      OBVIOUS
    <2>2. y[g].rect = x[g].rect
      BY <1>3, <1>12, <2>1 DEF Wins, Win
    <2>3. v = [y EXCEPT ![g].rect = Shifted(@, c[p].rect.l, c[p].rect.t)]
      BY <1>5, <1>11, <2>1 DEF AddChild
    <2> QED BY <1>14, <2>1, <2>2, <2>3
  <1>17. v \in Wins
    <2>1. PICK y : y = [x EXCEPT ![g].parent = p]
      OBVIOUS
    <2>2. p \in Links /\ R \in Rect
      BY <1>3, <1>15 DEF Links
    <2>3. y \in Wins
      BY <1>3, <1>12, <2>1, <2>2 DEF Wins, Win
    <2>4. v = [y EXCEPT ![g].rect = R]
      BY <1>16, <2>1
    <2> QED BY <1>3, <2>2, <2>3, <2>4 DEF Wins, Win
  <1>18. \A h \in Gids : /\ v[h].next = x[h].next /\ v[h].prev = x[h].prev
                         /\ v[h].first = x[h].first /\ v[h].wm_root = x[h].wm_root
                         /\ v[h].parent = (IF h = g THEN p ELSE x[h].parent)
                         /\ v[h].rect = (IF h = g THEN R ELSE x[h].rect)
                         /\ h # g => v[h] = x[h]
    BY <1>3, <1>12, <1>16 DEF Wins, Win
  <1>19. \A h \in Gids : /\ v[h].wm_root = w[h].wm_root
                         /\ h # g => v[h].parent = w[h].parent /\ v[h].rect = w[h].rect
    BY <1>7, <1>12, <1>18 DEF SameBut
  <1>20. \A h \in Gids \ (M \cup {g}) : v[h] = NoWindow
    <2> SUFFICES ASSUME NEW h \in Gids, h \notin M, h # g PROVE v[h] = NoWindow
      OBVIOUS
    <2>1. h \notin Seen(n, s) /\ h # p
      BY <1>3, <1>8 DEF Kids
    <2>2. v[h] = x[h] /\ x[h] = c[h] /\ c[h] = w[h]
      BY <1>7, <1>12, <1>18, <2>1
    <2> QED BY <2>2 DEF WinsOK
  <1>21. Framed(v, M \cup {g})
    <2>1. v[g].parent = ParentOf(g) /\ ParentOf(g) \in M
      BY <1>2, <1>3, <1>18
    <2> QED BY <1>3, <1>19, <2>1 DEF WinsOK, Framed
  <1>22. Stacked(v, M \cup {g})
    <2>1. (M \cup {g}) \cap Roots = M \cap Roots
      BY DEF Roots
    <2>2. ASSUME NEW h \in M \cap Roots PROVE v[h].next = w[h].next /\ v[h].prev = w[h].prev
      <3>1. h \in Gids /\ h # g /\ h \notin Seen(n, s)
        BY <1>3, <1>8 DEF Kids, Roots
      <3> QED BY <1>7, <1>12, <1>18, <3>1
    <2> QED BY <2>1, <2>2 DEF WinsOK, Stacked
  <1>23. Listed(v, M \cup {g})
    <2> SUFFICES ASSUME NEW f \in M \cup {g}
                 PROVE  \E n1, s1 : IsList(v, v[f].first, n1, s1) /\ Seen(n1, s1) = Kids(M \cup {g}, f)
      BY DEF Listed
    <2>1. CASE f = g
      <3>1. Kids(M \cup {g}, f) = {}
        BY <2>1, NewHasNoKids
      <3>2. v[f].first = NULL
        <4>1. v[g].first = x[g].first /\ x[g].first = c[g].first /\ c[g].first = w[g].first
          BY <1>3, <1>7, <1>12, <1>18
        <4> QED BY <1>3, <2>1, <4>1 DEF NoWindow
      <3> QED BY <3>1, <3>2, EmptyList
    <2>2. CASE f = p
      <3>1. PICK z : IsList(x, x[p].first, n + 1, z) /\ Seen(n + 1, z) = Seen(n, s) \cup {g}
        BY <1>13
      <3>2. \A h \in Seen(n + 1, z) : v[h].next = x[h].next /\ v[h].prev = x[h].prev
        BY <1>3, <1>8, <1>18, <3>1 DEF Kids
      <3>3. IsList(v, x[p].first, n + 1, z)
        BY <3>1, <3>2, ListKept
      <3>4. Kids(M \cup {g}, f) = Seen(n, s) \cup {g}
        BY <1>2, <1>8, <2>2 DEF Kids
      <3> QED BY <1>3, <1>18, <2>2, <3>1, <3>3, <3>4
    <2>3. CASE f # g /\ f # p
      <3>1. f \in M /\ f \in Gids
        BY <1>3, <2>3
      <3>2. PICK n1, s1 : IsList(w, w[f].first, n1, s1) /\ Seen(n1, s1) = Kids(M, f)
        BY <3>1 DEF WinsOK, Listed
      <3>3. ASSUME NEW h \in Seen(n1, s1) PROVE v[h].next = w[h].next /\ v[h].prev = w[h].prev
        <4>1. h \in Gids /\ h # g /\ h \notin Seen(n, s)
          BY <1>3, <1>8, <2>3, <3>2 DEF Kids
        <4> QED BY <1>7, <1>12, <1>18, <4>1
      <3>4. IsList(v, w[f].first, n1, s1)
        BY <3>2, <3>3, ListKept
      <3>5. Kids(M \cup {g}, f) = Kids(M, f)
        BY <1>2, <2>3 DEF Kids
      <3>6. v[f].first = w[f].first
        BY <1>7, <1>12, <1>18, <2>3, <3>1
      <3> QED BY <3>2, <3>4, <3>5, <3>6
    <2> QED BY <2>1, <2>2, <2>3
  <1>24. Placed(v, M \cup {g})
    <2> SUFFICES ASSUME NEW h \in M \cup {g}, ParentOf(h) # NULL
                 PROVE  v[h].rect = Shifted(Windows[h].rect, v[ParentOf(h)].rect.l,
                                            v[ParentOf(h)].rect.t)
      BY DEF Placed
    <2>1. CASE h = g
      <3>1. v[h].rect = R /\ v[p].rect = w[p].rect
        BY <1>3, <1>18, <1>19, <2>1
      <3> QED BY <1>2, <1>15, <2>1, <3>1
    <2>2. CASE h # g
      <3>1. h \in M /\ ParentOf(h) \in M /\ ParentOf(h) # g
        BY <2>2 DEF WinsOK, Framed
      <3>2. v[h].rect = w[h].rect /\ v[ParentOf(h)].rect = w[ParentOf(h)].rect
        BY <1>3, <1>19, <2>2, <3>1
      <3> QED BY <3>1, <3>2 DEF WinsOK, Placed
    <2> QED BY <2>1, <2>2
  <1>25. M \cup {g} \subseteq Gids
    BY <1>3
  <1> QED BY <1>1, <1>17, <1>19, <1>20, <1>21, <1>22, <1>23, <1>24, <1>25 DEF WinsOK

\* The windows after n rounds of the first loop of gui_update_proc().
AddNext(w, pid, i, v) ==
  IF Gid(pid, i - 1) \in DOMAIN Windows THEN AddWindow(v, Gid(pid, i - 1)) ELSE v
Adds(w, pid, t, n) == t = [i \in 0 .. n |-> IF i = 0 THEN w ELSE AddNext(w, pid, i, t[i - 1])]

\* The first loop of gui_update_proc() takes one window after the other.
LEMMA AddsExist ==
  ASSUME NEW w, NEW pid
  PROVE  \A n \in Nat : \E t : Adds(w, pid, t, n)
  <1> DEFINE Step(f, i) == IF i = 0 THEN w ELSE AddNext(w, pid, i, f[i - 1])
             bad == {n \in Nat : ~ \E t : Adds(w, pid, t, n)}
  <1>1. \A t, n : Adds(w, pid, t, n) <=> t = [i \in 0 .. n |-> Step(t, i)]
    BY DEF Adds
  <1>2. \A f, h, i : i = 0 \/ f[i - 1] = h[i - 1] => Step(f, i) = Step(h, i)
    OBVIOUS
  <1> SUFFICES ASSUME bad # {} PROVE FALSE
    OBVIOUS
  <1>3. bad \in SUBSET Nat
    OBVIOUS
  <1> HIDE DEF bad, Step
  <1>4. PICK n \in bad : \A k \in bad : n <= k
    BY <1>3, LeastExists
  <1>5. n \in Nat /\ ~ \E t : Adds(w, pid, t, n)
    BY <1>4 DEF bad
  <1>6. PICK s : n = 0 \/ s = [i \in 0 .. n - 1 |-> Step(s, i)]
    <2>1. n = 0 \/ (n - 1 \in Nat /\ n - 1 \notin bad)
      BY <1>4, <1>5
    <2> QED BY <1>1, <2>1 DEF bad
  <1> DEFINE t == [i \in 0 .. n |-> Step(s, i)]
  <1>7. ASSUME NEW i \in 0 .. n PROVE Step(s, i) = Step(t, i)
    <2>1. CASE i = 0
      BY <1>2, <2>1
    <2>2. CASE i > 0
      <3>1. i - 1 \in 0 .. n - 1 /\ i - 1 \in 0 .. n /\ n # 0
        BY <1>5, <2>2
      <3>2. t[i - 1] = Step(s, i - 1) /\ s[i - 1] = Step(s, i - 1)
        BY <1>6, <3>1
      <3> HIDE DEF t
      <3> QED BY <1>2, <3>2
    <2> QED BY <1>5, <2>1, <2>2
  <1>8. t = [i \in 0 .. n |-> Step(t, i)]
    <2>1. t = [i \in 0 .. n |-> t[i]] /\ \A i \in 0 .. n : t[i] = Step(s, i)
      OBVIOUS
    <2> HIDE DEF t
    <2> QED BY <1>7, <2>1
  <1>9. Adds(w, pid, t, n)
    BY <1>1, <1>8
  <1> QED BY <1>5, <1>9

\* What is known once this loop has come to window i.
AddedTo(M, pid, i) == M \cup {g \in OfProc(pid) : g < Gid(pid, i)}

\* The first loop adds the windows of a process one by one, frames before their children.
LEMMA AddedToGrows ==
  ASSUME NEW M, NEW pid \in Nat, OfProc(pid) \cap M = {}
  PROVE  /\ AddedTo(M, pid, 0) = M
         /\ AddedTo(M, pid, MAX_PROC_WINDOWS) = M \cup OfProc(pid)
         /\ \A i \in 1 .. MAX_PROC_WINDOWS :
              LET g == Gid(pid, i - 1) IN
              IF g \in DOMAIN Windows
              THEN /\ g \notin AddedTo(M, pid, i - 1) /\ g \in OfProc(pid)
                   /\ AddedTo(M, pid, i) = AddedTo(M, pid, i - 1) \cup {g}
                   /\ ParentOf(g) # NULL => ParentOf(g) \in AddedTo(M, pid, i - 1)
              ELSE AddedTo(M, pid, i) = AddedTo(M, pid, i - 1)
  <1>1. PICK at : at = pid * MAX_PROC_WINDOWS
    OBVIOUS
  <1>2. at \in Nat /\ MAX_PROC_WINDOWS \in Nat \ {0}
    BY <1>1, WindowsAssumption
  <1>3. \A i : Gid(pid, i) = at + i
    BY <1>1 DEF Gid
  <1>4. ASSUME NEW g \in OfProc(pid) PROVE g \in Nat /\ at <= g /\ g < at + MAX_PROC_WINDOWS
    <2>1. g \in DOMAIN Windows /\ Pid(g) = pid
      BY DEF OfProc
    <2>2. PICK i \in 0 .. MAX_PROC_WINDOWS - 1 : g = Gid(pid, i)
      BY <2>1, IndexOf
    <2>3. g = at + i
      BY <1>3, <2>2
    <2> QED BY <1>2, <2>3
  <1>5. AddedTo(M, pid, 0) = M
    BY <1>2, <1>3, <1>4 DEF AddedTo
  <1>6. AddedTo(M, pid, MAX_PROC_WINDOWS) = M \cup OfProc(pid)
    BY <1>2, <1>3, <1>4 DEF AddedTo
  <1>7. ASSUME NEW i \in 1 .. MAX_PROC_WINDOWS, NEW g, g = Gid(pid, i - 1)
        PROVE  IF g \in DOMAIN Windows
               THEN /\ g \notin AddedTo(M, pid, i - 1) /\ g \in OfProc(pid)
                    /\ AddedTo(M, pid, i) = AddedTo(M, pid, i - 1) \cup {g}
                    /\ ParentOf(g) # NULL => ParentOf(g) \in AddedTo(M, pid, i - 1)
               ELSE AddedTo(M, pid, i) = AddedTo(M, pid, i - 1)
    <2>1. g = at + (i - 1) /\ Gid(pid, i) = at + i /\ g \in Nat /\ Gid(pid, i) = g + 1
      BY <1>2, <1>3, <1>7
    <2>2. ASSUME NEW h \in OfProc(pid) PROVE h < Gid(pid, i) <=> h < g \/ h = g
      BY <1>4, <2>1
    <2>3. AddedTo(M, pid, i - 1) = M \cup {h \in OfProc(pid) : h < g}
      BY <1>7 DEF AddedTo
    <2>4. AddedTo(M, pid, i) = M \cup {h \in OfProc(pid) : h < g \/ h = g}
      BY <2>2 DEF AddedTo
    <2>5. CASE g \in DOMAIN Windows
      <3>1. g \in OfProc(pid)
        <4>1. i - 1 \in 0 .. MAX_PROC_WINDOWS - 1
          BY <1>2
        <4> QED BY <1>7, <2>5, <4>1, Indices DEF OfProc
      <3>2. ~ (g < g)
        BY <2>1
      <3>3. g \notin AddedTo(M, pid, i - 1)
        BY <2>3, <3>1, <3>2
      <3>4. AddedTo(M, pid, i) = AddedTo(M, pid, i - 1) \cup {g}
        BY <2>3, <2>4, <3>1
      <3>5. ASSUME ParentOf(g) # NULL PROVE ParentOf(g) \in AddedTo(M, pid, i - 1)
        <4>1. g \in Gids
          BY <2>5 DEF Gids
        <4>2. ParentOf(g) \in DOMAIN Windows /\ ParentOf(g) < g /\ Pid(ParentOf(g)) = Pid(g)
          BY <3>5, <4>1, Parents
        <4> QED BY <2>3, <3>1, <4>2 DEF OfProc
      <3> QED BY <2>5, <3>1, <3>3, <3>4, <3>5
    <2>6. CASE g \notin DOMAIN Windows
      BY <2>3, <2>4, <2>6 DEF OfProc
    <2> QED BY <2>5, <2>6
  <1> QED BY <1>5, <1>6, <1>7

\* Once this loop has ended, the windows of the process are known.
LEMMA AddWindowsOK ==
  ASSUME NEW w, NEW M, WinsOK(w, M), NEW pid \in Nat, OfProc(pid) \cap M = {}
  PROVE  /\ WinsOK(AddWindows(w, pid), M \cup OfProc(pid))
         /\ \A h \in Gids : AddWindows(w, pid)[h].wm_root = w[h].wm_root
  <1> DEFINE after[i \in 0 .. MAX_PROC_WINDOWS] ==
               IF i = 0 THEN w
               ELSE IF Gid(pid, i - 1) \in DOMAIN Windows
               THEN AddWindow(after[i - 1], Gid(pid, i - 1)) ELSE after[i - 1]
             Good(i) == /\ WinsOK(after[i], AddedTo(M, pid, i))
                        /\ \A h \in Gids : after[i][h].wm_root = w[h].wm_root
             bad == {i \in 0 .. MAX_PROC_WINDOWS : ~ Good(i)}
  <1>1. AddWindows(w, pid) = after[MAX_PROC_WINDOWS]
    BY DEF AddWindows
  <1>2. after = CHOOSE t : Adds(w, pid, t, MAX_PROC_WINDOWS)
    BY DEF after, Adds, AddNext
  <1>3. MAX_PROC_WINDOWS \in Nat
    BY WindowsAssumption
  <1>4. \E t : Adds(w, pid, t, MAX_PROC_WINDOWS)
    BY <1>3, AddsExist
  <1> HIDE DEF after
  <1>5. Adds(w, pid, after, MAX_PROC_WINDOWS)
    BY <1>2, <1>4
  <1>6. after = [i \in 0 .. MAX_PROC_WINDOWS |->
                   IF i = 0 THEN w ELSE AddNext(w, pid, i, after[i - 1])]
    BY <1>5 DEF Adds
  <1>7. bad = {}
    <2> SUFFICES ASSUME bad # {} PROVE FALSE
      OBVIOUS
    <2>1. PICK i \in bad : \A k \in bad : i <= k
      <3>1. bad \in SUBSET Nat
        BY <1>3
      <3> HIDE DEF bad
      <3> QED BY <3>1, LeastExists
    <2>2. i \in 0 .. MAX_PROC_WINDOWS /\ ~ Good(i) /\ i \in Nat
      BY <1>3, <2>1
    <2>3. CASE i = 0
      <3>1. after[i] = w /\ AddedTo(M, pid, i) = M
        BY <1>6, <2>2, <2>3, AddedToGrows
      <3> QED BY <2>2, <3>1
    <2>4. CASE i # 0
      <3>1. i - 1 \in 0 .. MAX_PROC_WINDOWS /\ i - 1 \notin bad /\ i \in 1 .. MAX_PROC_WINDOWS
        BY <1>3, <2>1, <2>2, <2>4
      <3>2. Good(i - 1)
        BY <3>1
      <3>3. PICK g : g = Gid(pid, i - 1)
        OBVIOUS
      <3>4. PICK v : v = after[i - 1]
        OBVIOUS
      <3>5. after[i] = (IF g \in DOMAIN Windows THEN AddWindow(v, g) ELSE v)
        BY <1>6, <2>2, <2>4, <3>3, <3>4 DEF AddNext
      <3>6. PICK N : N = AddedTo(M, pid, i - 1)
        OBVIOUS
      <3>7. IF g \in DOMAIN Windows
            THEN /\ g \notin N /\ AddedTo(M, pid, i) = N \cup {g}
                 /\ ParentOf(g) # NULL => ParentOf(g) \in N
            ELSE AddedTo(M, pid, i) = N
        <4>1. CASE g \in DOMAIN Windows
          <5>1. g \notin N
            BY <3>1, <3>3, <3>6, <4>1, AddedToGrows
          <5>2. AddedTo(M, pid, i) = N \cup {g}
            BY <3>1, <3>3, <3>6, <4>1, AddedToGrows
          <5>3. ParentOf(g) # NULL => ParentOf(g) \in N
            BY <3>1, <3>3, <3>6, <4>1, AddedToGrows
          <5> QED BY <4>1, <5>1, <5>2, <5>3
        <4>2. CASE g \notin DOMAIN Windows
          BY <3>1, <3>3, <3>6, <4>2, AddedToGrows
        <4> QED BY <4>1, <4>2
      <3>8. WinsOK(v, N) /\ \A h \in Gids : v[h].wm_root = w[h].wm_root
        BY <3>2, <3>4, <3>6
      <3>9. CASE g \in DOMAIN Windows
        <4>0. g \notin N /\ (ParentOf(g) # NULL => ParentOf(g) \in N) /\ WinsOK(v, N)
          BY <3>7, <3>8, <3>9
        <4>1. WinsOK(AddWindow(v, g), N \cup {g})
          <5>1. CASE ParentOf(g) = NULL
            BY <3>9, <4>0, <5>1, AddRoot
          <5>2. CASE ParentOf(g) # NULL
            BY <3>9, <4>0, <5>2, AddKid
          <5> QED BY <5>1, <5>2
        <4>2. \A h \in Gids : AddWindow(v, g)[h].wm_root = v[h].wm_root
          <5>1. CASE ParentOf(g) = NULL
            BY <3>9, <4>0, <5>1, AddRoot
          <5>2. CASE ParentOf(g) # NULL
            BY <3>9, <4>0, <5>2, AddKid
          <5> QED BY <5>1, <5>2
        <4>3. Good(i)
          BY <3>5, <3>7, <3>8, <3>9, <4>1, <4>2
        <4> QED BY <2>2, <4>3
      <3>10. CASE g \notin DOMAIN Windows
        <4>1. Good(i)
          BY <3>5, <3>7, <3>8, <3>10
        <4> QED BY <2>2, <4>1
      <3> QED BY <3>9, <3>10
    <2> QED BY <2>3, <2>4
  <1>8. MAX_PROC_WINDOWS \in 0 .. MAX_PROC_WINDOWS
    BY <1>3
  <1>9. Good(MAX_PROC_WINDOWS)
    BY <1>7, <1>8
  <1> QED BY <1>1, <1>9, AddedToGrows

\* The known roots.
Base(M) == M \cap Roots

\* Whatever relinks roots among themselves leaves frames, their lists and their
\* children alone.
LEMMA Relinked ==
  ASSUME NEW w, NEW M, WinsOK(w, M), NEW v \in Wins,
         \A h \in Gids : v[h].rect = w[h].rect /\ v[h].parent = w[h].parent
                         /\ v[h].first = w[h].first,
         \A h \in M : h \notin Roots => v[h].next = w[h].next /\ v[h].prev = w[h].prev,
         \A h \in Gids \ M : v[h] = w[h],
         Stacked(v, M)
  PROVE  WinsOK(v, M)
  <1>1. w \in Wins /\ M \subseteq Gids
    BY DEF WinsOK
  <1>2. \A h \in Gids \ M : v[h] = NoWindow
    BY DEF WinsOK
  <1>3. Framed(v, M)
    BY <1>1 DEF WinsOK, Framed
  <1>4. Placed(v, M)
    <2> SUFFICES ASSUME NEW h \in M, ParentOf(h) # NULL
                 PROVE  v[h].rect = Shifted(Windows[h].rect, v[ParentOf(h)].rect.l,
                                            v[ParentOf(h)].rect.t)
      BY DEF Placed
    <2>1. ParentOf(h) \in M
      BY DEF WinsOK, Framed
    <2>2. v[h].rect = w[h].rect /\ v[ParentOf(h)].rect = w[ParentOf(h)].rect
      BY <1>1, <2>1
    <2> QED BY <2>2 DEF WinsOK, Placed
  <1>5. Listed(v, M)
    <2> SUFFICES ASSUME NEW f \in M
                 PROVE  \E n, s : IsList(v, v[f].first, n, s) /\ Seen(n, s) = Kids(M, f)
      BY DEF Listed
    <2>1. PICK n, s : IsList(w, w[f].first, n, s) /\ Seen(n, s) = Kids(M, f)
      BY DEF WinsOK, Listed
    <2>2. f # NULL /\ f \in Gids
      BY <1>1, NullIsNone
    <2>3. \A h \in Seen(n, s) : v[h].next = w[h].next /\ v[h].prev = w[h].prev
      BY <2>1, <2>2 DEF Kids, Roots
    <2>4. IsList(v, w[f].first, n, s)
      BY <2>1, <2>3, ListKept
    <2> QED BY <2>1, <2>2, <2>4
  <1> QED BY <1>1, <1>2, <1>3, <1>4, <1>5 DEF WinsOK

\* The root of every known window is its frame, if it has one.
Rooted(w, M) == \A g \in M : w[g].wm_root = (IF ParentOf(g) = NULL THEN g ELSE ParentOf(g))

\* The root of a known window is a known root.
LEMMA RootOfAny ==
  ASSUME NEW w, NEW M, WinsOK(w, M), Rooted(w, M), NEW g \in M
  PROVE  w[g].wm_root \in Base(M)
  <1>1. g \in Gids
    BY DEF WinsOK
  <1>2. CASE ParentOf(g) = NULL
    BY <1>1, <1>2 DEF Rooted, Base, Roots
  <1>3. CASE ParentOf(g) # NULL
    BY <1>1, <1>3, Parents DEF Rooted, Base, WinsOK, Framed
  <1> QED BY <1>2, <1>3

\* One root is linked to another, or to none.
LEMMA PrevOK ==
  ASSUME NEW w, NEW M, WinsOK(w, M), Rooted(w, M), NEW g \in Base(M) \cup {NULL},
         NEW to \in Base(M) \cup {NULL}, NEW v, v = SetPrev(w, g, to)
  PROVE  WinsOK(v, M) /\ Rooted(v, M)
  <1>1. w \in Wins /\ M \subseteq Gids /\ g \in Links /\ to \in Links
    BY DEF WinsOK, Base, Links
  <1>2. v \in Wins /\ SameBut(v, w)
    BY <1>1, SetPrevPuts
  <1>3. ASSUME NEW h \in Gids
        PROVE  v[h].next = w[h].next /\ v[h].first = w[h].first
    BY <1>1, SetPrevPuts
  <1>4. ASSUME NEW h \in Gids
        PROVE  v[h].prev = (IF h = g THEN to ELSE w[h].prev)
    BY <1>1, SetPrevPuts
  <1>5. ASSUME NEW h \in Gids \ M PROVE v[h] = w[h]
    <2>1. h # g /\ h \in Gids
      BY NullIsNone DEF Base
    <2> QED BY <1>1, <2>1, SetPrevPuts
  <1>6. Stacked(v, M)
    <2> SUFFICES ASSUME NEW h \in M \cap Roots
                 PROVE  v[h].next \in (M \cap Roots) \cup {NULL} /\ v[h].prev \in (M \cap Roots) \cup {NULL}
      BY DEF Stacked
    <2>1. w[h].next \in (M \cap Roots) \cup {NULL} /\ w[h].prev \in (M \cap Roots) \cup {NULL}
      BY DEF WinsOK, Stacked
    <2>2. h \in Gids
      BY <1>1
    <2> QED BY <1>3, <1>4, <2>1, <2>2 DEF Base
  <1>7. \A h \in Gids : v[h].rect = w[h].rect /\ v[h].parent = w[h].parent
                         /\ v[h].first = w[h].first
    BY <1>2, <1>3 DEF SameBut
  <1>8. ASSUME NEW h \in M, h \notin Roots PROVE v[h].next = w[h].next /\ v[h].prev = w[h].prev
    <2>1. h # g /\ h \in Gids
      BY <1>1, <1>8, NullIsNone DEF Base
    <2> QED BY <1>3, <1>4, <2>1
  <1>9. WinsOK(v, M)
    BY <1>2, <1>5, <1>6, <1>7, <1>8, Relinked
  <1>10. Rooted(v, M)
    BY <1>1, <1>2 DEF Rooted, SameBut
  <1> QED BY <1>9, <1>10

\* Neither does the assignment of next.
LEMMA NextOK ==
  ASSUME NEW w, NEW M, WinsOK(w, M), Rooted(w, M), NEW g \in Base(M) \cup {NULL},
         NEW to \in Base(M) \cup {NULL}, NEW v, v = SetNext(w, g, to)
  PROVE  WinsOK(v, M) /\ Rooted(v, M)
  <1>1. w \in Wins /\ M \subseteq Gids /\ g \in Links /\ to \in Links
    BY DEF WinsOK, Base, Links
  <1>2. v \in Wins /\ SameBut(v, w)
    BY <1>1, SetNextPuts
  <1>3. ASSUME NEW h \in Gids
        PROVE  v[h].prev = w[h].prev /\ v[h].first = w[h].first
    BY <1>1, SetNextPuts
  <1>4. ASSUME NEW h \in Gids
        PROVE  v[h].next = (IF h = g THEN to ELSE w[h].next)
    BY <1>1, SetNextPuts
  <1>5. ASSUME NEW h \in Gids \ M PROVE v[h] = w[h]
    <2>1. h # g /\ h \in Gids
      BY NullIsNone DEF Base
    <2> QED BY <1>1, <2>1, SetNextPuts
  <1>6. Stacked(v, M)
    <2> SUFFICES ASSUME NEW h \in M \cap Roots
                 PROVE  v[h].next \in (M \cap Roots) \cup {NULL} /\ v[h].prev \in (M \cap Roots) \cup {NULL}
      BY DEF Stacked
    <2>1. w[h].next \in (M \cap Roots) \cup {NULL} /\ w[h].prev \in (M \cap Roots) \cup {NULL}
      BY DEF WinsOK, Stacked
    <2>2. h \in Gids
      BY <1>1
    <2> QED BY <1>3, <1>4, <2>1, <2>2 DEF Base
  <1>7. \A h \in Gids : v[h].rect = w[h].rect /\ v[h].parent = w[h].parent
                         /\ v[h].first = w[h].first
    BY <1>2, <1>3 DEF SameBut
  <1>8. ASSUME NEW h \in M, h \notin Roots PROVE v[h].next = w[h].next /\ v[h].prev = w[h].prev
    <2>1. h # g /\ h \in Gids
      BY <1>1, <1>8, NullIsNone DEF Base
    <2> QED BY <1>3, <1>4, <2>1
  <1>9. WinsOK(v, M)
    BY <1>2, <1>5, <1>6, <1>7, <1>8, Relinked
  <1>10. Rooted(v, M)
    BY <1>1, <1>2 DEF Rooted, SameBut
  <1> QED BY <1>9, <1>10

\* The links of a root are set, as push() and detach() do.
LEMMA BothOK ==
  ASSUME NEW w, NEW M, WinsOK(w, M), Rooted(w, M), NEW g \in Base(M),
         NEW next \in Base(M) \cup {NULL},
         NEW x, x = [w EXCEPT ![g].next = next, ![g].prev = NULL]
  PROVE  WinsOK(x, M) /\ Rooted(x, M)
  <1>1. PICK u : u = SetNext(w, g, next)
    OBVIOUS
  <1>2. g # NULL /\ g \in Gids
    BY NullIsNone DEF Base, WinsOK
  <1>3. u = [w EXCEPT ![g].next = next]
    BY <1>1, <1>2 DEF SetNext
  <1>4. WinsOK(u, M) /\ Rooted(u, M)
    BY <1>1, NextOK
  <1>5. PICK v : v = SetPrev(u, g, NULL)
    OBVIOUS
  <1>6. v = [u EXCEPT ![g].prev = NULL]
    BY <1>2, <1>5 DEF SetPrev
  <1>7. WinsOK(v, M) /\ Rooted(v, M)
    BY <1>4, <1>5, PrevOK
  <1>8. v = x
    BY <1>3, <1>6
  <1> QED BY <1>7, <1>8

\* push() of a root
LEMMA PushOK ==
  ASSUME NEW w, NEW M, WinsOK(w, M), Rooted(w, M), NEW at \in Base(M), NEW g \in Base(M)
  PROVE  WinsOK(Push(w, at, g), M) /\ Rooted(Push(w, at, g), M)
  <1>1. PICK u : u = SetPrev(w, at, g)
    OBVIOUS
  <1>2. WinsOK(u, M) /\ Rooted(u, M)
    BY <1>1, PrevOK
  <1>3. Push(w, at, g) = [u EXCEPT ![g].next = at, ![g].prev = NULL]
    BY <1>1 DEF Push
  <1>4. at \in Base(M) \cup {NULL}
    OBVIOUS
  <1> QED BY <1>2, <1>3, <1>4, BothOK

\* detach() of a root
LEMMA DetachOK ==
  ASSUME NEW w, NEW M, WinsOK(w, M), Rooted(w, M), NEW g \in Base(M)
  PROVE  WinsOK(Detach(w, g), M) /\ Rooted(Detach(w, g), M)
  <1>1. w[g].next \in Base(M) \cup {NULL} /\ w[g].prev \in Base(M) \cup {NULL}
    BY DEF WinsOK, Stacked, Base
  <1>2. PICK u : u = SetPrev(w, w[g].next, w[g].prev)
    OBVIOUS
  <1>3. WinsOK(u, M) /\ Rooted(u, M)
    BY <1>1, <1>2, PrevOK
  <1>4. PICK v : v = SetNext(u, w[g].prev, w[g].next)
    OBVIOUS
  <1>5. WinsOK(v, M) /\ Rooted(v, M)
    BY <1>1, <1>3, <1>4, NextOK
  <1>6. Detach(w, g) = [v EXCEPT ![g].next = NULL, ![g].prev = NULL]
    BY <1>2, <1>4 DEF Detach
  <1> QED BY <1>5, <1>6, BothOK

-----------------------------------------------------------------------------
(* gui_update_proc() *)

\* The windows and the top after n rounds of the second loop of gui_update_proc().
PushNext(w, at, pid, i, a) ==
  IF Gid(pid, i - 1) \in DOMAIN Windows /\ a[1][Gid(pid, i - 1)].parent = NULL
     /\ a[1][Gid(pid, i - 1)].next = NULL
  THEN <<Push(a[1], a[2], Gid(pid, i - 1)), Gid(pid, i - 1)>> ELSE a
Pushs(w, at, pid, t, n) ==
  t = [i \in 0 .. n |-> IF i = 0 THEN <<w, at>> ELSE PushNext(w, at, pid, i, t[i - 1])]

\* The second loop of gui_update_proc() takes one window after the other.
LEMMA PushsExist ==
  ASSUME NEW w, NEW at, NEW pid
  PROVE  \A n \in Nat : \E t : Pushs(w, at, pid, t, n)
  <1> DEFINE Step(f, i) == IF i = 0 THEN <<w, at>> ELSE PushNext(w, at, pid, i, f[i - 1])
             bad == {n \in Nat : ~ \E t : Pushs(w, at, pid, t, n)}
  <1>1. \A t, n : Pushs(w, at, pid, t, n) <=> t = [i \in 0 .. n |-> Step(t, i)]
    BY DEF Pushs
  <1>2. \A f, h, i : i = 0 \/ f[i - 1] = h[i - 1] => Step(f, i) = Step(h, i)
    OBVIOUS
  <1> SUFFICES ASSUME bad # {} PROVE FALSE
    OBVIOUS
  <1>3. bad \in SUBSET Nat
    OBVIOUS
  <1> HIDE DEF bad, Step
  <1>4. PICK n \in bad : \A k \in bad : n <= k
    BY <1>3, LeastExists
  <1>5. n \in Nat /\ ~ \E t : Pushs(w, at, pid, t, n)
    BY <1>4 DEF bad
  <1>6. PICK s : n = 0 \/ s = [i \in 0 .. n - 1 |-> Step(s, i)]
    <2>1. n = 0 \/ (n - 1 \in Nat /\ n - 1 \notin bad)
      BY <1>4, <1>5
    <2> QED BY <1>1, <2>1 DEF bad
  <1> DEFINE t == [i \in 0 .. n |-> Step(s, i)]
  <1>7. ASSUME NEW i \in 0 .. n PROVE Step(s, i) = Step(t, i)
    <2>1. CASE i = 0
      BY <1>2, <2>1
    <2>2. CASE i > 0
      <3>1. i - 1 \in 0 .. n - 1 /\ i - 1 \in 0 .. n /\ n # 0
        BY <1>5, <2>2
      <3>2. t[i - 1] = Step(s, i - 1) /\ s[i - 1] = Step(s, i - 1)
        BY <1>6, <3>1
      <3> HIDE DEF t
      <3> QED BY <1>2, <3>2
    <2> QED BY <1>5, <2>1, <2>2
  <1>8. t = [i \in 0 .. n |-> Step(t, i)]
    <2>1. t = [i \in 0 .. n |-> t[i]] /\ \A i \in 0 .. n : t[i] = Step(s, i)
      OBVIOUS
    <2> HIDE DEF t
    <2> QED BY <1>7, <2>1
  <1>9. Pushs(w, at, pid, t, n)
    BY <1>1, <1>8
  <1> QED BY <1>5, <1>9

\* It pushes roots onto the stack, which ends with one of them on top.
LEMMA PushRootsOK ==
  ASSUME NEW w, NEW M, WinsOK(w, M), Rooted(w, M), NEW at \in Base(M),
         NEW pid \in Nat, OfProc(pid) \subseteq M
  PROVE  /\ WinsOK(PushRoots(w, at, pid)[1], M) /\ Rooted(PushRoots(w, at, pid)[1], M)
         /\ PushRoots(w, at, pid)[2] \in Base(M)
         /\ PushRoots(w, at, pid)[2] = at \/ PushRoots(w, at, pid)[2] \in OfProc(pid)
  <1> DEFINE after[i \in 0 .. MAX_PROC_WINDOWS] ==
               LET g == Gid(pid, i - 1) IN
               IF i = 0 THEN <<w, at>>
               ELSE IF /\ g \in DOMAIN Windows /\ after[i - 1][1][g].parent = NULL
                       /\ after[i - 1][1][g].next = NULL
               THEN <<Push(after[i - 1][1], after[i - 1][2], g), g>> ELSE after[i - 1]
             Good(a) == /\ WinsOK(a[1], M) /\ Rooted(a[1], M)
                        /\ a[2] \in Base(M) /\ (a[2] = at \/ a[2] \in OfProc(pid))
             bad == {i \in 0 .. MAX_PROC_WINDOWS : ~ Good(after[i])}
  <1>1. PushRoots(w, at, pid) = after[MAX_PROC_WINDOWS]
    BY DEF PushRoots
  <1>2. after = CHOOSE t : Pushs(w, at, pid, t, MAX_PROC_WINDOWS)
    BY DEF after, Pushs, PushNext
  <1>3. MAX_PROC_WINDOWS \in Nat
    BY WindowsAssumption
  <1>4. \E t : Pushs(w, at, pid, t, MAX_PROC_WINDOWS)
    BY <1>3, PushsExist
  <1> HIDE DEF after
  <1>5. Pushs(w, at, pid, after, MAX_PROC_WINDOWS)
    BY <1>2, <1>4
  <1>6. after = [i \in 0 .. MAX_PROC_WINDOWS |->
                   IF i = 0 THEN <<w, at>> ELSE PushNext(w, at, pid, i, after[i - 1])]
    BY <1>5 DEF Pushs
  <1>7. bad = {}
    <2> SUFFICES ASSUME bad # {} PROVE FALSE
      OBVIOUS
    <2>1. PICK i \in bad : \A k \in bad : i <= k
      <3>1. bad \in SUBSET Nat
        BY <1>3
      <3> HIDE DEF bad
      <3> QED BY <3>1, LeastExists
    <2>2. i \in 0 .. MAX_PROC_WINDOWS /\ ~ Good(after[i]) /\ i \in Nat
      BY <1>3, <2>1
    <2>3. CASE i = 0
      <3>1. after[i] = <<w, at>>
        BY <1>6, <2>2, <2>3
      <3>2. Good(after[i])
        BY <3>1
      <3> QED BY <2>2, <3>2
    <2>4. CASE i # 0
      <3>1. i - 1 \in 0 .. MAX_PROC_WINDOWS /\ i - 1 \notin bad
        BY <1>3, <2>1, <2>2, <2>4
      <3>2. PICK a : a = after[i - 1]
        OBVIOUS
      <3>3. Good(a)
        BY <3>1, <3>2
      <3>4. after[i] = PushNext(w, at, pid, i, a)
        BY <1>6, <2>2, <2>4, <3>2
      <3>5. PICK g : g = Gid(pid, i - 1)
        OBVIOUS
      <3>6. CASE g \in DOMAIN Windows /\ a[1][g].parent = NULL /\ a[1][g].next = NULL
        <4>1. after[i] = <<Push(a[1], a[2], g), g>>
          BY <3>4, <3>5, <3>6 DEF PushNext
        <4>2. g \in OfProc(pid)
          <5>1. i - 1 \in 0 .. MAX_PROC_WINDOWS - 1
            BY <1>3, <2>2, <2>4
          <5> QED BY <3>5, <3>6, <5>1, Indices DEF OfProc
        <4>3. g \in Base(M)
          <5>1. g \in M /\ g \in Gids
            BY <4>2 DEF OfProc, Gids
          <5>2. a[1][g].parent = ParentOf(g)
            BY <3>3, <5>1 DEF WinsOK, Framed
          <5> QED BY <3>6, <5>1, <5>2 DEF Base, Roots
        <4>4. WinsOK(Push(a[1], a[2], g), M) /\ Rooted(Push(a[1], a[2], g), M)
          BY <3>3, <4>3, PushOK
        <4>5. Good(after[i])
          BY <4>1, <4>2, <4>3, <4>4
        <4> QED BY <2>2, <4>5
      <3>7. CASE ~ (g \in DOMAIN Windows /\ a[1][g].parent = NULL /\ a[1][g].next = NULL)
        <4>1. after[i] = a
          BY <3>4, <3>5, <3>7 DEF PushNext
        <4> QED BY <2>2, <3>3, <4>1
      <3> QED BY <3>6, <3>7
    <2> QED BY <2>3, <2>4
  <1>8. MAX_PROC_WINDOWS \in 0 .. MAX_PROC_WINDOWS
    BY <1>3
  <1>9. Good(after[MAX_PROC_WINDOWS])
    BY <1>7, <1>8
  <1> QED BY <1>1, <1>9

\* gui_update_proc() as a whole: the windows of a process become known.
LEMMA UpdateProcOK ==
  ASSUME NEW w, NEW M, WinsOK(w, M), Rooted(w, M), NEW at \in Base(M),
         NEW pid \in Nat, OfProc(pid) \cap M = {}
  PROVE  /\ WinsOK(UpdateProc(w, at, pid)[1], M \cup OfProc(pid))
         /\ Rooted(UpdateProc(w, at, pid)[1], M \cup OfProc(pid))
         /\ UpdateProc(w, at, pid)[2] \in Base(M \cup OfProc(pid))
         /\ UpdateProc(w, at, pid)[2] = at \/ UpdateProc(w, at, pid)[2] \in OfProc(pid)
  <1>1. PICK added : added = AddWindows(w, pid)
    OBVIOUS
  <1>2. PICK N : N = M \cup OfProc(pid)
    OBVIOUS
  <1>3. WinsOK(added, N)
    BY <1>1, <1>2, AddWindowsOK
  <1>4. \A h \in Gids : added[h].wm_root = w[h].wm_root
    BY <1>1, AddWindowsOK
  <1>5. PICK v : v = [g \in Gids |-> IF g \in OfProc(pid)
                                     THEN [added[g] EXCEPT !.wm_root = Root(added, g)]
                                     ELSE added[g]]
    OBVIOUS
  <1>6. UpdateProc(w, at, pid) = PushRoots(v, at, pid)
    BY <1>1, <1>5 DEF UpdateProc
  <1>7. added \in Wins /\ N \subseteq Gids /\ OfProc(pid) \subseteq N
    BY <1>2, <1>3 DEF WinsOK
  <1>8. ASSUME NEW g \in N
        PROVE  /\ Root(added, g) = (IF ParentOf(g) = NULL THEN g ELSE ParentOf(g))
               /\ Root(added, g) \in Links
    <2>1. added[g].parent = ParentOf(g) /\ (ParentOf(g) # NULL => ParentOf(g) \in N)
      BY <1>3 DEF WinsOK, Framed
    <2>2. Root(added, g) = (IF ParentOf(g) = NULL THEN g ELSE ParentOf(g))
      BY <2>1 DEF Root
    <2>3. Root(added, g) \in N
      BY <2>1, <2>2
    <2> QED BY <1>7, <2>2, <2>3 DEF Links
  <1>9. v \in Wins
    <2> SUFFICES ASSUME NEW g \in Gids
                 PROVE  (IF g \in OfProc(pid) THEN [added[g] EXCEPT !.wm_root = Root(added, g)]
                         ELSE added[g]) \in Win
      BY <1>5 DEF Wins
    <2>1. added[g] \in Win
      BY <1>7 DEF Wins
    <2>2. g \in OfProc(pid) => Root(added, g) \in Links
      BY <1>7, <1>8
    <2> QED BY <2>1, <2>2 DEF Win
  <1>10. ASSUME NEW h \in Gids
         PROVE  /\ v[h].rect = added[h].rect /\ v[h].parent = added[h].parent
                /\ v[h].first = added[h].first
                /\ v[h].next = added[h].next /\ v[h].prev = added[h].prev
                /\ h \notin OfProc(pid) => v[h] = added[h]
                /\ h \in OfProc(pid) => v[h].wm_root = Root(added, h)
    <2>1. added[h] \in Win
      BY <1>7 DEF Wins
    <2>2. v[h] = (IF h \in OfProc(pid) THEN [added[h] EXCEPT !.wm_root = Root(added, h)]
                  ELSE added[h])
      BY <1>5
    <2> QED BY <2>1, <2>2 DEF Win
  <1>11. WinsOK(v, N)
    <2>1. \A h \in Gids \ N : v[h] = added[h]
      BY <1>7, <1>10
    <2>2. Stacked(v, N)
      BY <1>3, <1>7, <1>10 DEF WinsOK, Stacked
    <2>3. \A h \in N : h \notin Roots => v[h].next = added[h].next /\ v[h].prev = added[h].prev
      BY <1>7, <1>10
    <2> QED BY <1>3, <1>9, <1>10, <2>1, <2>2, <2>3, Relinked
  <1>12. Rooted(v, N)
    <2> SUFFICES ASSUME NEW g \in N
                 PROVE  v[g].wm_root = (IF ParentOf(g) = NULL THEN g ELSE ParentOf(g))
      BY DEF Rooted
    <2>1. CASE g \in OfProc(pid)
      BY <1>7, <1>8, <1>10, <2>1
    <2>2. CASE g \notin OfProc(pid)
      <3>1. g \in M /\ g \in Gids /\ v[g] = added[g]
        BY <1>2, <1>7, <1>10, <2>2
      <3> QED BY <1>4, <3>1 DEF Rooted
    <2> QED BY <2>1, <2>2
  <1>13. at \in Base(N)
    BY <1>2 DEF Base
  <1> QED BY <1>2, <1>6, <1>7, <1>11, <1>12, <1>13, PushRootsOK

-----------------------------------------------------------------------------
(* GUIWindow::move() *)

\* The loop over the list of a frame comes to all its children and to no other window.
LEMMA ChildrenAreKids ==
  ASSUME NEW w, NEW M, WinsOK(w, M), NEW g \in M
  PROVE  Children(w, g) = Kids(M, g)
  <1>1. M \subseteq Gids /\ g # NULL
    BY NullIsNone DEF WinsOK
  <1>2. CASE Class(g) = "WINDOW_FRAME"
    <2>1. PICK n, s : IsList(w, w[g].first, n, s) /\ Seen(n, s) = Kids(M, g)
      BY DEF WinsOK, Listed
    <2>2. PICK t : t = Walk(w, w[g].first)
      OBVIOUS
    <2>3. \A i \in 1 .. MAX_WINDOW_LEVELS : t[i] = (IF i <= n THEN s[i] ELSE NULL)
      BY <2>1, <2>2, WalkList
    <2>4. n \in Nat /\ n < MAX_WINDOW_LEVELS /\ MAX_WINDOW_LEVELS \in Nat
      BY <2>1, ListShort, LevelsType
    <2>5. Children(w, g) = {t[i] : i \in 1 .. MAX_WINDOW_LEVELS} \ {NULL}
      BY <1>2, <2>2 DEF Children
    <2>6. ASSUME NEW i \in 1 .. n PROVE s[i] # NULL /\ i \in 1 .. MAX_WINDOW_LEVELS /\ t[i] = s[i]
      <3>1. i \in 1 .. MAX_WINDOW_LEVELS /\ i <= n
        BY <2>4
      <3>2. s[i] \in Gids
        BY <2>1 DEF IsList
      <3> QED BY <2>3, <3>1, <3>2, NullIsNone
    <2>7. ASSUME NEW i \in 1 .. MAX_WINDOW_LEVELS, t[i] # NULL PROVE i \in 1 .. n /\ t[i] = s[i]
      BY <2>3, <2>4, <2>7
    <2>8. {t[i] : i \in 1 .. MAX_WINDOW_LEVELS} \ {NULL} = Seen(n, s)
      <3>1. ASSUME NEW x \in {t[i] : i \in 1 .. MAX_WINDOW_LEVELS} \ {NULL} PROVE x \in Seen(n, s)
        BY <2>7 DEF Seen
      <3>2. ASSUME NEW x \in Seen(n, s)
            PROVE  x \in {t[i] : i \in 1 .. MAX_WINDOW_LEVELS} \ {NULL}
        BY <2>6 DEF Seen
      <3> QED BY <3>1, <3>2
    <2> QED BY <2>1, <2>5, <2>8
  <1>3. CASE Class(g) # "WINDOW_FRAME"
    <2>1. ASSUME NEW h \in M, ParentOf(h) = g PROVE FALSE
      BY <1>1, <1>3, <2>1, Parents
    <2> QED BY <1>3, <2>1 DEF Children, Kids
  <1> QED BY <1>2, <1>3

\* Two moves are one.
LEMMA ShiftTwice ==
  ASSUME NEW R \in Rect, NEW a \in Int, NEW b \in Int, NEW dx \in Int, NEW dy \in Int
  PROVE  /\ Shifted(R, a, b) \in Rect
         /\ Shifted(Shifted(R, a, b), dx, dy) = Shifted(R, a + dx, b + dy)
  BY DEF Shifted, Rect

\* A root moves and takes its children along.
LEMMA MoveOK ==
  ASSUME NEW w, NEW M, WinsOK(w, M), Rooted(w, M), NEW g \in Base(M),
         NEW dx \in Int, NEW dy \in Int
  PROVE  WinsOK(MoveWindow(w, g, dx, dy), M) /\ Rooted(MoveWindow(w, g, dx, dy), M)
  <1>1. w \in Wins /\ M \subseteq Gids /\ g \in M /\ g \in Roots /\ g \in Gids
    BY DEF WinsOK, Base
  <1>2. PICK v : v = MoveWindow(w, g, dx, dy)
    OBVIOUS
  <1>3. v = [h \in Gids |-> IF h = g \/ h \in Kids(M, g)
                            THEN [w[h] EXCEPT !.rect = Shifted(@, dx, dy)] ELSE w[h]]
    BY <1>1, <1>2, ChildrenAreKids DEF MoveWindow
  <1>4. ASSUME NEW h \in Gids
        PROVE  /\ v[h] \in Win
               /\ v[h].next = w[h].next /\ v[h].prev = w[h].prev
               /\ v[h].first = w[h].first /\ v[h].parent = w[h].parent
               /\ v[h].wm_root = w[h].wm_root
               /\ v[h].rect = (IF h = g \/ h \in Kids(M, g) THEN Shifted(w[h].rect, dx, dy)
                               ELSE w[h].rect)
               /\ h # g /\ h \notin Kids(M, g) => v[h] = w[h]
    <2>1. w[h] \in Win /\ w[h].rect \in Rect
      BY <1>1 DEF Wins, Win
    <2>2. v[h] = (IF h = g \/ h \in Kids(M, g)
                  THEN [w[h] EXCEPT !.rect = Shifted(w[h].rect, dx, dy)] ELSE w[h])
      BY <1>3
    <2>3. Shifted(w[h].rect, dx, dy) \in Rect
      BY <2>1 DEF Shifted, Rect
    <2> QED BY <2>1, <2>2, <2>3 DEF Win
  <1>5. v \in Wins
    BY <1>3, <1>4 DEF Wins
  <1>6. \A h \in Gids \ M : v[h] = NoWindow
    <2> SUFFICES ASSUME NEW h \in Gids, h \notin M PROVE v[h] = NoWindow
      OBVIOUS
    <2>1. h # g /\ h \notin Kids(M, g)
      BY <1>1 DEF Kids
    <2>2. v[h] = w[h]
      BY <1>4, <2>1
    <2> QED BY <2>2 DEF WinsOK
  <1>7. Framed(v, M)
    BY <1>1, <1>4 DEF WinsOK, Framed
  <1>8. Stacked(v, M)
    BY <1>1, <1>4 DEF WinsOK, Stacked
  <1>9. Listed(v, M)
    <2> SUFFICES ASSUME NEW f \in M
                 PROVE  \E n, s : IsList(v, v[f].first, n, s) /\ Seen(n, s) = Kids(M, f)
      BY DEF Listed
    <2>1. PICK n, s : IsList(w, w[f].first, n, s) /\ Seen(n, s) = Kids(M, f)
      BY DEF WinsOK, Listed
    <2>2. \A h \in Seen(n, s) : v[h].next = w[h].next /\ v[h].prev = w[h].prev
      BY <1>1, <1>4, <2>1 DEF Kids
    <2>3. IsList(v, w[f].first, n, s)
      BY <2>1, <2>2, ListKept
    <2> QED BY <1>1, <1>4, <2>1, <2>3
  <1>10. Placed(v, M)
    <2> SUFFICES ASSUME NEW h \in M, ParentOf(h) # NULL
                 PROVE  v[h].rect = Shifted(Windows[h].rect, v[ParentOf(h)].rect.l,
                                            v[ParentOf(h)].rect.t)
      BY DEF Placed
    <2>1. PICK p : p = ParentOf(h)
      OBVIOUS
    <2>2. /\ h \in Gids /\ h \in DOMAIN Windows /\ p \in M /\ p \in Gids /\ p \in Roots /\ h # g
          /\ p \notin Kids(M, g)
      <3>1. h \in Gids /\ h # g
        BY <1>1 DEF Roots
      <3>2. p \in M
        BY <2>1 DEF WinsOK, Framed
      <3>3. h \in DOMAIN Windows /\ p \in Roots
        BY <2>1, <3>1, Parents
      <3> QED BY <1>1, <3>1, <3>2, <3>3, NullIsNone DEF Kids, Roots
    <2>3. PICK R : R = Windows[h].rect
      OBVIOUS
    <2>4. PICK F : F = w[p].rect
      OBVIOUS
    <2>5. R \in Rect /\ F \in Rect /\ w[h].rect = Shifted(R, F.l, F.t)
      <3>1. R \in Rect
        BY <2>2, <2>3, WindowsAssumption
      <3>2. F \in Rect
        BY <1>1, <2>2, <2>4 DEF Wins, Win
      <3> QED BY <2>1, <2>3, <2>4, <3>1, <3>2 DEF WinsOK, Placed
    <2>6. CASE p = g
      <3>1. h \in Kids(M, g)
        BY <2>1, <2>6 DEF Kids
      <3>2. v[h].rect = Shifted(Shifted(R, F.l, F.t), dx, dy) /\ v[p].rect = Shifted(F, dx, dy)
        BY <1>4, <2>2, <2>4, <2>5, <2>6, <3>1
      <3>3. F.l \in Int /\ F.t \in Int
        BY <2>5 DEF Rect
      <3>4. Shifted(F, dx, dy).l = F.l + dx /\ Shifted(F, dx, dy).t = F.t + dy
        BY DEF Shifted
      <3>5. Shifted(Shifted(R, F.l, F.t), dx, dy) = Shifted(R, F.l + dx, F.t + dy)
        BY <2>5, <3>3, ShiftTwice
      <3> QED BY <2>1, <2>3, <3>2, <3>4, <3>5
    <2>7. CASE p # g
      <3>1. h \notin Kids(M, g)
        BY <2>1, <2>7 DEF Kids
      <3>2. v[h].rect = w[h].rect /\ v[p].rect = w[p].rect
        BY <1>4, <2>2, <2>7, <3>1
      <3> QED BY <2>1, <2>3, <2>4, <2>5, <3>2
    <2> QED BY <2>6, <2>7
  <1>11. Rooted(v, M)
    BY <1>1, <1>4 DEF Rooted
  <1> QED BY <1>1, <1>2, <1>5, <1>6, <1>7, <1>8, <1>9, <1>10, <1>11 DEF WinsOK

-----------------------------------------------------------------------------
(* gui_redraw_rect(): what is drawn, and so the pick buffer, is of known windows *)

\* No link of a known window leads to an unknown one.
LinksIn(w, M) ==
  \A g \in M : /\ w[g].next \in M \cup {NULL} /\ w[g].first \in M \cup {NULL}
               /\ w[g].wm_root \in M /\ w[g].rect \in Rect

\* All links that a redraw follows lead to known windows.
LEMMA LinksKnown ==
  ASSUME NEW w, NEW M, WinsOK(w, M), Rooted(w, M)
  PROVE  LinksIn(w, M)
  <1> SUFFICES ASSUME NEW g \in M
               PROVE  /\ w[g].next \in M \cup {NULL} /\ w[g].first \in M \cup {NULL}
                      /\ w[g].wm_root \in M /\ w[g].rect \in Rect
    BY DEF LinksIn
  <1>1. g \in Gids /\ w[g].rect \in Rect
    BY DEF WinsOK, Wins, Win
  <1>2. w[g].wm_root \in M
    BY RootOfAny DEF Base
  <1>3. w[g].first \in M \cup {NULL}
    <2>1. PICK n, s : IsList(w, w[g].first, n, s) /\ Seen(n, s) = Kids(M, g)
      BY DEF WinsOK, Listed
    <2>2. n \in Nat /\ w[g].first = (IF n = 0 THEN NULL ELSE s[1])
      BY <2>1 DEF IsList
    <2>3. n # 0 => s[1] \in Seen(n, s)
      <3>1. n # 0 => 1 \in 1 .. n
        BY <2>2
      <3> QED BY <3>1 DEF Seen
    <2> QED BY <2>1, <2>2, <2>3 DEF Kids
  <1>4. w[g].next \in M \cup {NULL}
    <2>1. CASE ParentOf(g) = NULL
      BY <1>1, <2>1 DEF WinsOK, Stacked, Roots
    <2>2. CASE ParentOf(g) # NULL
      <3>1. PICK f : f = ParentOf(g)
        OBVIOUS
      <3>2. f \in M
        BY <2>2, <3>1 DEF WinsOK, Framed
      <3>3. PICK n, s : IsList(w, w[f].first, n, s) /\ Seen(n, s) = Kids(M, f)
        BY <3>2 DEF WinsOK, Listed
      <3>4. g \in Seen(n, s)
        BY <3>1, <3>3 DEF Kids
      <3>5. PICK i \in 1 .. n : g = s[i]
        BY <3>4 DEF Seen
      <3>6. n \in Nat /\ w[g].next = (IF i < n THEN s[i + 1] ELSE NULL)
        BY <3>3, <3>5 DEF IsList
      <3>7. i < n => s[i + 1] \in Seen(n, s)
        <4>1. i < n => i + 1 \in 1 .. n
          BY <3>6
        <4> QED BY <4>1 DEF Seen
      <3> QED BY <3>3, <3>6, <3>7 DEF Kids
    <2> QED BY <2>1, <2>2
  <1> QED BY <1>1, <1>2, <1>3, <1>4

\* Strokes that draw known windows.
StrokeOf(M) == [clip : Rect, win : M, blend : BOOLEAN]

\* Two sequences of a kind make one.
LEMMA Joined ==
  ASSUME NEW S, NEW a \in Seq(S), NEW b \in Seq(S)
  PROVE  a \o b \in Seq(S)
  OBVIOUS

\* So does an element.
LEMMA Single ==
  ASSUME NEW S, NEW a \in S
  PROVE  <<a>> \in Seq(S)
  OBVIOUS

\* rect_intersect() makes a rectangle of two.
LEMMA IntersectionType ==
  ASSUME NEW A \in Rect, NEW B \in Rect
  PROVE  Intersection(A, B) \in Rect
  BY DEF Intersection, Larger, Smaller, Rect

\* The window that gui_redraw_rect() finds is a known one.
LEMMA MeetingKnown ==
  ASSUME NEW w, NEW M, LinksIn(w, M), NEW from \in M \cup {NULL}, NEW clip
  PROVE  FirstMeeting(w, from, clip) \in M \cup {NULL}
  <1> DEFINE walk == Walk(w, from)
             meets == {i \in 1 .. MAX_WINDOW_LEVELS : walk[i] # NULL /\ Meet(w[walk[i]].rect, clip)}
  <1>1. FirstMeeting(w, from, clip) = IF meets = {} THEN NULL ELSE walk[First(meets)]
    BY DEF FirstMeeting
  <1>2. \A i \in 1 .. MAX_WINDOW_LEVELS : walk[i] \in M \cup {NULL}
    BY WalkClosed DEF LinksIn
  <1>3. meets \in SUBSET Nat /\ \A i \in meets : i \in 1 .. MAX_WINDOW_LEVELS
    BY LevelsType
  <1> HIDE DEF walk, meets
  <1>4. meets # {} => First(meets) \in meets
    BY <1>3, FirstIs
  <1> QED BY <1>1, <1>2, <1>3, <1>4

\* What gui_redraw_rect() draws itself and by the calls that it makes.
LEMMA StrokesKnown ==
  ASSUME NEW w, NEW M, LinksIn(w, M), NEW clip \in Rect, NEW from \in M \cup {NULL}, NEW below,
         \A R \in Rect, f \in M \cup {NULL} : below[<<R, f>>] \in Seq(StrokeOf(M))
  PROVE  Strokes(w, below, clip, from) \in Seq(StrokeOf(M))
  <1>1. PICK g : g = FirstMeeting(w, from, clip)
    OBVIOUS
  <1>2. PICK S : S = Seq(StrokeOf(M))
    OBVIOUS
  <1>3. <<>> \in S
    BY <1>2
  <1>4. CASE g = NULL
    BY <1>1, <1>2, <1>3, <1>4 DEF Strokes
  <1>5. CASE g # NULL
    <2>1. g \in M
      BY <1>1, <1>5, MeetingKnown
    <2>2. PICK sub : sub = Intersection(w[g].rect, clip)
      OBVIOUS
    <2>3. sub \in Rect
      BY <2>1, <2>2, IntersectionType DEF LinksIn
    <2> DEFINE Rest(c, R) == IF c THEN below[<<R, w[g].next>>] ELSE <<>>
               a == Rest(sub.t > clip.t, [clip EXCEPT !.b = sub.t])
               b == Rest(sub.l > clip.l, [sub EXCEPT !.l = clip.l, !.r = sub.l])
               c == Draw(w, below, sub, g)
               d == Rest(sub.r < clip.r, [sub EXCEPT !.l = sub.r, !.r = clip.r])
               e == Rest(sub.b < clip.b, [clip EXCEPT !.t = sub.b])
    <2>4. Strokes(w, below, clip, from) = a \o b \o c \o d \o e
      BY <1>1, <1>5, <2>2 DEF Strokes
    <2>5. \A R \in Rect : below[<<R, w[g].next>>] \in S /\ below[<<R, w[g].first>>] \in S
      BY <1>2, <2>1 DEF LinksIn
    <2>6. /\ [clip EXCEPT !.b = sub.t] \in Rect
          /\ [sub EXCEPT !.l = clip.l, !.r = sub.l] \in Rect
          /\ [sub EXCEPT !.l = sub.r, !.r = clip.r] \in Rect
          /\ [clip EXCEPT !.t = sub.b] \in Rect
      BY <2>3 DEF Rect
    <2>7. \A x : \A R \in Rect : Rest(x, R) \in S
      BY <1>3, <2>5
    <2>8. a \in S /\ b \in S /\ d \in S /\ e \in S
      <3> HIDE DEF Rest
      <3> QED BY <2>6, <2>7
    <2>9. c \in S
      <3>1. Stroke(sub, g, TRUE) \in StrokeOf(M) /\ Stroke(sub, g, FALSE) \in StrokeOf(M)
        BY <2>1, <2>3 DEF Stroke, StrokeOf
      <3>2. <<Stroke(sub, g, TRUE)>> \in S /\ <<Stroke(sub, g, FALSE)>> \in S
        BY <1>2, <3>1, Single
      <3>3. CASE Class(g) = "WINDOW_FRAME"
        <4>1. c = below[<<sub, w[g].first>>]
          BY <3>3 DEF Draw, Transparent
        <4> QED BY <2>3, <2>5, <4>1
      <3>4. CASE Class(g) # "WINDOW_FRAME" /\ Transparent(g)
        <4>1. c = below[<<sub, w[w[g].wm_root].next>>] \o <<Stroke(sub, g, TRUE)>>
          BY <3>4 DEF Draw
        <4>2. w[w[g].wm_root].next \in M \cup {NULL}
          BY <2>1 DEF LinksIn
        <4>3. below[<<sub, w[w[g].wm_root].next>>] \in S
          BY <1>2, <2>3, <4>2
        <4> HIDE DEF c
        <4> QED BY <1>2, <3>2, <4>1, <4>3, Joined
      <3>5. CASE Class(g) # "WINDOW_FRAME" /\ ~ Transparent(g)
        <4>1. c = <<Stroke(sub, g, FALSE)>>
          BY <3>5 DEF Draw
        <4> HIDE DEF c
        <4> QED BY <3>2, <4>1
      <3> QED BY <3>3, <3>4, <3>5
    <2> HIDE DEF a, b, c, d, e
    <2>10. a \o b \in S
      BY <1>2, <2>8, Joined
    <2>11. a \o b \o c \in S
      BY <1>2, <2>9, <2>10, Joined
    <2>12. a \o b \o c \o d \in S
      BY <1>2, <2>8, <2>11, Joined
    <2>13. a \o b \o c \o d \o e \in S
      BY <1>2, <2>8, <2>12, Joined
    <2> QED BY <1>2, <2>4, <2>13
  <1> QED BY <1>4, <1>5

\* What calls of gui_redraw_rect() draw that are nested n deep.
Calls == Rect \X (Gids \cup {NULL})
NestNext(w, n, below) == [c \in Calls |-> Strokes(w, below, c[1], c[2])]
Nests(w, t, n) ==
  t = [i \in 0 .. n |-> IF i = 0 THEN [c \in Calls |-> <<>>] ELSE NestNext(w, i, t[i - 1])]

\* The calls of gui_redraw_rect() are nested one in the other.
LEMMA NestsExist ==
  ASSUME NEW w
  PROVE  \A n \in Nat : \E t : Nests(w, t, n)
  <1> DEFINE Step(f, i) == IF i = 0 THEN [c \in Calls |-> <<>>] ELSE NestNext(w, i, f[i - 1])
             bad == {n \in Nat : ~ \E t : Nests(w, t, n)}
  <1>1. \A t, n : Nests(w, t, n) <=> t = [i \in 0 .. n |-> Step(t, i)]
    BY DEF Nests
  <1>2. \A f, h, i : i = 0 \/ f[i - 1] = h[i - 1] => Step(f, i) = Step(h, i)
    OBVIOUS
  <1> SUFFICES ASSUME bad # {} PROVE FALSE
    OBVIOUS
  <1>3. bad \in SUBSET Nat
    OBVIOUS
  <1> HIDE DEF bad, Step
  <1>4. PICK n \in bad : \A k \in bad : n <= k
    BY <1>3, LeastExists
  <1>5. n \in Nat /\ ~ \E t : Nests(w, t, n)
    BY <1>4 DEF bad
  <1>6. PICK s : n = 0 \/ s = [i \in 0 .. n - 1 |-> Step(s, i)]
    <2>1. n = 0 \/ (n - 1 \in Nat /\ n - 1 \notin bad)
      BY <1>4, <1>5
    <2> QED BY <1>1, <2>1 DEF bad
  <1> DEFINE t == [i \in 0 .. n |-> Step(s, i)]
  <1>7. ASSUME NEW i \in 0 .. n PROVE Step(s, i) = Step(t, i)
    <2>1. CASE i = 0
      BY <1>2, <2>1
    <2>2. CASE i > 0
      <3>1. i - 1 \in 0 .. n - 1 /\ i - 1 \in 0 .. n /\ n # 0
        BY <1>5, <2>2
      <3>2. t[i - 1] = Step(s, i - 1) /\ s[i - 1] = Step(s, i - 1)
        BY <1>6, <3>1
      <3> HIDE DEF t
      <3> QED BY <1>2, <3>2
    <2> QED BY <1>5, <2>1, <2>2
  <1>8. t = [i \in 0 .. n |-> Step(t, i)]
    <2>1. t = [i \in 0 .. n |-> t[i]] /\ \A i \in 0 .. n : t[i] = Step(s, i)
      OBVIOUS
    <2> HIDE DEF t
    <2> QED BY <1>7, <2>1
  <1>9. Nests(w, t, n)
    BY <1>1, <1>8
  <1> QED BY <1>5, <1>9

\* gui_redraw_rect() draws known windows only, however its calls are nested.
LEMMA RedrawKnown ==
  ASSUME NEW w, NEW M, LinksIn(w, M), M \subseteq Gids, NEW clip \in Rect,
         NEW from \in M \cup {NULL}
  PROVE  Redraw(w, clip, from) \in Seq(StrokeOf(M))
  <1> DEFINE nested[n \in 0 .. MAX_WINDOW_LEVELS] ==
               IF n = 0 THEN [c \in Calls |-> <<>>]
               ELSE [c \in Calls |-> Strokes(w, nested[n - 1], c[1], c[2])]
             Good(b) == \A R \in Rect, f \in M \cup {NULL} : b[<<R, f>>] \in Seq(StrokeOf(M))
             bad == {i \in 0 .. MAX_WINDOW_LEVELS : ~ Good(nested[i])}
  <1>1. Redraw(w, clip, from) = nested[MAX_WINDOW_LEVELS][<<clip, from>>]
    BY DEF Redraw, Calls
  <1>2. nested = CHOOSE t : Nests(w, t, MAX_WINDOW_LEVELS)
    BY DEF nested, Nests, NestNext
  <1>3. MAX_WINDOW_LEVELS \in Nat
    BY LevelsType
  <1>4. \E t : Nests(w, t, MAX_WINDOW_LEVELS)
    BY <1>3, NestsExist
  <1> HIDE DEF nested
  <1>5. Nests(w, nested, MAX_WINDOW_LEVELS)
    BY <1>2, <1>4
  <1>6. nested = [i \in 0 .. MAX_WINDOW_LEVELS |->
                    IF i = 0 THEN [c \in Calls |-> <<>>] ELSE NestNext(w, i, nested[i - 1])]
    BY <1>5 DEF Nests
  <1>7. \A R \in Rect, f \in M \cup {NULL} : <<R, f>> \in Calls
    BY DEF Calls
  <1>8. bad = {}
    <2> SUFFICES ASSUME bad # {} PROVE FALSE
      OBVIOUS
    <2>1. PICK i \in bad : \A k \in bad : i <= k
      <3>1. bad \in SUBSET Nat
        BY <1>3
      <3> HIDE DEF bad
      <3> QED BY <3>1, LeastExists
    <2>2. i \in 0 .. MAX_WINDOW_LEVELS /\ ~ Good(nested[i]) /\ i \in Nat
      BY <1>3, <2>1
    <2>3. CASE i = 0
      <3>1. nested[i] = [c \in Calls |-> <<>>]
        BY <1>6, <2>2, <2>3
      <3>2. Good(nested[i])
        <4>1. ASSUME NEW R \in Rect, NEW f \in M \cup {NULL}
              PROVE  nested[i][<<R, f>>] = <<>>
          BY <1>7, <3>1
        <4>2. <<>> \in Seq(StrokeOf(M))
          OBVIOUS
        <4> QED BY <4>1, <4>2
      <3> QED BY <2>2, <3>2
    <2>4. CASE i # 0
      <3>1. i - 1 \in 0 .. MAX_WINDOW_LEVELS /\ i - 1 \notin bad
        BY <1>3, <2>1, <2>2, <2>4
      <3>2. PICK b : b = nested[i - 1]
        OBVIOUS
      <3>3. Good(b)
        BY <3>1, <3>2
      <3>4. nested[i] = [c \in Calls |-> Strokes(w, b, c[1], c[2])]
        BY <1>6, <2>2, <2>4, <3>2 DEF NestNext
      <3>5. ASSUME NEW R \in Rect, NEW f \in M \cup {NULL}
            PROVE  nested[i][<<R, f>>] \in Seq(StrokeOf(M))
        <4>1. nested[i][<<R, f>>] = Strokes(w, b, R, f)
          BY <1>7, <3>4
        <4> QED BY <3>3, <4>1, StrokesKnown
      <3> QED BY <2>2, <3>5
    <2> QED BY <2>3, <2>4
  <1>9. MAX_WINDOW_LEVELS \in 0 .. MAX_WINDOW_LEVELS
    BY <1>3
  <1>10. Good(nested[MAX_WINDOW_LEVELS])
    BY <1>8, <1>9
  <1> QED BY <1>1, <1>10

\* gid is made of pid and windata.id, and is the index of a known window.
Named(M) == \A g \in M : (IF g = desktop THEN g ELSE Gid(Pid(g), Windows[g].id)) \in M
\* The pick buffer names known windows.
Picks(s, M) == \A px \in Pixels : s[px].pick \in M

\* The screen after the first n strokes.
DrawNext(w, s, strokes, i, t) == Fill(w, t, strokes[i])
Draws(w, s, strokes, t, n) ==
  t = [i \in 0 .. n |-> IF i = 0 THEN s ELSE DrawNext(w, s, strokes, i, t[i - 1])]

\* Strokes are drawn one after the other.
LEMMA DrawsExist ==
  ASSUME NEW w, NEW s, NEW strokes
  PROVE  \A n \in Nat : \E t : Draws(w, s, strokes, t, n)
  <1> DEFINE Step(f, i) == IF i = 0 THEN s ELSE DrawNext(w, s, strokes, i, f[i - 1])
             bad == {n \in Nat : ~ \E t : Draws(w, s, strokes, t, n)}
  <1>1. \A t, n : Draws(w, s, strokes, t, n) <=> t = [i \in 0 .. n |-> Step(t, i)]
    BY DEF Draws
  <1>2. \A f, h, i : i = 0 \/ f[i - 1] = h[i - 1] => Step(f, i) = Step(h, i)
    OBVIOUS
  <1> SUFFICES ASSUME bad # {} PROVE FALSE
    OBVIOUS
  <1>3. bad \in SUBSET Nat
    OBVIOUS
  <1> HIDE DEF bad, Step
  <1>4. PICK n \in bad : \A k \in bad : n <= k
    BY <1>3, LeastExists
  <1>5. n \in Nat /\ ~ \E t : Draws(w, s, strokes, t, n)
    BY <1>4 DEF bad
  <1>6. PICK r : n = 0 \/ r = [i \in 0 .. n - 1 |-> Step(r, i)]
    <2>1. n = 0 \/ (n - 1 \in Nat /\ n - 1 \notin bad)
      BY <1>4, <1>5
    <2> QED BY <1>1, <2>1 DEF bad
  <1> DEFINE t == [i \in 0 .. n |-> Step(r, i)]
  <1>7. ASSUME NEW i \in 0 .. n PROVE Step(r, i) = Step(t, i)
    <2>1. CASE i = 0
      BY <1>2, <2>1
    <2>2. CASE i > 0
      <3>1. i - 1 \in 0 .. n - 1 /\ i - 1 \in 0 .. n /\ n # 0
        BY <1>5, <2>2
      <3>2. t[i - 1] = Step(r, i - 1) /\ r[i - 1] = Step(r, i - 1)
        BY <1>6, <3>1
      <3> HIDE DEF t
      <3> QED BY <1>2, <3>2
    <2> QED BY <1>5, <2>1, <2>2
  <1>8. t = [i \in 0 .. n |-> Step(t, i)]
    <2>1. t = [i \in 0 .. n |-> t[i]] /\ \A i \in 0 .. n : t[i] = Step(r, i)
      OBVIOUS
    <2> HIDE DEF t
    <2> QED BY <1>7, <2>1
  <1>9. Draws(w, s, strokes, t, n)
    BY <1>1, <1>8
  <1> QED BY <1>5, <1>9

\* update_pick_buf() enters known windows only.
LEMMA DrawnKnown ==
  ASSUME NEW w, NEW M, NEW s, NEW strokes \in Seq(StrokeOf(M)), Named(M), Picks(s, M)
  PROVE  Picks(Drawn(w, s, strokes), M)
  <1> DEFINE N == Len(strokes)
             after[i \in 0 .. Len(strokes)] ==
               IF i = 0 THEN s ELSE Fill(w, after[i - 1], strokes[i])
             bad == {i \in 0 .. N : ~ Picks(after[i], M)}
  <1>1. Drawn(w, s, strokes) = after[N]
    BY DEF Drawn
  <1>2. after = CHOOSE t : Draws(w, s, strokes, t, N)
    BY DEF after, Draws, DrawNext
  <1>3. N \in Nat
    OBVIOUS
  <1> HIDE DEF N
  <1>4. \E t : Draws(w, s, strokes, t, N)
    BY <1>3, DrawsExist
  <1> HIDE DEF after
  <1>5. Draws(w, s, strokes, after, N)
    BY <1>2, <1>4
  <1>6. after = [i \in 0 .. N |-> IF i = 0 THEN s ELSE Fill(w, after[i - 1], strokes[i])]
    BY <1>5 DEF Draws, DrawNext
  <1>7. bad = {}
    <2> SUFFICES ASSUME bad # {} PROVE FALSE
      OBVIOUS
    <2>1. PICK i \in bad : \A k \in bad : i <= k
      <3>1. bad \in SUBSET Nat
        BY <1>3
      <3> HIDE DEF bad
      <3> QED BY <3>1, LeastExists
    <2>2. i \in 0 .. N /\ ~ Picks(after[i], M) /\ i \in Nat
      BY <1>3, <2>1
    <2>3. CASE i = 0
      BY <1>6, <2>2, <2>3
    <2>4. CASE i # 0
      <3>1. i - 1 \in 0 .. N /\ i - 1 \notin bad /\ i \in 1 .. N
        BY <1>3, <2>1, <2>2, <2>4
      <3>2. PICK b : b = after[i - 1]
        OBVIOUS
      <3>3. Picks(b, M)
        BY <3>1, <3>2
      <3>4. PICK k : k = strokes[i]
        OBVIOUS
      <3>5. after[i] = Fill(w, b, k)
        BY <1>6, <2>2, <2>4, <3>2, <3>4
      <3>6. k \in StrokeOf(M)
        BY <3>1, <3>4 DEF N
      <3>7. PICK id : id = (IF k.win = desktop THEN k.win ELSE Gid(Pid(k.win), Windows[k.win].id))
        OBVIOUS
      <3>8. id \in M
        BY <3>6, <3>7 DEF Named, StrokeOf
      <3>9. ASSUME NEW px \in Pixels PROVE Fill(w, b, k)[px].pick \in M
        <4> DEFINE c == (IF k.blend THEN b[px].color ELSE <<>>) \o <<Layer(w, k.win, px)>>
        <4>1. Fill(w, b, k)[px] = (IF Inside(px[1], px[2], k.clip)
                                   THEN [color |-> c, pick |-> id] ELSE b[px])
          BY <3>7 DEF Fill
        <4> HIDE DEF c
        <4>2. [color |-> c, pick |-> id].pick = id
          OBVIOUS
        <4>3. b[px].pick \in M
          BY <3>3 DEF Picks
        <4> QED BY <3>8, <4>1, <4>2, <4>3
      <3> QED BY <2>2, <3>5, <3>9 DEF Picks
    <2> QED BY <2>3, <2>4
  <1>8. N \in 0 .. N
    BY <1>3
  <1>9. Picks(after[N], M)
    BY <1>7, <1>8
  <1> QED BY <1>1, <1>9

-----------------------------------------------------------------------------
(* DisplayWorker::run() *)

\* A message names the window that it redraws, which is known.
Redraws == {"REDRAW_SCREEN", "REDRAW_WINDOW", "REDRAW_RECT", "REDRAW_MOUSE"}
Msgs(M) == {m \in [event : Redraws, win : Links, rect : Rect] :
              m.event = "REDRAW_WINDOW" => m.win \in M}

\* The screen is a rectangle.
LEMMA ScreenType == Screen \in Rect
  BY ScreenAssumption DEF Screen, Rect

\* A display message leaves known windows in the pick buffer.
LEMMA PaintedKnown ==
  ASSUME NEW M, WinsOK(win, M), Rooted(win, M), top \in Base(M), Named(M),
         NEW m \in Msgs(M), NEW s, Picks(s, M)
  PROVE  Picks(Painted(s, m), M)
  <1> DEFINE R == IF m.event = "REDRAW_WINDOW" THEN win[m.win].rect ELSE m.rect
             from == IF m.event = "REDRAW_WINDOW" THEN m.win ELSE top
  <1>1. Painted(s, m) = IF m.event # "REDRAW_MOUSE" /\ Meet(R, Screen)
                        THEN Drawn(win, s, Redraw(win, Intersection(R, Screen), from)) ELSE s
    BY DEF Painted
  <1>2. LinksIn(win, M) /\ M \subseteq Gids
    BY LinksKnown DEF WinsOK
  <1>3. from \in M \cup {NULL} /\ R \in Rect
    BY <1>2 DEF Msgs, LinksIn, Base
  <1> HIDE DEF R, from
  <1>4. Intersection(R, Screen) \in Rect
    BY <1>3, IntersectionType, ScreenType
  <1>5. Redraw(win, Intersection(R, Screen), from) \in Seq(StrokeOf(M))
    BY <1>2, <1>3, <1>4, RedrawKnown
  <1>6. Picks(Drawn(win, s, Redraw(win, Intersection(R, Screen), from)), M)
    BY <1>5, DrawnKnown
  <1> QED BY <1>1, <1>6

\* The screen after the first n messages.
PaintNext(s, msgs, i, t) == Painted(t, msgs[i])
Paints(s, msgs, t, n) ==
  t = [i \in 0 .. n |-> IF i = 0 THEN s ELSE PaintNext(s, msgs, i, t[i - 1])]

\* Messages are handled one after the other.
LEMMA PaintsExist ==
  ASSUME NEW s, NEW msgs
  PROVE  \A n \in Nat : \E t : Paints(s, msgs, t, n)
  <1> DEFINE Step(f, i) == IF i = 0 THEN s ELSE PaintNext(s, msgs, i, f[i - 1])
             bad == {n \in Nat : ~ \E t : Paints(s, msgs, t, n)}
  <1>1. \A t, n : Paints(s, msgs, t, n) <=> t = [i \in 0 .. n |-> Step(t, i)]
    BY DEF Paints
  <1>2. \A f, h, i : i = 0 \/ f[i - 1] = h[i - 1] => Step(f, i) = Step(h, i)
    OBVIOUS
  <1> SUFFICES ASSUME bad # {} PROVE FALSE
    OBVIOUS
  <1>3. bad \in SUBSET Nat
    OBVIOUS
  <1> HIDE DEF bad, Step
  <1>4. PICK n \in bad : \A k \in bad : n <= k
    BY <1>3, LeastExists
  <1>5. n \in Nat /\ ~ \E t : Paints(s, msgs, t, n)
    BY <1>4 DEF bad
  <1>6. PICK r : n = 0 \/ r = [i \in 0 .. n - 1 |-> Step(r, i)]
    <2>1. n = 0 \/ (n - 1 \in Nat /\ n - 1 \notin bad)
      BY <1>4, <1>5
    <2> QED BY <1>1, <2>1 DEF bad
  <1> DEFINE t == [i \in 0 .. n |-> Step(r, i)]
  <1>7. ASSUME NEW i \in 0 .. n PROVE Step(r, i) = Step(t, i)
    <2>1. CASE i = 0
      BY <1>2, <2>1
    <2>2. CASE i > 0
      <3>1. i - 1 \in 0 .. n - 1 /\ i - 1 \in 0 .. n /\ n # 0
        BY <1>5, <2>2
      <3>2. t[i - 1] = Step(r, i - 1) /\ r[i - 1] = Step(r, i - 1)
        BY <1>6, <3>1
      <3> HIDE DEF t
      <3> QED BY <1>2, <3>2
    <2> QED BY <1>5, <2>1, <2>2
  <1>8. t = [i \in 0 .. n |-> Step(t, i)]
    <2>1. t = [i \in 0 .. n |-> t[i]] /\ \A i \in 0 .. n : t[i] = Step(r, i)
      OBVIOUS
    <2> HIDE DEF t
    <2> QED BY <1>7, <2>1
  <1>9. Paints(s, msgs, t, n)
    BY <1>1, <1>8
  <1> QED BY <1>5, <1>9

\* So does a batch of them.
LEMMA PaintedAllKnown ==
  ASSUME NEW M, WinsOK(win, M), Rooted(win, M), top \in Base(M), Named(M),
         NEW msgs \in Seq(Msgs(M)), NEW s, Picks(s, M)
  PROVE  Picks(PaintedAll(s, msgs), M)
  <1> DEFINE N == Len(msgs)
             after[i \in 0 .. Len(msgs)] == IF i = 0 THEN s ELSE Painted(after[i - 1], msgs[i])
             bad == {i \in 0 .. N : ~ Picks(after[i], M)}
  <1>1. PaintedAll(s, msgs) = after[N]
    BY DEF PaintedAll
  <1>2. after = CHOOSE t : Paints(s, msgs, t, N)
    BY DEF after, Paints, PaintNext
  <1>3. N \in Nat
    OBVIOUS
  <1> HIDE DEF N
  <1>4. \E t : Paints(s, msgs, t, N)
    BY <1>3, PaintsExist
  <1> HIDE DEF after
  <1>5. Paints(s, msgs, after, N)
    BY <1>2, <1>4
  <1>6. after = [i \in 0 .. N |-> IF i = 0 THEN s ELSE Painted(after[i - 1], msgs[i])]
    BY <1>5 DEF Paints, PaintNext
  <1>7. bad = {}
    <2> SUFFICES ASSUME bad # {} PROVE FALSE
      OBVIOUS
    <2>1. PICK i \in bad : \A k \in bad : i <= k
      <3>1. bad \in SUBSET Nat
        BY <1>3
      <3> HIDE DEF bad
      <3> QED BY <3>1, LeastExists
    <2>2. i \in 0 .. N /\ ~ Picks(after[i], M) /\ i \in Nat
      BY <1>3, <2>1
    <2>3. CASE i = 0
      BY <1>6, <2>2, <2>3
    <2>4. CASE i # 0
      <3>1. i - 1 \in 0 .. N /\ i - 1 \notin bad /\ i \in 1 .. N
        BY <1>3, <2>1, <2>2, <2>4
      <3>2. PICK b : b = after[i - 1]
        OBVIOUS
      <3>3. Picks(b, M)
        BY <3>1, <3>2
      <3>4. PICK m : m = msgs[i]
        OBVIOUS
      <3>5. after[i] = Painted(b, m)
        BY <1>6, <2>2, <2>4, <3>2, <3>4
      <3>6. m \in Msgs(M)
        BY <3>1, <3>4 DEF N
      <3> QED BY <2>2, <3>3, <3>5, <3>6, PaintedKnown
    <2> QED BY <2>3, <2>4
  <1>8. N \in 0 .. N
    BY <1>3
  <1>9. Picks(after[N], M)
    BY <1>7, <1>8
  <1> QED BY <1>1, <1>9

-----------------------------------------------------------------------------
(* The mouse, its events, and the queues *)

\* A clamped coordinate is on the screen.
LEMMA ClampRange ==
  ASSUME NEW n \in Int, NEW size \in Nat \ {0}
  PROVE  Clamp(n, size) \in 0 .. size - 1
  BY DEF Clamp

\* The pointer stays on the screen.
LEMMA MovedType ==
  ASSUME mouse \in MouseState, NEW dx \in Int, NEW dy \in Int
  PROVE  Moved(dx, dy) \in MouseState
  <1>1. mouse.x + dx \in Int /\ mouse.y + dy \in Int
    BY ScreenAssumption DEF MouseState
  <1> DEFINE cx == Clamp(mouse.x + dx, VGA_WIDTH)
             cy == Clamp(mouse.y + dy, VGA_HEIGHT)
  <1>2. cx \in 0 .. VGA_WIDTH - 1 /\ cy \in 0 .. VGA_HEIGHT - 1
    BY <1>1, ClampRange, ScreenAssumption
  <1> HIDE DEF cx, cy
  <1>3. [mouse EXCEPT !.x = cx, !.y = cy] \in MouseState
    BY <1>2 DEF MouseState
  <1> QED BY <1>3 DEF Moved, cx, cy

\* What a packet does to the mouse state keeps its type.
LEMMA AfterPacketType ==
  ASSUME NEW m \in MouseState, NEW left \in BOOLEAN, NEW due \in BOOLEAN
  PROVE  Pressed(m, left) \in MouseState /\ AfterPacket(m, left, due) \in MouseState
  <1> DEFINE p == Pressed(m, left)
  <1>1. p \in MouseState
    BY DEF Pressed, MouseState
  <1> HIDE DEF p
  <1>2. \A d \in BOOLEAN : [p EXCEPT !.ldrag = d] \in MouseState
    BY <1>1 DEF MouseState
  <1>3. (p.ldrag \/ StartsDrag(p, due)) \in BOOLEAN
    OBVIOUS
  <1>4. [p EXCEPT !.ldrag = p.ldrag \/ StartsDrag(p, due)] \in MouseState
    BY <1>2, <1>3
  <1>5. AfterPacket(m, left, due) = [p EXCEPT !.ldrag = p.ldrag \/ StartsDrag(p, due)]
    BY DEF AfterPacket, p
  <1> QED BY <1>1, <1>4, <1>5 DEF p

\* What the mouse interrupt posts.
EventIds == {"MOUSE_LEFT_DOWN", "MOUSE_LEFT_DRAG_END", "MOUSE_LEFT_UP", "MOUSE_LEFT_CLICK",
             "MOUSE_MOVE", "MOUSE_LEFT_DRAG_START"}
Events == [id : EventIds, x : 0 .. VGA_WIDTH - 1, y : 0 .. VGA_HEIGHT - 1]

\* What user events are made of.
LEMMA EventType ==
  ASSUME NEW id \in EventIds, NEW x \in 0 .. VGA_WIDTH - 1, NEW y \in 0 .. VGA_HEIGHT - 1
  PROVE  <<Event(id, x, y)>> \in Seq(Events) /\ <<>> \in Seq(Events)
  <1>1. Event(id, x, y) \in Events
    BY DEF Event, Events
  <1>2. <<>> \in Seq(Events)
    OBVIOUS
  <1> QED BY <1>1, <1>2, Single

\* Events are on the screen.
LEMMA PacketEventsType ==
  ASSUME NEW m \in MouseState, NEW left \in BOOLEAN, NEW due \in BOOLEAN
  PROVE  PacketEvents(m, left, due) \in Seq(Events)
  <1> DEFINE p        == Pressed(m, left)
             released == ~ left /\ m.lbutton
             clicked  == released /\ InClickBox(m)
             x        == IF clicked THEN m.lclick_x ELSE m.x
             y        == IF clicked THEN m.lclick_y ELSE m.y
             e1 == When(left /\ ~ m.lbutton, Event("MOUSE_LEFT_DOWN", m.x, m.y))
             e2 == When(~ left /\ m.ldrag, Event("MOUSE_LEFT_DRAG_END", m.x, m.y))
             e3 == When(released, Event("MOUSE_LEFT_UP", m.x, m.y))
             e4 == When(clicked, Event("MOUSE_LEFT_CLICK", x, y))
             e5 == When(Moves(p, due), Event("MOUSE_MOVE", x, y))
             e6 == When(StartsDrag(p, due) /\ ~ InClickBox(p),
                        Event("MOUSE_LEFT_DRAG_START", x, y))
  <1>1. PacketEvents(m, left, due) = e1 \o e2 \o e3 \o e4 \o e5 \o e6
    BY DEF PacketEvents
  <1>2. m.x \in 0 .. VGA_WIDTH - 1 /\ m.y \in 0 .. VGA_HEIGHT - 1
    BY DEF MouseState
  <1>3. x \in 0 .. VGA_WIDTH - 1 /\ y \in 0 .. VGA_HEIGHT - 1
    BY DEF MouseState
  <1> HIDE DEF x, y, p, released, clicked
  <1>4. e1 \in Seq(Events) /\ e2 \in Seq(Events) /\ e3 \in Seq(Events)
    <2>1. e1 \in Seq(Events)
      BY <1>2, EventType DEF When, EventIds
    <2>2. e2 \in Seq(Events)
      BY <1>2, EventType DEF When, EventIds
    <2>3. e3 \in Seq(Events)
      BY <1>2, EventType DEF When, EventIds
    <2> QED BY <2>1, <2>2, <2>3
  <1>5. e4 \in Seq(Events) /\ e5 \in Seq(Events) /\ e6 \in Seq(Events)
    <2>1. e4 \in Seq(Events)
      BY <1>3, EventType DEF When, EventIds
    <2>2. e5 \in Seq(Events)
      BY <1>3, EventType DEF When, EventIds
    <2>3. e6 \in Seq(Events)
      BY <1>3, EventType DEF When, EventIds
    <2> QED BY <2>1, <2>2, <2>3
  <1> HIDE DEF e1, e2, e3, e4, e5, e6
  <1>6. e1 \o e2 \in Seq(Events)
    BY <1>4, Joined
  <1>7. e1 \o e2 \o e3 \in Seq(Events)
    BY <1>4, <1>6, Joined
  <1>8. e1 \o e2 \o e3 \o e4 \in Seq(Events)
    BY <1>5, <1>7, Joined
  <1>9. e1 \o e2 \o e3 \o e4 \o e5 \in Seq(Events)
    BY <1>5, <1>8, Joined
  <1>10. e1 \o e2 \o e3 \o e4 \o e5 \o e6 \in Seq(Events)
    BY <1>5, <1>9, Joined
  <1> QED BY <1>1, <1>10

\* A part of a sequence is one.
LEMMA PartType ==
  ASSUME NEW S, NEW q \in Seq(S), NEW m \in 1 .. Len(q) + 1, NEW n \in 0 .. Len(q)
  PROVE  SubSeq(q, m, n) \in Seq(S)
  OBVIOUS

\* A queue holds what is put into it.
LEMMA EnqueuedType ==
  ASSUME NEW S, NEW q \in Seq(S), NEW msgs \in Seq(S)
  PROVE  Enqueued(q, msgs) \in Seq(S)
  <1>1. PICK all : all = q \o msgs
    OBVIOUS
  <1>2. all \in Seq(S) /\ Len(all) \in Nat
    BY <1>1, Joined
  <1>3. PICK n : n = (IF Len(all) > MAX_EVENTS THEN MAX_EVENTS ELSE Len(all))
    OBVIOUS
  <1>4. n \in 0 .. Len(all) /\ 1 \in 1 .. Len(all) + 1
    BY <1>2, <1>3, InputAssumption
  <1>5. Enqueued(q, msgs) = SubSeq(all, 1, n)
    BY <1>1, <1>3 DEF Enqueued
  <1> QED BY <1>2, <1>4, <1>5, PartType

\* What display messages are made of.
LEMMA MsgType ==
  ASSUME NEW M, NEW event \in Redraws, NEW g \in Links, NEW R \in Rect,
         event = "REDRAW_WINDOW" => g \in M
  PROVE  <<DisplayMsg(event, g, R)>> \in Seq(Msgs(M))
  <1>1. DisplayMsg(event, g, R) \in Msgs(M)
    BY DEF DisplayMsg, Msgs
  <1> QED BY <1>1, Single

\* The message for a part of a union.
LEMMA RedrawPartType ==
  ASSUME NEW M, NEW R \in Rect
  PROVE  RedrawPart(R) \in Seq(Msgs(M))
  <1>1. <<DisplayMsg("REDRAW_RECT", NULL, R)>> \in Seq(Msgs(M))
    <2>1. NULL \in Links
      BY DEF Links
    <2>2. "REDRAW_RECT" # "REDRAW_WINDOW" /\ "REDRAW_RECT" \in Redraws
      BY DEF Redraws
    <2> QED BY <2>1, <2>2, MsgType
  <1>2. <<>> \in Seq(Msgs(M))
    OBVIOUS
  <1> QED BY <1>1, <1>2 DEF RedrawPart

\* What a drag asks to redraw is made of rectangles.
LEMMA RedrawRectsType ==
  ASSUME NEW M, NEW A \in Rect, NEW B \in Rect
  PROVE  RedrawRects(A, B) \in Seq(Msgs(M))
  <1>1. PICK parts : parts = rect_union(A, B)
    OBVIOUS
  <1>2. parts[1] \in Rect /\ parts[2] \in Rect /\ (Len(parts) # 2 => parts[3] \in Rect)
    <2>1. CASE ~ Meet(A, B)
      <3>1. parts = <<A, B>>
        BY <1>1, <2>1 DEF rect_union
      <3> QED BY <3>1
    <2>2. CASE Meet(A, B)
      <3> DEFINE hi == IF A.t < B.t THEN A ELSE B
                 lo == IF A.t < B.t THEN B ELSE A
                 head == IF A.b < B.b THEN A ELSE B
                 foot == IF A.b < B.b THEN B ELSE A
                 P1 == [l |-> hi.l, t |-> hi.t, r |-> hi.r, b |-> lo.t]
                 P2 == [l |-> Smaller(A.l, B.l), t |-> lo.t, r |-> Larger(A.r, B.r), b |-> head.b]
                 P3 == [l |-> foot.l, t |-> head.b, r |-> foot.r, b |-> foot.b]
      <3>1. parts = <<P1, P2, P3>>
        BY <1>1, <2>2 DEF rect_union
      <3>2. hi \in Rect /\ lo \in Rect /\ head \in Rect /\ foot \in Rect
        OBVIOUS
      <3> HIDE DEF hi, lo, head, foot
      <3>3. P1 \in Rect /\ P2 \in Rect /\ P3 \in Rect
        BY <3>2 DEF Rect, Smaller, Larger
      <3> HIDE DEF P1, P2, P3
      <3> QED BY <3>1, <3>3
    <2> QED BY <2>1, <2>2
  <1>3. RedrawPart(parts[1]) \in Seq(Msgs(M)) /\ RedrawPart(parts[2]) \in Seq(Msgs(M))
    BY <1>2, RedrawPartType
  <1>4. PICK rest : rest = (IF Len(parts) = 2 THEN <<>> ELSE RedrawPart(parts[3]))
    OBVIOUS
  <1>5. rest \in Seq(Msgs(M))
    BY <1>2, <1>4, RedrawPartType
  <1>6. RedrawRects(A, B) = RedrawPart(parts[1]) \o RedrawPart(parts[2]) \o rest
    BY <1>1, <1>4 DEF RedrawRects
  <1>7. RedrawPart(parts[1]) \o RedrawPart(parts[2]) \in Seq(Msgs(M))
    BY <1>3, Joined
  <1> QED BY <1>5, <1>6, <1>7, Joined

-----------------------------------------------------------------------------
(* Text boxes *)

\* A buffer, whatever its characters are.
Fields(cw, m, oy, h, t, x) ==
  [char_w |-> cw, max |-> m, offset_y |-> oy, head |-> h, tail |-> t, text |-> x]
IsBuffer(b) ==
  \E x : \E cw \in Nat \ {0}, m \in Nat, oy \in Int, h \in Int, t \in Int :
    b = Fields(cw, m, oy, h, t, x)

\* Characters that are put into a buffer change nothing else of it.
LEMMA PutFields ==
  ASSUME NEW cw, NEW m, NEW oy, NEW h, NEW t, NEW x, NEW at, NEW n, NEW c
  PROVE  \E y : Put(Fields(cw, m, oy, h, t, x), at, n, c) = Fields(cw, m, oy, h, t, y)
  <1> DEFINE b == Fields(cw, m, oy, h, t, x)
             y == [k \in DOMAIN x |->
                     IF \E j \in 0 .. n - 1 : k = (at + j) % b.max THEN c ELSE x[k]]
  <1>1. b.text = x
    BY DEF Fields
  <1>2. Put(b, at, n, c) = [b EXCEPT !.text = y]
    BY <1>1 DEF Put
  <1> HIDE DEF y
  <1>3. [b EXCEPT !.text = y] = Fields(cw, m, oy, h, t, y)
    BY DEF Fields
  <1> HIDE DEF b
  <1> QED BY <1>2, <1>3 DEF b

\* They leave it a buffer.
LEMMA PutBuffer ==
  ASSUME NEW b, IsBuffer(b), NEW at, NEW n, NEW c
  PROVE  IsBuffer(Put(b, at, n, c))
  <1>0. PICK x : \E cw \in Nat \ {0}, m \in Nat, oy \in Int, h \in Int, t \in Int :
          b = Fields(cw, m, oy, h, t, x)
    BY DEF IsBuffer
  <1>1. PICK cw \in Nat \ {0}, m \in Nat, oy \in Int, h \in Int, t \in Int :
          b = Fields(cw, m, oy, h, t, x)
    BY <1>0
  <1>2. PICK y : Put(b, at, n, c) = Fields(cw, m, oy, h, t, y)
    BY <1>1, PutFields
  <1> QED BY <1>2 DEF IsBuffer

\* The numbers of a buffer are numbers, ...
LEMMA BufferParts ==
  ASSUME NEW b, IsBuffer(b)
  PROVE  /\ b.char_w \in Nat \ {0} /\ b.max \in Nat /\ b.offset_y \in Int /\ b.tail \in Int
         /\ b.head \in Int
  <1>0. PICK x : \E cw \in Nat \ {0}, m \in Nat, oy \in Int, h \in Int, t \in Int :
          b = Fields(cw, m, oy, h, t, x)
    BY DEF IsBuffer
  <1>1. PICK cw \in Nat \ {0}, m \in Nat, oy \in Int, h \in Int, t \in Int :
          b = Fields(cw, m, oy, h, t, x)
    BY <1>0
  <1> QED BY <1>1 DEF Fields

\* ... and assignments to them keep it a buffer.
LEMMA BufferPuts ==
  ASSUME NEW b, IsBuffer(b), NEW i \in Int
  PROVE  /\ IsBuffer([b EXCEPT !.tail = i]) /\ IsBuffer([b EXCEPT !.head = i])
         /\ IsBuffer([b EXCEPT !.offset_y = i])
  <1>0. PICK x : \E cw \in Nat \ {0}, m \in Nat, oy \in Int, h \in Int, t \in Int :
          b = Fields(cw, m, oy, h, t, x)
    BY DEF IsBuffer
  <1>1. PICK cw \in Nat \ {0}, m \in Nat, oy \in Int, h \in Int, t \in Int :
          b = Fields(cw, m, oy, h, t, x)
    BY <1>0
  <1>2. /\ [b EXCEPT !.tail = i] = Fields(cw, m, oy, h, i, x)
        /\ [b EXCEPT !.head = i] = Fields(cw, m, oy, i, t, x)
        /\ [b EXCEPT !.offset_y = i] = Fields(cw, m, i, h, t, x)
    BY <1>1 DEF Fields
  <1>3. IsBuffer(Fields(cw, m, oy, h, i, x)) /\ IsBuffer(Fields(cw, m, oy, i, t, x))
        /\ IsBuffer(Fields(cw, m, i, h, t, x))
    BY DEF IsBuffer
  <1> QED BY <1>2, <1>3

\* Division and remainder are numbers.
LEMMA ModType ==
  ASSUME NEW a \in Int, NEW b \in Nat \ {0}
  PROVE  a % b \in Int /\ a \div b \in Int
  OBVIOUS

\* A printed character leaves a buffer.
LEMMA TypedBuffer ==
  ASSUME NEW b, IsBuffer(b), NEW c
  PROVE  IsBuffer(Typed(b, c))
  <1> DEFINE n == IF c = "NL" THEN b.char_w - (b.tail % b.char_w) ELSE 1
             put == Put(b, b.tail, n, IF c = "NL" THEN " " ELSE c)
  <1>1. n \in Int
    <2>1. b.char_w \in Nat \ {0} /\ b.tail \in Int
      BY BufferParts
    <2>2. b.tail % b.char_w \in Int
      BY <2>1, ModType
    <2> QED BY <2>1, <2>2
  <1>2. IsBuffer(put)
    BY PutBuffer
  <1>3. Typed(b, c) = [put EXCEPT !.tail = put.tail + n]
    BY DEF Typed
  <1> HIDE DEF n, put
  <1>4. PICK i \in Int : i = put.tail + n
    BY <1>1, <1>2, BufferParts
  <1>5. IsBuffer([put EXCEPT !.tail = i])
    BY <1>2, BufferPuts
  <1> QED BY <1>3, <1>4, <1>5

\* The buffer after n characters.
TypeNext(b, s, len, k, t) == Typed(t, s[Len(s) - len + k])
Types(b, s, len, t, n) ==
  t = [i \in 0 .. n |-> IF i = 0 THEN b ELSE TypeNext(b, s, len, i, t[i - 1])]

\* print() takes one character after the other.
LEMMA TypesExist ==
  ASSUME NEW b, NEW s, NEW len
  PROVE  \A n \in Nat : \E t : Types(b, s, len, t, n)
  <1> DEFINE Step(f, i) == IF i = 0 THEN b ELSE TypeNext(b, s, len, i, f[i - 1])
             bad == {n \in Nat : ~ \E t : Types(b, s, len, t, n)}
  <1>1. \A t, n : Types(b, s, len, t, n) <=> t = [i \in 0 .. n |-> Step(t, i)]
    BY DEF Types
  <1>2. \A f, h, i : i = 0 \/ f[i - 1] = h[i - 1] => Step(f, i) = Step(h, i)
    OBVIOUS
  <1> SUFFICES ASSUME bad # {} PROVE FALSE
    OBVIOUS
  <1>3. bad \in SUBSET Nat
    OBVIOUS
  <1> HIDE DEF bad, Step
  <1>4. PICK n \in bad : \A k \in bad : n <= k
    BY <1>3, LeastExists
  <1>5. n \in Nat /\ ~ \E t : Types(b, s, len, t, n)
    BY <1>4 DEF bad
  <1>6. PICK r : n = 0 \/ r = [i \in 0 .. n - 1 |-> Step(r, i)]
    <2>1. n = 0 \/ (n - 1 \in Nat /\ n - 1 \notin bad)
      BY <1>4, <1>5
    <2> QED BY <1>1, <2>1 DEF bad
  <1> DEFINE t == [i \in 0 .. n |-> Step(r, i)]
  <1>7. ASSUME NEW i \in 0 .. n PROVE Step(r, i) = Step(t, i)
    <2>1. CASE i = 0
      BY <1>2, <2>1
    <2>2. CASE i > 0
      <3>1. i - 1 \in 0 .. n - 1 /\ i - 1 \in 0 .. n /\ n # 0
        BY <1>5, <2>2
      <3>2. t[i - 1] = Step(r, i - 1) /\ r[i - 1] = Step(r, i - 1)
        BY <1>6, <3>1
      <3> HIDE DEF t
      <3> QED BY <1>2, <3>2
    <2> QED BY <1>5, <2>1, <2>2
  <1>8. t = [i \in 0 .. n |-> Step(t, i)]
    <2>1. t = [i \in 0 .. n |-> t[i]] /\ \A i \in 0 .. n : t[i] = Step(r, i)
      OBVIOUS
    <2> HIDE DEF t
    <2> QED BY <1>7, <2>1
  <1>9. Types(b, s, len, t, n)
    BY <1>1, <1>8
  <1> QED BY <1>5, <1>9

\* print() leaves a buffer.
LEMMA PrintedBuffer ==
  ASSUME NEW b, IsBuffer(b), NEW s \in Texts
  PROVE  IsBuffer(Printed(b, s))
  <1> DEFINE len == Smaller(Len(s), b.max)
             after[k \in 0 .. len] ==
               IF k = 0 THEN b ELSE Typed(after[k - 1], s[Len(s) - len + k])
             typed == after[len]
             headed == IF typed.tail - typed.head >= b.max
                       THEN [typed EXCEPT !.head = @ + b.char_w] ELSE typed
             cleared == IF headed.tail % b.char_w = 0
                        THEN Put(headed, headed.tail, b.char_w, " ") ELSE headed
             bad == {i \in 0 .. len : ~ IsBuffer(after[i])}
  <1>1. Printed(b, s) = Put(cleared, cleared.tail, 1, "_")
    BY DEF Printed
  <1>2. len \in Nat
    <2>1. Len(s) \in Nat
      BY InputAssumption
    <2>2. b.max \in Nat
      BY BufferParts
    <2> QED BY <2>1, <2>2 DEF Smaller
  <1>3. after = CHOOSE t : Types(b, s, len, t, len)
    BY DEF after, Types, TypeNext
  <1> HIDE DEF len
  <1>4. \E t : Types(b, s, len, t, len)
    BY <1>2, TypesExist
  <1> HIDE DEF after
  <1>5. Types(b, s, len, after, len)
    BY <1>3, <1>4
  <1>6. after = [i \in 0 .. len |-> IF i = 0 THEN b ELSE Typed(after[i - 1], s[Len(s) - len + i])]
    BY <1>5 DEF Types, TypeNext
  <1>7. bad = {}
    <2> SUFFICES ASSUME bad # {} PROVE FALSE
      OBVIOUS
    <2>1. PICK i \in bad : \A k \in bad : i <= k
      <3>1. bad \in SUBSET Nat
        BY <1>2
      <3> HIDE DEF bad
      <3> QED BY <3>1, LeastExists
    <2>2. i \in 0 .. len /\ ~ IsBuffer(after[i]) /\ i \in Nat
      BY <1>2, <2>1
    <2>3. CASE i = 0
      BY <1>6, <2>2, <2>3
    <2>4. CASE i # 0
      <3>1. i - 1 \in 0 .. len /\ i - 1 \notin bad
        BY <1>2, <2>1, <2>2, <2>4
      <3>2. IsBuffer(after[i - 1])
        BY <3>1
      <3>3. after[i] = Typed(after[i - 1], s[Len(s) - len + i])
        BY <1>6, <2>2, <2>4
      <3> QED BY <2>2, <3>2, <3>3, TypedBuffer
    <2> QED BY <2>3, <2>4
  <1>8. IsBuffer(typed)
    <2>1. len \in 0 .. len
      BY <1>2
    <2> QED BY <1>7, <2>1
  <1> HIDE DEF typed
  <1>9. IsBuffer(headed)
    <2>1. typed.head + b.char_w \in Int
      BY <1>8, BufferParts
    <2>2. IsBuffer([typed EXCEPT !.head = typed.head + b.char_w])
      BY <1>8, <2>1, BufferPuts
    <2> QED BY <1>8, <2>2
  <1> HIDE DEF headed
  <1>10. IsBuffer(cleared)
    BY <1>9, PutBuffer
  <1> HIDE DEF cleared
  <1> QED BY <1>1, <1>10, PutBuffer

\* So do backspace() ...
LEMMA ErasedBuffer ==
  ASSUME NEW b, IsBuffer(b)
  PROVE  IsBuffer(Erased(b))
  <1> DEFINE put == Put(b, b.tail, 1, " ")
             back == [put EXCEPT !.tail = put.tail - 1]
  <1>1. IsBuffer(put)
    BY PutBuffer
  <1>2. Erased(b) = Put(back, b.tail - 1, 1, "_")
    BY DEF Erased
  <1> HIDE DEF put
  <1>3. put.tail - 1 \in Int
    BY <1>1, BufferParts
  <1>4. IsBuffer(back)
    BY <1>1, <1>3, BufferPuts
  <1> HIDE DEF back
  <1> QED BY <1>2, <1>4, PutBuffer

\* The cursor of a buffer has numbers for its place.
LEMMA CursorType ==
  ASSUME NEW b, IsBuffer(b), NEW at \in Int
  PROVE  CursorX(b, at) \in Int /\ CursorY(b, at) \in Int
  <1>1. b.char_w \in Nat \ {0} /\ b.offset_y \in Int
    BY BufferParts
  <1>2. at % b.char_w \in Int /\ at \div b.char_w \in Int
    BY <1>1, ModType
  <1> QED BY <1>1, <1>2 DEF CursorX, CursorY

\* ... and the scrolling of set_redraw_rect(), ...
LEMMA ScrolledBuffer ==
  ASSUME NEW b, IsBuffer(b), NEW h \in Int
  PROVE  IsBuffer(Scrolled(b, h))
  <1> DEFINE y == CursorY(b, b.tail)
             to == IF y < 0 THEN b.offset_y - y ELSE IF y + 1 > h THEN b.offset_y + h - (y + 1)
                   ELSE b.offset_y
  <1>1. b.tail \in Int /\ b.offset_y \in Int
    BY BufferParts
  <1>2. y \in Int
    BY <1>1, CursorType
  <1>3. Scrolled(b, h) = [b EXCEPT !.offset_y = to]
    BY DEF Scrolled
  <1> HIDE DEF y
  <1>4. to \in Int
    BY <1>1, <1>2
  <1> HIDE DEF to
  <1> QED BY <1>3, <1>4, BufferPuts

\* ... which asks to redraw a rectangle.
LEMMA RedrawRectType ==
  ASSUME NEW b, IsBuffer(b), NEW old \in Int, NEW w \in Int, NEW h \in Int
  PROVE  RedrawRect(b, old, w, h) \in Rect
  <1>1. b.tail \in Int
    BY BufferParts
  <1>2. PICK x \in Int : x = CursorX(b, b.tail)
    BY <1>1, CursorType
  <1>3. PICK y \in Int : y = CursorY(b, b.tail)
    BY <1>1, CursorType
  <1>4. PICK ox \in Int : ox = CursorX(b, old)
    BY CursorType
  <1>5. PICK oy \in Int : oy = CursorY(b, old)
    BY CursorType
  <1>6. RedrawRect(b, old, w, h) =
          IF Leaves(b, h) THEN [l |-> 0, t |-> 0, r |-> w, b |-> h]
          ELSE [l |-> IF y = oy THEN Smaller(x, ox) ELSE 0,
                t |-> Smaller(y, oy),
                r |-> IF y = oy THEN Larger(x, ox) + 1 ELSE w,
                b |-> Larger(y, oy) + 1]
    BY <1>2, <1>3, <1>4, <1>5 DEF RedrawRect
  <1> QED BY <1>6 DEF Rect, Smaller, Larger

-----------------------------------------------------------------------------
(* The invariant *)

\* The windows that the manager knows when these processes have called update_gui().
KnownBy(pids) == {desktop} \cup {g \in DOMAIN Windows : Pid(g) \in pids}

\* The mouse and its events, texts, the windows, a raise that is under way, and what
\* is on the screen or will be drawn: all of them name known windows only.
InputsOK == mouse \in MouseState /\ events \in Seq(Events)
TextsOK ==
  /\ redraw_rect \in [DOMAIN Windows -> Rect]
  /\ text = [g \in Boxes |-> text[g]] /\ \A g \in Boxes : IsBuffer(text[g])
WmOK ==
  /\ created \in SUBSET Nat
  /\ WinsOK(win, KnownBy(created)) /\ Rooted(win, KnownBy(created))
  /\ top \in Base(KnownBy(created)) /\ drag_window \in Base(KnownBy(created)) \cup {NULL}
RaiseOK ==
  /\ worker \in [pc : {"idle", "detach", "link", "top", "post"}, root : Links]
  /\ worker.pc # "idle" => worker.root \in Base(KnownBy(created))
  /\ worker.pc = "detach" => worker.root # top
PaintOK ==
  Picks(screen, KnownBy(created)) /\ display \in Seq(Msgs(KnownBy(created)))
DesktopInv == InputsOK /\ TextsOK /\ WmOK /\ RaiseOK /\ PaintOK

\* The windows of a process are named by their ids.
LEMMA KnownNamed ==
  ASSUME NEW pids
  PROVE  Named(KnownBy(pids)) /\ KnownBy(pids) \subseteq Gids
  <1>1. ASSUME NEW g \in DOMAIN Windows, Pid(g) \in pids
        PROVE  Gid(Pid(g), Windows[g].id) \in KnownBy(pids)
    <2>1. Gid(Pid(g), Windows[g].id) \in DOMAIN Windows /\ Windows[g].id \in 0 .. MAX_PROC_WINDOWS - 1
      BY WindowsAssumption
    <2>2. Pid(g) \in Nat
      BY IndexOf
    <2>3. Pid(Gid(Pid(g), Windows[g].id)) = Pid(g)
      BY <2>1, <2>2, Indices
    <2> QED BY <1>1, <2>1, <2>3 DEF KnownBy
  <1>2. desktop \in KnownBy(pids)
    BY DEF KnownBy
  <1>3. Named(KnownBy(pids))
    <2> SUFFICES ASSUME NEW g \in KnownBy(pids), g # desktop
                 PROVE  Gid(Pid(g), Windows[g].id) \in KnownBy(pids)
      BY <1>2 DEF Named
    <2>1. g \in DOMAIN Windows /\ Pid(g) \in pids
      BY DEF KnownBy
    <2> QED BY <1>1, <2>1
  <1> QED BY <1>3 DEF KnownBy, Gids

\* update_gui() makes the windows of one process known, and no other.
LEMMA KnownGrows ==
  ASSUME NEW pids, NEW pid, pid \notin pids
  PROVE  /\ KnownBy(pids \cup {pid}) = KnownBy(pids) \cup OfProc(pid)
         /\ OfProc(pid) \cap KnownBy(pids) = {}
  <1>1. desktop \notin DOMAIN Windows
    BY WindowsAssumption
  <1> QED BY <1>1 DEF KnownBy, OfProc

\* A sequence over a set is one over a larger set.
LEMMA SeqGrows ==
  ASSUME NEW S, NEW T, S \subseteq T, NEW q \in Seq(S)
  PROVE  q \in Seq(T)
  <1>1. Len(q) \in Nat /\ q \in [1 .. Len(q) -> S]
    OBVIOUS
  <1>2. q \in [1 .. Len(q) -> T]
    BY <1>1
  <1> QED BY <1>1, <1>2

\* What is taken from a queue, and what stays in it.
LEMMA TailType ==
  ASSUME NEW S, NEW q \in Seq(S), q # <<>>
  PROVE  Tail(q) \in Seq(S) /\ Head(q) \in S
  OBVIOUS

-----------------------------------------------------------------------------
(* Initial states *)

\* The mouse before the first packet.
LEMMA InitialMouseType == InitialMouse \in MouseState
  <1>1. VGA_WIDTH \div 4 \in 0 .. VGA_WIDTH - 1 /\ VGA_HEIGHT \div 4 \in 0 .. VGA_HEIGHT - 1
    BY ScreenAssumption
  <1>2. 0 \in 0 .. VGA_WIDTH - 1 /\ 0 \in 0 .. VGA_HEIGHT - 1
    BY ScreenAssumption
  <1> QED BY <1>1, <1>2 DEF InitialMouse, MouseState

\* The desktop alone.
LEMMA BareOK ==
  ASSUME NEW bare, bare = [[g \in Gids |-> NoWindow] EXCEPT ![desktop].rect = Screen,
                                                            ![desktop].wm_root = desktop]
  PROVE  /\ WinsOK(bare, {desktop}) /\ Rooted(bare, {desktop}) /\ desktop \in Base({desktop})
  <1>1. desktop \in Gids /\ desktop \in Roots /\ ParentOf(desktop) = NULL
    BY NullIsNone DEF Gids, ParentOf
  <1>2. NULL \in Links /\ desktop \in Links
    BY <1>1 DEF Links
  <1>3. NoWindow \in Win /\ Screen \in Rect
    BY <1>2, ScreenType DEF NoWindow, Win, Rect
  <1>4. bare = [g \in Gids |-> IF g = desktop
                               THEN [NoWindow EXCEPT !.rect = Screen, !.wm_root = desktop]
                               ELSE NoWindow]
    BY <1>1
  <1>5. [NoWindow EXCEPT !.rect = Screen, !.wm_root = desktop] \in Win
    BY <1>2, <1>3 DEF Win
  <1>6. bare \in Wins
    BY <1>3, <1>4, <1>5 DEF Wins
  <1>7. bare[desktop] = [NoWindow EXCEPT !.rect = Screen, !.wm_root = desktop]
    BY <1>1, <1>4
  <1>8. /\ bare[desktop].next = NULL /\ bare[desktop].prev = NULL /\ bare[desktop].parent = NULL
        /\ bare[desktop].first = NULL /\ bare[desktop].wm_root = desktop
    <2>1. /\ NoWindow.next = NULL /\ NoWindow.prev = NULL /\ NoWindow.parent = NULL
          /\ NoWindow.first = NULL
      BY DEF NoWindow
    <2>2. PICK none \in Win : none = NoWindow
      BY <1>3
    <2>3. bare[desktop] = [none EXCEPT !.rect = Screen, !.wm_root = desktop]
      BY <1>7, <2>2
    <2>4. /\ bare[desktop].next = none.next /\ bare[desktop].prev = none.prev
          /\ bare[desktop].parent = none.parent /\ bare[desktop].first = none.first
          /\ bare[desktop].wm_root = desktop
      BY <2>3 DEF Win
    <2> QED BY <2>1, <2>2, <2>4
  <1>9. \A g \in Gids \ {desktop} : bare[g] = NoWindow
    BY <1>4
  <1>10. Framed(bare, {desktop}) /\ Stacked(bare, {desktop}) /\ Placed(bare, {desktop})
    BY <1>1, <1>8 DEF Framed, Stacked, Placed
  <1>11. Listed(bare, {desktop})
    <2>1. Kids({desktop}, desktop) = {}
      BY <1>1, NullIsNone DEF Kids
    <2> QED BY <1>8, <2>1, EmptyList DEF Listed
  <1>12. Rooted(bare, {desktop})
    BY <1>1, <1>8 DEF Rooted
  <1> QED BY <1>1, <1>6, <1>9, <1>10, <1>11, <1>12 DEF WinsOK, Base

\* An empty buffer is one.
LEMMA InitialBuffer ==
  ASSUME NEW w \in Nat \ {0}, NEW h \in Nat \ {0}
  PROVE  IsBuffer(Buffer(w, h))
  <1>1. PICK m \in Nat : m = w * h
    OBVIOUS
  <1>2. PICK x : x = [k \in 0 .. w * h - 1 |-> " "]
    OBVIOUS
  <1>3. Buffer(w, h) = Fields(w, m, 0, 0, 0, x)
    BY <1>1, <1>2 DEF Buffer, Fields
  <1> QED BY <1>3 DEF IsBuffer

\* The invariant holds when main() has set up the windows of the kernel.
LEMMA InitOK == Init => DesktopInv
  <1> SUFFICES ASSUME Init PROVE DesktopInv
    OBVIOUS
  <1>1. PICK bare : bare = [[g \in Gids |-> NoWindow] EXCEPT ![desktop].rect = Screen,
                                                             ![desktop].wm_root = desktop]
    OBVIOUS
  <1>2. PICK M : M = KnownBy({Kernel})
    OBVIOUS
  <1>3. M = {desktop} \cup OfProc(Kernel) /\ OfProc(Kernel) \cap {desktop} = {}
    <2>1. desktop \notin DOMAIN Windows
      BY WindowsAssumption
    <2> QED BY <1>2, <2>1 DEF KnownBy, OfProc
  <1>4. /\ win = UpdateProc(bare, desktop, Kernel)[1] /\ top = UpdateProc(bare, desktop, Kernel)[2]
        /\ created = {Kernel} /\ drag_window = NULL
    BY <1>1 DEF Init
  <1>5. WinsOK(bare, {desktop}) /\ Rooted(bare, {desktop}) /\ desktop \in Base({desktop})
    BY <1>1, BareOK
  <1>6. Kernel \in Nat
    BY DEF Kernel
  <1>7. WinsOK(win, M) /\ Rooted(win, M) /\ top \in Base(M)
    BY <1>3, <1>4, <1>5, <1>6, UpdateProcOK
  <1>8. WmOK
    BY <1>2, <1>4, <1>6, <1>7 DEF WmOK
  <1>9. RaiseOK
    <2>1. worker = [pc |-> "idle", root |-> NULL]
      BY DEF Init
    <2>2. NULL \in Links
      BY DEF Links
    <2> QED BY <2>1, <2>2 DEF RaiseOK
  <1>10. InputsOK
    <2>1. mouse = InitialMouse /\ events = <<>>
      BY DEF Init
    <2>2. <<>> \in Seq(Events)
      OBVIOUS
    <2> QED BY <2>1, <2>2, InitialMouseType DEF InputsOK
  <1>11. TextsOK
    <2>1. /\ text = [g \in Boxes |-> Buffer(Windows[g].chars[1], Windows[g].chars[2])]
          /\ redraw_rect = [g \in DOMAIN Windows |->
                              [l |-> 0, t |-> 0, r |-> WidthOf(g), b |-> HeightOf(g)]]
      BY DEF Init
    <2>2. ASSUME NEW g \in DOMAIN Windows
          PROVE  [l |-> 0, t |-> 0, r |-> WidthOf(g), b |-> HeightOf(g)] \in Rect
      <3>1. Windows[g].rect \in Rect
        BY WindowsAssumption
      <3>2. WidthOf(g) \in Int /\ HeightOf(g) \in Int
        BY <3>1 DEF WidthOf, HeightOf, Rect
      <3> QED BY <3>2 DEF Rect
    <2>3. ASSUME NEW g \in Boxes PROVE IsBuffer(text[g])
      <3>1. Windows[g].chars \in (Nat \ {0}) \X (Nat \ {0})
        BY InputAssumption
      <3>2. Windows[g].chars[1] \in Nat \ {0} /\ Windows[g].chars[2] \in Nat \ {0}
        BY <3>1
      <3>3. text[g] = Buffer(Windows[g].chars[1], Windows[g].chars[2])
        BY <2>1
      <3> QED BY <3>2, <3>3, InitialBuffer
    <2>4. text = [g \in Boxes |-> text[g]]
      BY <2>1
    <2>5. redraw_rect \in [DOMAIN Windows -> Rect]
      BY <2>1, <2>2
    <2> QED BY <2>3, <2>4, <2>5 DEF TextsOK
  <1>12. PaintOK
    <2>1. PICK blank : blank = [px \in Pixels |-> [color |-> <<>>, pick |-> desktop]]
      OBVIOUS
    <2>2. screen = Drawn(win, blank, Redraw(win, Screen, top))
      BY <2>1 DEF Init
    <2>3. display = <<DisplayMsg("REDRAW_SCREEN", NULL, Screen)>>
      BY DEF Init
    <2>4. LinksIn(win, M) /\ M \subseteq Gids /\ top \in M /\ Named(M)
      BY <1>2, <1>7, LinksKnown, KnownNamed DEF Base
    <2>5. Redraw(win, Screen, top) \in Seq(StrokeOf(M))
      BY <2>4, ScreenType, RedrawKnown
    <2>6. Picks(blank, M)
      BY <1>3, <2>1 DEF Picks
    <2>7. Picks(screen, M)
      BY <2>2, <2>4, <2>5, <2>6, DrawnKnown
    <2>8. display \in Seq(Msgs(M))
      <3>1. NULL \in Links
        BY DEF Links
      <3>2. "REDRAW_SCREEN" \in Redraws /\ "REDRAW_SCREEN" # "REDRAW_WINDOW"
        BY DEF Redraws
      <3> QED BY <2>3, <3>1, <3>2, ScreenType, MsgType
    <2> QED BY <1>2, <1>4, <2>7, <2>8 DEF PaintOK
  <1> QED BY <1>8, <1>9, <1>10, <1>11, <1>12 DEF DesktopInv

-----------------------------------------------------------------------------
(* Steps *)

\* A mouse packet changes the mouse and the queue of events.
LEMMA PacketOK ==
  ASSUME DesktopInv, NEW p \in Packets, NEW due \in BOOLEAN, Packet(p, due)
  PROVE  DesktopInv'
  <1>1. p.dx \in Int /\ p.dy \in Int /\ p.left \in BOOLEAN
    BY InputAssumption
  <1>2. PICK m : m = Moved(p.dx, p.dy)
    OBVIOUS
  <1>3. /\ mouse' = AfterPacket(m, p.left, due)
        /\ events' = Enqueued(events, PacketEvents(m, p.left, due))
        /\ UNCHANGED <<wmVars, screen, display, worker, userVars, order, dropped>>
    BY <1>2 DEF Packet
  <1>4. mouse \in MouseState /\ events \in Seq(Events)
    BY DEF DesktopInv, InputsOK
  <1>5. m \in MouseState
    BY <1>1, <1>2, <1>4, MovedType
  <1>6. mouse' \in MouseState
    BY <1>1, <1>3, <1>5, AfterPacketType
  <1>7. PacketEvents(m, p.left, due) \in Seq(Events)
    BY <1>1, <1>5, PacketEventsType
  <1>8. events' \in Seq(Events)
    BY <1>3, <1>4, <1>7, EnqueuedType
  <1>9. InputsOK'
    BY <1>6, <1>8 DEF InputsOK
  <1>10. TextsOK'
    BY <1>3 DEF DesktopInv, TextsOK, userVars
  <1>11. WmOK' /\ RaiseOK' /\ PaintOK'
    BY <1>3 DEF DesktopInv, WmOK, RaiseOK, PaintOK, userVars, wmVars
  <1> QED BY <1>9, <1>10, <1>11 DEF DesktopInv

\* Every event is taken in the same way.
LEMMA TakesOK ==
  ASSUME DesktopInv, NEW ids, TakesEvent(ids)
  PROVE  /\ events' \in Seq(Events) /\ Head(events) \in Events
         /\ created' = created /\ TextsOK' /\ screen' = screen
  <1>1. events \in Seq(Events) /\ TextsOK
    BY DEF DesktopInv, InputsOK
  <1>2. events # <<>> /\ events' = Tail(events) /\ UNCHANGED <<screen, userVars, packets>>
    BY DEF TakesEvent
  <1>3. events' \in Seq(Events) /\ Head(events) \in Events
    BY <1>1, <1>2, TailType
  <1>4. TextsOK'
    BY <1>1, <1>2 DEF TextsOK, userVars
  <1> QED BY <1>2, <1>3, <1>4 DEF userVars

\* A drag moves a root, with its children.
LEMMA MouseMoveOK ==
  ASSUME DesktopInv, MouseMove
  PROVE  DesktopInv'
  <1>1. PICK M : M = KnownBy(created)
    OBVIOUS
  <1>2. /\ mouse \in MouseState /\ WinsOK(win, M) /\ Rooted(win, M) /\ top \in Base(M)
        /\ drag_window \in Base(M) \cup {NULL} /\ display \in Seq(Msgs(M))
        /\ Picks(screen, M) /\ created \in SUBSET Nat /\ RaiseOK
    BY <1>1 DEF DesktopInv, InputsOK, WmOK, PaintOK
  <1>3. TakesEvent({"MOUSE_MOVE"})
    BY DEF MouseMove
  <1>4. events' \in Seq(Events) /\ created' = created /\ TextsOK' /\ screen' = screen
    BY <1>3, TakesOK
  <1>5. PICK dx : dx = mouse.x - mouse.old_x
    OBVIOUS
  <1>6. PICK dy : dy = mouse.y - mouse.old_y
    OBVIOUS
  <1>7. dx \in Int /\ dy \in Int
    BY <1>2, <1>5, <1>6, ScreenAssumption DEF MouseState
  <1>8. PICK moved : moved = IF Drags THEN MoveWindow(win, drag_window, dx, dy) ELSE win
    OBVIOUS
  <1>9. PICK msgs : msgs = (IF Drags THEN RedrawRects(win[drag_window].rect, moved[drag_window].rect)
                            ELSE <<>>) \o <<DisplayMsg("REDRAW_MOUSE", NULL, Screen)>>
    OBVIOUS
  <1>10. /\ mouse' = [mouse EXCEPT !.old_x = mouse.x, !.old_y = mouse.y]
         /\ \/ win' = win /\ display' = display
            \/ win' = moved /\ display' = Enqueued(display, msgs)
         /\ UNCHANGED <<top, drag_window, worker, order>>
    BY <1>5, <1>6, <1>8, <1>9 DEF MouseMove, PostDisplay
  <1>11. WinsOK(moved, M) /\ Rooted(moved, M)
    <2>1. CASE Drags
      <3>1. drag_window \in Base(M)
        BY <1>2, <2>1 DEF Drags
      <3> QED BY <1>2, <1>7, <1>8, <2>1, <3>1, MoveOK
    <2>2. CASE ~ Drags
      BY <1>2, <1>8, <2>2
    <2> QED BY <2>1, <2>2
  <1>12. msgs \in Seq(Msgs(M))
    <2>1. PICK a : a = IF Drags THEN RedrawRects(win[drag_window].rect, moved[drag_window].rect)
                       ELSE <<>>
      OBVIOUS
    <2>2. a \in Seq(Msgs(M))
      <3>1. CASE Drags
        <4>1. drag_window \in Gids
          BY <1>2, <3>1 DEF Drags, Base, WinsOK
        <4>2. win[drag_window].rect \in Rect /\ moved[drag_window].rect \in Rect
          BY <1>2, <1>11, <4>1 DEF WinsOK, Wins, Win
        <4> QED BY <2>1, <3>1, <4>2, RedrawRectsType
      <3>2. CASE ~ Drags
        BY <2>1, <3>2
      <3> QED BY <3>1, <3>2
    <2>3. <<DisplayMsg("REDRAW_MOUSE", NULL, Screen)>> \in Seq(Msgs(M))
      <3>1. NULL \in Links
        BY DEF Links
      <3>2. "REDRAW_MOUSE" \in Redraws /\ "REDRAW_MOUSE" # "REDRAW_WINDOW"
        BY DEF Redraws
      <3> QED BY <3>1, <3>2, ScreenType, MsgType
    <2>4. msgs = a \o <<DisplayMsg("REDRAW_MOUSE", NULL, Screen)>>
      BY <1>9, <2>1
    <2> QED BY <2>2, <2>3, <2>4, Joined
  <1>13. display' \in Seq(Msgs(M))
    <2>1. Enqueued(display, msgs) \in Seq(Msgs(M))
      BY <1>2, <1>12, EnqueuedType
    <2> QED BY <1>2, <1>10, <2>1
  <1>14. WinsOK(win', M) /\ Rooted(win', M)
    BY <1>2, <1>10, <1>11
  <1>15. InputsOK'
    <2>1. mouse' \in MouseState
      BY <1>2, <1>10 DEF MouseState
    <2> QED BY <1>4, <2>1 DEF InputsOK
  <1>16. WmOK'
    BY <1>1, <1>2, <1>4, <1>10, <1>14 DEF WmOK
  <1>17. RaiseOK'
    BY <1>2, <1>4, <1>10 DEF RaiseOK
  <1>18. PaintOK'
    BY <1>1, <1>2, <1>4, <1>13 DEF PaintOK
  <1> QED BY <1>4, <1>15, <1>16, <1>17, <1>18 DEF DesktopInv

\* The window that is hit is known, and so is its root.
LEMMA MouseDownOK ==
  ASSUME DesktopInv, MouseDown
  PROVE  DesktopInv'
  <1>1. PICK M : M = KnownBy(created)
    OBVIOUS
  <1>2. /\ mouse \in MouseState /\ WinsOK(win, M) /\ Rooted(win, M) /\ top \in Base(M)
        /\ drag_window \in Base(M) \cup {NULL} /\ display \in Seq(Msgs(M))
        /\ Picks(screen, M) /\ created \in SUBSET Nat /\ RaiseOK
    BY <1>1 DEF DesktopInv, InputsOK, WmOK, PaintOK
  <1>3. TakesEvent({"MOUSE_LEFT_DOWN"})
    BY DEF MouseDown
  <1>4. /\ events' \in Seq(Events) /\ created' = created /\ TextsOK' /\ screen' = screen
        /\ Head(events) \in Events
    BY <1>3, TakesOK
  <1>5. PICK hit : hit = screen[<<Head(events).x, Head(events).y>>].pick
    OBVIOUS
  <1>6. PICK root : root = win[hit].wm_root
    OBVIOUS
  <1>7. root \in Base(M)
    <2>1. <<Head(events).x, Head(events).y>> \in Pixels
      BY <1>4 DEF Pixels, Events
    <2>2. hit \in M
      BY <1>2, <1>5, <2>1 DEF Picks
    <2> QED BY <1>2, <1>6, <2>2, RootOfAny
  <1>8. /\ drag_window' = (IF hit # desktop THEN root ELSE NULL)
        /\ worker' = (IF hit # desktop /\ root # top THEN [pc |-> "detach", root |-> root]
                      ELSE worker)
        /\ UNCHANGED <<mouse, win, top, display, order, dropped>>
    BY <1>5, <1>6 DEF MouseDown
  <1>9. InputsOK'
    BY <1>2, <1>4, <1>8 DEF InputsOK
  <1>10. WmOK'
    BY <1>1, <1>2, <1>4, <1>7, <1>8 DEF WmOK
  <1>11. RaiseOK'
    <2>1. root \in Links
      BY <1>2, <1>7 DEF Base, WinsOK, Links
    <2>2. CASE hit # desktop /\ root # top
      <3>1. worker' = [pc |-> "detach", root |-> root]
        BY <1>8, <2>2
      <3> QED BY <1>1, <1>4, <1>7, <1>8, <2>1, <2>2, <3>1 DEF RaiseOK
    <2>3. CASE ~ (hit # desktop /\ root # top)
      <3>1. worker' = worker
        BY <1>8, <2>3
      <3> QED BY <1>2, <1>4, <1>8, <3>1 DEF RaiseOK
    <2> QED BY <2>2, <2>3
  <1>12. PaintOK'
    BY <1>1, <1>2, <1>4, <1>8 DEF PaintOK
  <1> QED BY <1>4, <1>9, <1>10, <1>11, <1>12 DEF DesktopInv

\* The end of a drag, and what the worker ignores.
LEMMA OtherEventsOK ==
  ASSUME DesktopInv, MouseUp \/ OtherEvent
  PROVE  DesktopInv'
  <1>1. PICK ids : TakesEvent(ids)
    BY DEF MouseUp, OtherEvent
  <1>2. events' \in Seq(Events) /\ created' = created /\ TextsOK' /\ screen' = screen
    BY <1>1, TakesOK
  <1>3. /\ drag_window' = NULL \/ drag_window' = drag_window
        /\ UNCHANGED <<mouse, win, top, display, worker>>
    BY DEF MouseUp, OtherEvent, wmVars
  <1>4. InputsOK'
    BY <1>2, <1>3 DEF DesktopInv, InputsOK
  <1>5. WmOK'
    BY <1>2, <1>3 DEF DesktopInv, WmOK
  <1>6. RaiseOK' /\ PaintOK'
    BY <1>2, <1>3 DEF DesktopInv, RaiseOK, PaintOK
  <1> QED BY <1>2, <1>4, <1>5, <1>6 DEF DesktopInv

\* To raise a root changes the links of roots, also if another process pushes its
\* windows between two of the steps.
LEMMA RaiseStepsOK ==
  ASSUME DesktopInv, DetachRoot \/ PushLink \/ PushTop
  PROVE  DesktopInv'
  <1>1. PICK M : M = KnownBy(created)
    OBVIOUS
  <1>2. /\ WinsOK(win, M) /\ Rooted(win, M) /\ top \in Base(M)
        /\ drag_window \in Base(M) \cup {NULL}
        /\ created \in SUBSET Nat
        /\ worker \in [pc : {"idle", "detach", "link", "top", "post"}, root : Links]
        /\ worker.pc # "idle" => worker.root \in Base(M)
        /\ worker.pc = "detach" => worker.root # top
    BY <1>1 DEF DesktopInv, WmOK, RaiseOK
  <1>3. UNCHANGED <<mouse, drag_window, screen, events, display, userVars, packets, dropped>>
    BY DEF DetachRoot, PushLink, PushTop
  <1>4. worker.root \in Base(M)
    BY <1>2 DEF DetachRoot, PushLink, PushTop
  <1>5. WinsOK(win', M) /\ Rooted(win', M) /\ top' \in Base(M)
    <2>1. CASE DetachRoot
      <3>1. win' = Detach(win, worker.root) /\ top' = top
        BY <1>2, <2>1 DEF DetachRoot
      <3> QED BY <1>2, <1>4, <3>1, DetachOK
    <2>2. CASE PushLink
      <3>1. win' = [win EXCEPT ![worker.root].next = top, ![worker.root].prev = NULL] /\ top' = top
        BY <2>2 DEF PushLink
      <3>2. top \in Base(M) \cup {NULL}
        BY <1>2
      <3> QED BY <1>2, <1>4, <3>1, <3>2, BothOK
    <2>3. CASE PushTop
      <3>1. win' = SetPrev(win, top, worker.root) /\ top' = worker.root
        BY <2>3 DEF PushTop
      <3>2. top \in Base(M) \cup {NULL} /\ worker.root \in Base(M) \cup {NULL}
        BY <1>2, <1>4
      <3> QED BY <1>2, <1>4, <3>1, <3>2, PrevOK
    <2> QED BY <2>1, <2>2, <2>3
  <1>6. worker' \in [pc : {"idle", "detach", "link", "top", "post"}, root : Links]
        /\ worker'.pc # "detach" /\ worker'.root = worker.root
    BY <1>2 DEF DetachRoot, PushLink, PushTop
  <1>7. created' = created
    BY <1>3 DEF userVars
  <1>8. WmOK'
    BY <1>1, <1>2, <1>3, <1>5, <1>7 DEF WmOK
  <1>9. RaiseOK'
    BY <1>1, <1>4, <1>6, <1>7 DEF RaiseOK
  <1>10. InputsOK' /\ PaintOK'
    BY <1>3, <1>7 DEF DesktopInv, InputsOK, PaintOK
  <1>11. TextsOK'
    BY <1>3 DEF DesktopInv, TextsOK, userVars
  <1> QED BY <1>8, <1>9, <1>10, <1>11 DEF DesktopInv

\* The message at the end of a raise names a known window.
LEMMA PostRaisedOK ==
  ASSUME DesktopInv, PostRaised
  PROVE  DesktopInv'
  <1>1. PICK M : M = KnownBy(created)
    OBVIOUS
  <1>2. /\ display' = Enqueued(display, <<DisplayMsg("REDRAW_WINDOW", worker.root, Screen)>>)
        /\ worker' = [pc |-> "idle", root |-> NULL] /\ worker.pc = "post"
        /\ UNCHANGED <<mouse, wmVars, screen, events, userVars, packets, order>>
    BY DEF PostRaised, PostDisplay
  <1>3. worker.root \in M /\ worker.root \in Links /\ display \in Seq(Msgs(M))
    BY <1>1, <1>2 DEF DesktopInv, RaiseOK, PaintOK, Base
  <1>4. <<DisplayMsg("REDRAW_WINDOW", worker.root, Screen)>> \in Seq(Msgs(M))
    <2>1. "REDRAW_WINDOW" \in Redraws
      BY DEF Redraws
    <2> QED BY <1>3, <2>1, ScreenType, MsgType
  <1>5. display' \in Seq(Msgs(M))
    BY <1>2, <1>3, <1>4, EnqueuedType
  <1>6. created' = created
    BY <1>2 DEF userVars
  <1>7. PaintOK'
    BY <1>1, <1>2, <1>5, <1>6 DEF DesktopInv, PaintOK
  <1>8. RaiseOK'
    <2>1. NULL \in Links
      BY DEF Links
    <2> QED BY <1>2, <2>1 DEF RaiseOK
  <1>9. WmOK' /\ InputsOK'
    BY <1>2, <1>6 DEF DesktopInv, WmOK, InputsOK, wmVars
  <1>10. TextsOK'
    BY <1>2 DEF DesktopInv, TextsOK, userVars
  <1> QED BY <1>7, <1>8, <1>9, <1>10 DEF DesktopInv

\* The display worker paints known windows.
LEMMA DisplayRunOK ==
  ASSUME DesktopInv, DisplayRun
  PROVE  DesktopInv'
  <1>1. PICK M : M = KnownBy(created)
    OBVIOUS
  <1>2. PICK n : n = Smaller(BATCH, Len(display))
    OBVIOUS
  <1>3. /\ screen' = PaintedAll(screen, SubSeq(display, 1, n))
        /\ display' = SubSeq(display, n + 1, Len(display))
        /\ UNCHANGED <<mouse, wmVars, events, worker, userVars, packets, order, dropped>>
    BY <1>2 DEF DisplayRun
  <1>4. /\ WinsOK(win, M) /\ Rooted(win, M) /\ top \in Base(M) /\ Picks(screen, M)
        /\ display \in Seq(Msgs(M)) /\ Named(M)
    BY <1>1, KnownNamed DEF DesktopInv, WmOK, PaintOK
  <1>5. /\ Len(display) \in Nat /\ n \in 0 .. Len(display) /\ n + 1 \in 1 .. Len(display) + 1
        /\ 1 \in 1 .. Len(display) + 1 /\ Len(display) \in 0 .. Len(display)
    <2>1. Len(display) \in Nat
      BY <1>4
    <2> QED BY <1>2, <2>1, InputAssumption DEF Smaller
  <1>6. SubSeq(display, 1, n) \in Seq(Msgs(M)) /\ SubSeq(display, n + 1, Len(display)) \in Seq(Msgs(M))
    BY <1>4, <1>5, PartType
  <1>7. Picks(PaintedAll(screen, SubSeq(display, 1, n)), M)
    BY <1>4, <1>6, PaintedAllKnown
  <1>8. created' = created
    BY <1>3 DEF userVars
  <1>9. PaintOK'
    BY <1>1, <1>3, <1>6, <1>7, <1>8 DEF PaintOK
  <1>10. WmOK' /\ InputsOK' /\ RaiseOK'
    BY <1>3, <1>8 DEF DesktopInv, WmOK, InputsOK, RaiseOK, wmVars
  <1>11. TextsOK'
    BY <1>3 DEF DesktopInv, TextsOK, userVars
  <1> QED BY <1>9, <1>10, <1>11 DEF DesktopInv

\* The windows of a process become known, whatever the kernel event thread is doing.
LEMMA UpdateGuiOK ==
  ASSUME DesktopInv, NEW pid \in Users \cup {Kernel}, UpdateGui(pid)
  PROVE  DesktopInv'
  <1>1. PICK M : M = KnownBy(created)
    OBVIOUS
  <1>2. PICK N : N = M \cup OfProc(pid)
    OBVIOUS
  <1>3. /\ pid \notin created /\ created' = created \cup {pid}
        /\ win' = UpdateProc(win, top, pid)[1] /\ top' = UpdateProc(win, top, pid)[2]
        /\ UNCHANGED <<mouse, drag_window, screen, events, display, worker, redraw_rect, text,
                       packets, prints, dropped>>
    BY DEF UpdateGui
  <1>4. /\ WinsOK(win, M) /\ Rooted(win, M) /\ top \in Base(M) /\ Picks(screen, M)
        /\ drag_window \in Base(M) \cup {NULL} /\ display \in Seq(Msgs(M))
        /\ created \in SUBSET Nat
    BY <1>1 DEF DesktopInv, WmOK, PaintOK
  <1>5. pid \in Nat
    BY WindowsAssumption DEF Kernel
  <1>6. KnownBy(created') = N /\ OfProc(pid) \cap M = {}
    BY <1>1, <1>2, <1>3, KnownGrows
  <1>7. /\ WinsOK(win', N) /\ Rooted(win', N) /\ top' \in Base(N)
        /\ top' = top \/ top' \in OfProc(pid)
    <2>1. WinsOK(UpdateProc(win, top, pid)[1], M \cup OfProc(pid))
      BY <1>4, <1>5, <1>6, UpdateProcOK
    <2>2. Rooted(UpdateProc(win, top, pid)[1], M \cup OfProc(pid))
      BY <1>4, <1>5, <1>6, UpdateProcOK
    <2>3. UpdateProc(win, top, pid)[2] \in Base(M \cup OfProc(pid))
      BY <1>4, <1>5, <1>6, UpdateProcOK
    <2>4. \/ UpdateProc(win, top, pid)[2] = top
          \/ UpdateProc(win, top, pid)[2] \in OfProc(pid)
      BY <1>4, <1>5, <1>6, UpdateProcOK
    <2> QED BY <1>2, <1>3, <2>1, <2>2, <2>3, <2>4
  <1>8. Base(M) \subseteq Base(N) /\ Base(M) \cap OfProc(pid) = {}
    BY <1>2, <1>6 DEF Base
  <1>9. WmOK'
    BY <1>3, <1>4, <1>5, <1>6, <1>7, <1>8 DEF WmOK
  <1>10. RaiseOK'
    <2>1. /\ worker \in [pc : {"idle", "detach", "link", "top", "post"}, root : Links]
          /\ worker.pc # "idle" => worker.root \in Base(M)
          /\ worker.pc = "detach" => worker.root # top
      BY <1>1 DEF DesktopInv, RaiseOK
    <2>2. worker' = worker
      BY <1>3
    <2>3. worker.pc = "detach" => worker.root # top'
      BY <1>7, <1>8, <2>1
    <2> QED BY <1>6, <1>8, <2>1, <2>2, <2>3 DEF RaiseOK
  <1>11. PaintOK'
    <2>1. Msgs(M) \subseteq Msgs(N)
      BY <1>2 DEF Msgs
    <2>2. display \in Seq(Msgs(N))
      BY <1>4, <2>1, SeqGrows
    <2>3. Picks(screen, N)
      BY <1>2, <1>4 DEF Picks
    <2> QED BY <1>3, <1>6, <2>2, <2>3 DEF PaintOK
  <1>12. InputsOK'
    BY <1>3 DEF DesktopInv, InputsOK
  <1>13. TextsOK'
    BY <1>3 DEF DesktopInv, TextsOK
  <1> QED BY <1>9, <1>10, <1>11, <1>12, <1>13 DEF DesktopInv

\* A text changes a buffer and the rectangle to redraw.
LEMMA ChangeTextOK ==
  ASSUME DesktopInv, NEW g \in Boxes, NEW buf, IsBuffer(buf), ChangeText(g, buf)
  PROVE  DesktopInv'
  <1>1. /\ text' = [text EXCEPT ![g] = Scrolled(buf, HeightOf(g))]
        /\ redraw_rect' = [redraw_rect EXCEPT ![g] =
                             RedrawRect(buf, text[g].tail, WidthOf(g), HeightOf(g))]
        /\ UNCHANGED <<mouse, wmVars, screen, events, display, worker, created, packets, order,
                       dropped>>
    BY DEF ChangeText
  <1>2. g \in DOMAIN Windows /\ Windows[g].rect \in Rect
    BY WindowsAssumption DEF Boxes
  <1>3. WidthOf(g) \in Int /\ HeightOf(g) \in Int
    BY <1>2 DEF WidthOf, HeightOf, Rect
  <1>4. /\ redraw_rect \in [DOMAIN Windows -> Rect]
        /\ text = [h \in Boxes |-> text[h]] /\ \A h \in Boxes : IsBuffer(text[h])
    BY DEF DesktopInv, TextsOK
  <1>5. PICK new : new = Scrolled(buf, HeightOf(g))
    OBVIOUS
  <1>6. IsBuffer(new)
    BY <1>3, <1>5, ScrolledBuffer
  <1>7. PICK R : R = RedrawRect(buf, text[g].tail, WidthOf(g), HeightOf(g))
    OBVIOUS
  <1>8. R \in Rect
    <2>1. text[g].tail \in Int
      BY <1>4, BufferParts
    <2> QED BY <1>3, <1>7, <2>1, RedrawRectType
  <1>9. redraw_rect' \in [DOMAIN Windows -> Rect]
    BY <1>1, <1>2, <1>4, <1>7, <1>8
  <1>10. text' = [h \in Boxes |-> IF h = g THEN new ELSE text[h]]
    BY <1>1, <1>4, <1>5
  <1>11. TextsOK'
    <2>1. text' = [h \in Boxes |-> text'[h]]
      BY <1>10
    <2>2. \A h \in Boxes : IsBuffer(text'[h])
      BY <1>4, <1>6, <1>10
    <2> QED BY <1>9, <2>1, <2>2 DEF TextsOK
  <1>12. WmOK' /\ RaiseOK' /\ InputsOK' /\ PaintOK'
    BY <1>1 DEF DesktopInv, WmOK, RaiseOK, InputsOK, PaintOK, wmVars
  <1> QED BY <1>11, <1>12 DEF DesktopInv

\* print() and backspace() do.
LEMMA TextStepsOK ==
  ASSUME DesktopInv, NEW g \in Boxes, PrintText(g) \/ Backspace(g)
  PROVE  DesktopInv'
  <1>1. IsBuffer(text[g])
    BY DEF DesktopInv, TextsOK
  <1>2. CASE PrintText(g)
    <2>1. PICK s \in Texts : ChangeText(g, Printed(text[g], s))
      BY <1>2 DEF PrintText
    <2>2. IsBuffer(Printed(text[g], s))
      BY <1>1, PrintedBuffer
    <2> QED BY <2>1, <2>2, ChangeTextOK
  <1>3. CASE Backspace(g)
    <2>1. ChangeText(g, Erased(text[g]))
      BY <1>3 DEF Backspace
    <2>2. IsBuffer(Erased(text[g]))
      BY <1>1, ErasedBuffer
    <2> QED BY <2>1, <2>2, ChangeTextOK
  <1> QED BY <1>2, <1>3

\* The messages after n rounds of the loop of gui_redraw_proc().
AskNext(pid, flagged, i, msgs) ==
  msgs \o IF Gid(pid, i - 1) \in flagged
          THEN <<DisplayMsg("REDRAW_RECT", NULL, RectToRedraw(Gid(pid, i - 1)))>>
          ELSE <<>>
Asks(pid, flagged, t, n) ==
  t = [i \in 0 .. n |-> IF i = 0 THEN <<>> ELSE AskNext(pid, flagged, i, t[i - 1])]

\* gui_redraw_proc() takes one window after the other.
LEMMA AsksExist ==
  ASSUME NEW pid, NEW flagged
  PROVE  \A n \in Nat : \E t : Asks(pid, flagged, t, n)
  <1> DEFINE Step(f, i) == IF i = 0 THEN <<>> ELSE AskNext(pid, flagged, i, f[i - 1])
             bad == {n \in Nat : ~ \E t : Asks(pid, flagged, t, n)}
  <1>1. \A t, n : Asks(pid, flagged, t, n) <=> t = [i \in 0 .. n |-> Step(t, i)]
    BY DEF Asks
  <1>2. \A f, h, i : i = 0 \/ f[i - 1] = h[i - 1] => Step(f, i) = Step(h, i)
    OBVIOUS
  <1> SUFFICES ASSUME bad # {} PROVE FALSE
    OBVIOUS
  <1>3. bad \in SUBSET Nat
    OBVIOUS
  <1> HIDE DEF bad, Step
  <1>4. PICK n \in bad : \A k \in bad : n <= k
    BY <1>3, LeastExists
  <1>5. n \in Nat /\ ~ \E t : Asks(pid, flagged, t, n)
    BY <1>4 DEF bad
  <1>6. PICK r : n = 0 \/ r = [i \in 0 .. n - 1 |-> Step(r, i)]
    <2>1. n = 0 \/ (n - 1 \in Nat /\ n - 1 \notin bad)
      BY <1>4, <1>5
    <2> QED BY <1>1, <2>1 DEF bad
  <1> DEFINE t == [i \in 0 .. n |-> Step(r, i)]
  <1>7. ASSUME NEW i \in 0 .. n PROVE Step(r, i) = Step(t, i)
    <2>1. CASE i = 0
      BY <1>2, <2>1
    <2>2. CASE i > 0
      <3>1. i - 1 \in 0 .. n - 1 /\ i - 1 \in 0 .. n /\ n # 0
        BY <1>5, <2>2
      <3>2. t[i - 1] = Step(r, i - 1) /\ r[i - 1] = Step(r, i - 1)
        BY <1>6, <3>1
      <3> HIDE DEF t
      <3> QED BY <1>2, <3>2
    <2> QED BY <1>5, <2>1, <2>2
  <1>8. t = [i \in 0 .. n |-> Step(t, i)]
    <2>1. t = [i \in 0 .. n |-> t[i]] /\ \A i \in 0 .. n : t[i] = Step(r, i)
      OBVIOUS
    <2> HIDE DEF t
    <2> QED BY <1>7, <2>1
  <1>9. Asks(pid, flagged, t, n)
    BY <1>1, <1>8
  <1> QED BY <1>5, <1>9

\* redraw_gui() posts rectangles only.
LEMMA RedrawGuiOK ==
  ASSUME DesktopInv, NEW pid, RedrawGui(pid)
  PROVE  DesktopInv'
  <1>1. PICK M : M = KnownBy(created)
    OBVIOUS
  <1>2. PICK flagged : flagged = needs_redraw \cap OfProc(pid)
    OBVIOUS
  <1> DEFINE msgs[i \in 0 .. MAX_PROC_WINDOWS] ==
               IF i = 0 THEN <<>>
               ELSE msgs[i - 1] \o IF Gid(pid, i - 1) \in flagged
                                   THEN <<DisplayMsg("REDRAW_RECT", NULL,
                                                     RectToRedraw(Gid(pid, i - 1)))>>
                                   ELSE <<>>
             bad == {i \in 0 .. MAX_PROC_WINDOWS : msgs[i] \notin Seq(Msgs(M))}
  <1>3. /\ display' = Enqueued(display, msgs[MAX_PROC_WINDOWS])
        /\ UNCHANGED <<mouse, wmVars, screen, events, worker, created, redraw_rect, text, packets,
                       prints, order>>
    BY <1>2 DEF RedrawGui, PostDisplay
  <1>4. msgs = CHOOSE t : Asks(pid, flagged, t, MAX_PROC_WINDOWS)
    BY DEF msgs, Asks, AskNext
  <1>5. MAX_PROC_WINDOWS \in Nat
    BY WindowsAssumption
  <1>6. \E t : Asks(pid, flagged, t, MAX_PROC_WINDOWS)
    BY <1>5, AsksExist
  <1> HIDE DEF msgs
  <1>7. Asks(pid, flagged, msgs, MAX_PROC_WINDOWS)
    BY <1>4, <1>6
  <1>8. msgs = [i \in 0 .. MAX_PROC_WINDOWS |->
                  IF i = 0 THEN <<>> ELSE AskNext(pid, flagged, i, msgs[i - 1])]
    BY <1>7 DEF Asks
  <1>9. ASSUME NEW g \in flagged
        PROVE  <<DisplayMsg("REDRAW_RECT", NULL, RectToRedraw(g))>> \in Seq(Msgs(M))
    <2>1. g \in DOMAIN Windows /\ g \in Gids
      BY <1>2 DEF OfProc, Gids
    <2>2. redraw_rect[g] \in Rect
      BY <2>1 DEF DesktopInv, TextsOK
    <2>3. win[g].rect \in Rect
      BY <2>1 DEF DesktopInv, WmOK, WinsOK, Wins, Win
    <2>4. RectToRedraw(g) \in Rect
      BY <2>2, <2>3 DEF RectToRedraw, Shifted, Rect
    <2>5. NULL \in Links
      BY DEF Links
    <2>6. "REDRAW_RECT" \in Redraws /\ "REDRAW_RECT" # "REDRAW_WINDOW"
      BY DEF Redraws
    <2> QED BY <2>4, <2>5, <2>6, MsgType
  <1>10. <<>> \in Seq(Msgs(M))
    OBVIOUS
  <1>11. bad = {}
    <2> SUFFICES ASSUME bad # {} PROVE FALSE
      OBVIOUS
    <2>1. PICK i \in bad : \A k \in bad : i <= k
      <3>1. bad \in SUBSET Nat
        BY <1>5
      <3> HIDE DEF bad
      <3> QED BY <3>1, LeastExists
    <2>2. i \in 0 .. MAX_PROC_WINDOWS /\ msgs[i] \notin Seq(Msgs(M)) /\ i \in Nat
      BY <1>5, <2>1
    <2>3. CASE i = 0
      BY <1>8, <1>10, <2>2, <2>3
    <2>4. CASE i # 0
      <3>1. i - 1 \in 0 .. MAX_PROC_WINDOWS /\ i - 1 \notin bad
        BY <1>5, <2>1, <2>2, <2>4
      <3>2. msgs[i - 1] \in Seq(Msgs(M))
        BY <3>1
      <3>3. PICK g : g = Gid(pid, i - 1)
        OBVIOUS
      <3>4. PICK new : new = IF g \in flagged
                             THEN <<DisplayMsg("REDRAW_RECT", NULL, RectToRedraw(g))>> ELSE <<>>
        OBVIOUS
      <3>5. new \in Seq(Msgs(M))
        BY <1>9, <1>10, <3>4
      <3>6. msgs[i] = msgs[i - 1] \o new
        BY <1>8, <2>2, <2>4, <3>3, <3>4 DEF AskNext
      <3>7. msgs[i] \in Seq(Msgs(M))
        BY <3>2, <3>5, <3>6, Joined
      <3> QED BY <2>2, <3>7
    <2> QED BY <2>3, <2>4
  <1>12. msgs[MAX_PROC_WINDOWS] \in Seq(Msgs(M))
    <2>1. MAX_PROC_WINDOWS \in 0 .. MAX_PROC_WINDOWS
      BY <1>5
    <2> QED BY <1>11, <2>1
  <1>13. display' \in Seq(Msgs(M))
    <2>1. display \in Seq(Msgs(M))
      BY <1>1 DEF DesktopInv, PaintOK
    <2> QED BY <1>3, <1>12, <2>1, EnqueuedType
  <1>14. PaintOK'
    BY <1>1, <1>3, <1>13 DEF DesktopInv, PaintOK
  <1>15. WmOK' /\ RaiseOK' /\ InputsOK'
    BY <1>3 DEF DesktopInv, WmOK, RaiseOK, InputsOK, wmVars
  <1>16. TextsOK'
    BY <1>3 DEF DesktopInv, TextsOK
  <1> QED BY <1>14, <1>15, <1>16 DEF DesktopInv

\* Every step keeps the invariant.
LEMMA DesktopStep ==
  ASSUME DesktopInv, [Next]_vars
  PROVE  DesktopInv'
  <1>1. CASE UNCHANGED vars
    <2>1. /\ UNCHANGED <<mouse, events, redraw_rect, text, created, win, top, drag_window>>
          /\ UNCHANGED <<worker, screen, display>>
      BY <1>1 DEF vars, wmVars, userVars
    <2>2. InputsOK' /\ WmOK' /\ RaiseOK' /\ PaintOK'
      BY <2>1 DEF DesktopInv, InputsOK, WmOK, RaiseOK, PaintOK
    <2>3. TextsOK'
      BY <2>1 DEF DesktopInv, TextsOK
    <2> QED BY <2>2, <2>3 DEF DesktopInv
  <1>2. CASE \E p \in Packets, due \in BOOLEAN : Packet(p, due)
    BY <1>2, PacketOK
  <1>3. CASE MouseMove \/ MouseDown \/ MouseUp \/ OtherEvent
    BY <1>3, MouseMoveOK, MouseDownOK, OtherEventsOK
  <1>4. CASE DetachRoot \/ PushLink \/ PushTop \/ PostRaised
    BY <1>4, RaiseStepsOK, PostRaisedOK
  <1>5. CASE DisplayRun
    BY <1>5, DisplayRunOK
  <1>6. CASE \E pid \in Users \cup {Kernel} : UpdateGui(pid) \/ RedrawGui(pid)
    BY <1>6, UpdateGuiOK, RedrawGuiOK
  <1>7. CASE \E g \in Boxes : PrintText(g) \/ Backspace(g)
    BY <1>7, TextStepsOK
  <1> QED BY <1>1, <1>2, <1>3, <1>4, <1>5, <1>6, <1>7 DEF Next

\* The invariant places every child.
LEMMA InvPlaces == DesktopInv => ChildrenFollowFrame
  <1> SUFFICES ASSUME DesktopInv, NEW g \in DOMAIN Windows, win[g].parent # NULL
               PROVE  win[g].rect = Shifted(Windows[g].rect, win[win[g].parent].rect.l,
                                            win[win[g].parent].rect.t)
    BY DEF ChildrenFollowFrame
  <1>1. WinsOK(win, KnownBy(created)) /\ g \in Gids
    BY DEF DesktopInv, WmOK, Gids
  <1>2. g \in KnownBy(created)
    <2>1. g \notin KnownBy(created) => win[g] = NoWindow
      BY <1>1 DEF WinsOK
    <2> QED BY <2>1 DEF NoWindow
  <1>3. win[g].parent = ParentOf(g)
    BY <1>1, <1>2 DEF WinsOK, Framed
  <1> QED BY <1>1, <1>2, <1>3 DEF WinsOK, Placed

\* A list as a sequence.
LEMMA ListIs ==
  ASSUME NEW w, NEW first, NEW n, NEW s, IsList(w, first, n, s)
  PROVE  List(w, first) = s /\ Len(s) = n /\ Members(s) = Seen(n, s)
  <1>1. n \in Nat /\ n < MAX_WINDOW_LEVELS /\ MAX_WINDOW_LEVELS \in Nat /\ s \in [1 .. n -> Gids]
    BY ListShort, LevelsType DEF IsList
  <1>2. PICK walk : walk = Walk(w, first)
    OBVIOUS
  <1>3. \A i \in 1 .. MAX_WINDOW_LEVELS : walk[i] = (IF i <= n THEN s[i] ELSE NULL)
    BY <1>2, WalkList
  <1>4. PICK ends : ends = {i \in 1 .. MAX_WINDOW_LEVELS : walk[i] = NULL}
    OBVIOUS
  <1>5. \A i \in 1 .. MAX_WINDOW_LEVELS : i \in ends <=> i > n
    BY <1>1, <1>3, <1>4, NullIsNone
  <1>6. First(ends) = n + 1 /\ ends # {}
    <2>1. n + 1 \in 1 .. MAX_WINDOW_LEVELS /\ ends \in SUBSET Nat
      BY <1>1, <1>4
    <2>2. n + 1 \in ends
      BY <1>1, <1>5, <2>1
    <2>3. First(ends) \in ends /\ \A j \in ends : First(ends) <= j
      BY <2>1, <2>2, FirstIs
    <2>4. First(ends) \in 1 .. MAX_WINDOW_LEVELS
      BY <1>4, <2>3
    <2> QED BY <1>1, <1>5, <2>2, <2>3, <2>4
  <1>7. List(w, first) = [i \in 1 .. First(ends) - 1 |-> walk[i]]
    BY <1>2, <1>4, <1>6 DEF List
  <1>8. First(ends) - 1 = n /\ \A i \in 1 .. n : walk[i] = s[i]
    BY <1>1, <1>3, <1>6
  <1>9. s = [i \in 1 .. n |-> s[i]]
    BY <1>1
  <1>10. List(w, first) = s
    BY <1>7, <1>8, <1>9
  <1>11. Len(s) = n
    BY <1>1
  <1> QED BY <1>10, <1>11 DEF Members, Seen

\* The invariant has the lists of frames.
LEMMA InvLists == DesktopInv => ChildrenByZindex
  <1> SUFFICES ASSUME DesktopInv, NEW g \in DOMAIN Windows, Pid(g) \in created
               PROVE  LET list == List(win, win[g].first) IN
                      /\ Members(list) = {h \in DOMAIN Windows : win[h].parent = g}
                      /\ Len(list) = Cardinality(Members(list))
                      /\ \A k \in 1 .. Len(list) :
                           win[list[k]].prev = (IF k = 1 THEN NULL ELSE list[k - 1])
                      /\ \A k \in 1 .. Len(list) - 1 : zindex(list[k]) >= zindex(list[k + 1])
    BY DEF ChildrenByZindex
  <1>1. PICK M : M = KnownBy(created)
    OBVIOUS
  <1>2. WinsOK(win, M) /\ g \in M /\ g \in Gids /\ g # NULL /\ M \subseteq Gids
    BY <1>1, NullIsNone DEF DesktopInv, WmOK, KnownBy, Gids, WinsOK
  <1>3. PICK n, s : IsList(win, win[g].first, n, s) /\ Seen(n, s) = Kids(M, g)
    BY <1>2 DEF WinsOK, Listed
  <1>4. List(win, win[g].first) = s /\ Len(s) = n /\ Members(s) = Seen(n, s)
    BY <1>3, ListIs
  <1>5. Kids(M, g) = {h \in DOMAIN Windows : win[h].parent = g}
    <2>1. ASSUME NEW h \in Kids(M, g) PROVE h \in DOMAIN Windows /\ win[h].parent = g
      <3>1. h \in M /\ ParentOf(h) = g /\ h \in Gids
        BY <1>2 DEF Kids
      <3>2. h \in DOMAIN Windows
        BY <1>2, <3>1, Parents
      <3> QED BY <1>2, <3>1, <3>2 DEF WinsOK, Framed
    <2>2. ASSUME NEW h \in DOMAIN Windows, win[h].parent = g PROVE h \in Kids(M, g)
      <3>1. h \in Gids /\ NoWindow.parent = NULL
        BY DEF Gids, NoWindow
      <3>2. h \in M
        BY <1>2, <2>2, <3>1 DEF WinsOK
      <3> QED BY <1>2, <2>2, <3>2 DEF WinsOK, Framed, Kids
    <2> QED BY <2>1, <2>2
  <1>6. /\ n \in Nat /\ s \in [1 .. n -> Gids] /\ \A i, j \in 1 .. n : s[i] = s[j] => i = j
        /\ \A i \in 1 .. n : /\ win[s[i]].prev = (IF i = 1 THEN NULL ELSE s[i - 1])
                             /\ i < n => zindex(s[i]) >= zindex(s[i + 1])
    BY <1>3 DEF IsList, Ordered
  <1>7. n = Cardinality(Seen(n, s))
    <2>1. s \in Bijection(1 .. n, Seen(n, s))
      BY <1>6 DEF Bijection, Injection, IsInjective, Surjection, Seen
    <2>2. IsFiniteSet(1 .. n) /\ Cardinality(1 .. n) = n
      <3>1. 1 \in Int /\ n \in Int /\ (IF 1 > n THEN 0 ELSE n - 1 + 1) = n
        BY <1>6
      <3> QED BY <3>1, FS_Interval
    <2>3. ExistsBijection(1 .. n, Seen(n, s))
      BY <2>1 DEF ExistsBijection
    <2> QED BY <2>2, <2>3, FS_Bijection
  <1>8. \A k \in 1 .. n - 1 : zindex(s[k]) >= zindex(s[k + 1])
    BY <1>6
  <1> QED BY <1>3, <1>4, <1>5, <1>6, <1>7, <1>8

\* Whatever the pointer hits is a window that its process has announced, and it has a
\* root to drag and to raise; so have the window that is dragged, the one on top and
\* those that messages name.
HitsResolve ==
  /\ \A px \in Pixels : LET hit == screen[px].pick IN
       /\ hit = desktop \/ (hit \in DOMAIN Windows /\ Pid(hit) \in created)
       /\ win[hit].wm_root \in Gids /\ win[win[hit].wm_root].parent = NULL
  /\ \A g \in {top, drag_window} : g # NULL => win[g].wm_root = g
  /\ worker.pc # "idle" => win[worker.root].wm_root = worker.root
  /\ \A k \in 1 .. Len(display) : display[k].event = "REDRAW_WINDOW" =>
       LET g == display[k].win IN g = desktop \/ (g \in DOMAIN Windows /\ Pid(g) \in created)

\* The invariant says so.
LEMMA InvResolves == DesktopInv => HitsResolve
  <1> SUFFICES ASSUME DesktopInv PROVE HitsResolve
    OBVIOUS
  <1>1. PICK M : M = KnownBy(created)
    OBVIOUS
  <1>2. /\ WinsOK(win, M) /\ Rooted(win, M) /\ Picks(screen, M) /\ display \in Seq(Msgs(M))
        /\ top \in Base(M) /\ drag_window \in Base(M) \cup {NULL}
        /\ worker.pc # "idle" => worker.root \in Base(M)
    BY <1>1 DEF DesktopInv, WmOK, RaiseOK, PaintOK
  <1>3. \A g \in M : g = desktop \/ (g \in DOMAIN Windows /\ Pid(g) \in created)
    BY <1>1 DEF KnownBy
  <1>4. \A g \in Base(M) : win[g].wm_root = g /\ win[g].parent = NULL /\ g \in Gids
    BY <1>2 DEF Rooted, Base, Roots, WinsOK, Framed
  <1>5. ASSUME NEW px \in Pixels
        PROVE  LET hit == screen[px].pick IN
               /\ hit = desktop \/ (hit \in DOMAIN Windows /\ Pid(hit) \in created)
               /\ win[hit].wm_root \in Gids /\ win[win[hit].wm_root].parent = NULL
    <2>1. screen[px].pick \in M
      BY <1>2 DEF Picks
    <2>2. win[screen[px].pick].wm_root \in Base(M)
      BY <1>2, <2>1, RootOfAny
    <2> QED BY <1>3, <1>4, <2>1, <2>2
  <1>6. \A k \in 1 .. Len(display) : display[k].event = "REDRAW_WINDOW" => display[k].win \in M
    BY <1>2 DEF Msgs
  <1> QED BY <1>2, <1>3, <1>4, <1>5, <1>6 DEF HitsResolve

\* A child stays where it was put in its frame, for any windows of any number of
\* processes, any screen and any packets of the mouse: GUIWindow::move() reaches every
\* child of the frame that is dragged, although insert() and detach() relink windows,
\* and a process may push its windows in the middle of a raise.
THEOREM ChildrenStay == Spec => []ChildrenFollowFrame
  <1>1. DesktopInv /\ [Next]_vars => DesktopInv'
    BY DesktopStep
  <1> QED BY <1>1, InitOK, InvPlaces, PTL DEF Spec

\* The list of a frame has its children, each once, by zindex and linked both ways, for
\* any windows of any number of processes: insert() finds the place of every window,
\* and raising and pushing frames leaves the lists of their children alone.
THEOREM ListsExact == Spec => []ChildrenByZindex
  <1>1. DesktopInv /\ [Next]_vars => DesktopInv'
    BY DesktopStep
  <1> QED BY <1>1, InitOK, InvLists, PTL DEF Spec

\* Whatever is hit, dragged, raised or redrawn is a window that is known, with a root:
\* wm_root and the links that the workers follow are set for it, although processes push
\* windows in the middle of a raise and full queues drop messages.
THEOREM HitsHaveRoots == Spec => []HitsResolve
  <1>1. DesktopInv /\ [Next]_vars => DesktopInv'
    BY DesktopStep
  <1> QED BY <1>1, InitOK, InvResolves, PTL DEF Spec
=============================================================================
