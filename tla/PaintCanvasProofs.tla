-------------------------- MODULE PaintCanvasProofs --------------------------
(***************************************************************************)
(* Proofs about the canvas of one client, for any painters, places, scales *)
(* and bounds.  The loops of playback and of the painter filter are        *)
(* reasoned about by induction over sets of positions; what they carry on  *)
(* is that each item looks as the tasks up to there say (Shows).           *)
(***************************************************************************)
EXTENDS PaintCanvas, PaintHistoryProofs

-----------------------------------------------------------------------------
(* Induction over the natural numbers, for sets.                            *)

Less == {ss \in Nat \X Nat : ss[1] < ss[2]}

(* A set of natural numbers has a least member, for < is well-founded.      *)
LEMMA Least ==
  ASSUME NEW T \in SUBSET Nat, T # {}
  PROVE  \E x \in T : \A y \in T : x <= y
<1>1. IsWellFoundedOn(Less, Nat)
  BY NatLessThanWellFounded, Zenon DEF OpToRel, Less
<1>2. PICK x \in T : \A y \in T : <<y, x>> \notin Less
  BY <1>1, WFMin, Zenon
<1>3. ASSUME NEW y \in T PROVE x <= y
  <2>1. <<y, x>> \in Nat \X Nat /\ <<y, x>>[1] = y /\ <<y, x>>[2] = x
    OBVIOUS
  <2>2. ~ (<<y, x>>[1] < <<y, x>>[2])
    BY <1>2, <2>1 DEF Less
  <2> QED BY <2>1, <2>2
<1> QED BY <1>3

(* A set that has 0 and with every number the next one has all.             *)
LEMMA SetInduction ==
  ASSUME NEW T \in SUBSET Nat, 0 \in T, \A n \in T : n + 1 \in T
  PROVE  T = Nat
<1>1. SUFFICES ASSUME Nat \ T # {} PROVE FALSE
  OBVIOUS
<1>2. PICK x \in Nat \ T : \A y \in Nat \ T : x <= y
  BY <1>1, Least
<1>3. x # 0 /\ x - 1 \in Nat
  BY <1>2
<1>4. x - 1 \in T
  BY <1>2, <1>3
<1> QED BY <1>2, <1>4

-----------------------------------------------------------------------------
(* The loops over the history.                                              *)

IsForwardRun(run, from, to, who) ==
  run = [i \in from .. to |-> IF i = from THEN canvas ELSE Executes(run[i - 1], i, who)]

IsBackwardRun(run, from, to, who) ==
  run = [i \in to .. from |-> IF i = from THEN canvas ELSE RollsBack(run[i + 1], i + 1, who)]

(* The recursive function of each of the loops exists, and the loop ends in *)
(* its last value.                                                          *)
LEMMA ForwardExists ==
  ASSUME NEW from \in Int, NEW n \in Nat, NEW who
  PROVE  \E run : IsForwardRun(run, from, from + n, who)
<1> DEFINE T == {m \in Nat : \E run : IsForwardRun(run, from, from + m, who)}
<1>1. 0 \in T
  <2> DEFINE run == [i \in from .. from + 0 |-> canvas]
  <2>1. \A i \in from .. from + 0 : i = from
    OBVIOUS
  <2>2. IsForwardRun(run, from, from + 0, who)
    BY <2>1 DEF IsForwardRun
  <2> QED BY <2>2
<1>2. ASSUME NEW m \in T PROVE m + 1 \in T
  <2>1. PICK g : IsForwardRun(g, from, from + m, who)
    OBVIOUS
  <2> DEFINE run == [i \in from .. from + (m + 1) |->
                       IF i = from + (m + 1) THEN Executes(g[from + m], i, who) ELSE g[i]]
  <2>2. ASSUME NEW i \in from .. from + (m + 1)
        PROVE  run[i] = IF i = from THEN canvas ELSE Executes(run[i - 1], i, who)
    <3>1. CASE i = from + (m + 1)
      BY <3>1
    <3>2. CASE i # from + (m + 1)
      <4>1. i \in from .. from + m /\ (i # from => i - 1 \in from .. from + m)
        BY <3>2
      <4>2. g[i] = IF i = from THEN canvas ELSE Executes(g[i - 1], i, who)
        BY <2>1, <4>1 DEF IsForwardRun
      <4>3. run[i] = g[i] /\ (i # from => run[i - 1] = g[i - 1])
        BY <3>2, <4>1
      <4> QED BY <4>2, <4>3
    <3> QED BY <3>1, <3>2
  <2>3. IsForwardRun(run, from, from + (m + 1), who)
    <3> HIDE DEF run
    <3>1. DOMAIN run = from .. from + (m + 1) /\ run = [i \in from .. from + (m + 1) |-> run[i]]
      BY DEF run
    <3> QED BY <2>2, <3>1 DEF IsForwardRun
  <2> QED BY <2>3
<1>3. T = Nat
  <2> HIDE DEF T
  <2>1. T \in SUBSET Nat
    BY DEF T
  <2> QED BY <1>1, <1>2, <2>1, SetInduction
<1> QED BY <1>3

LEMMA ForwardRun ==
  ASSUME NEW from \in Int, NEW to \in Int, from < to, NEW who
  PROVE  \E run : IsForwardRun(run, from, to, who) /\ Forward(from, to, who) = run[to]
<1> DEFINE run == CHOOSE r : IsForwardRun(r, from, to, who)
<1>1. Forward(from, to, who) = run[to]
  BY DEF Forward, IsForwardRun
<1>2. to - from \in Nat
  OBVIOUS
<1>3. \E r : IsForwardRun(r, from, to, who)
  <2>1. \E r : IsForwardRun(r, from, from + (to - from), who)
    BY <1>2, ForwardExists, Zenon
  <2>2. from + (to - from) = to
    OBVIOUS
  <2> QED BY <2>1, <2>2
<1>4. IsForwardRun(run, from, to, who)
  BY <1>3
<1> QED BY <1>1, <1>4

LEMMA BackwardExists ==
  ASSUME NEW from \in Int, NEW n \in Nat, NEW who
  PROVE  \E run : IsBackwardRun(run, from, from - n, who)
<1> DEFINE T == {m \in Nat : \E run : IsBackwardRun(run, from, from - m, who)}
<1>1. 0 \in T
  <2> DEFINE run == [i \in from - 0 .. from |-> canvas]
  <2>1. \A i \in from - 0 .. from : i = from
    OBVIOUS
  <2>2. IsBackwardRun(run, from, from - 0, who)
    BY <2>1 DEF IsBackwardRun
  <2> QED BY <2>2
<1>2. ASSUME NEW m \in T PROVE m + 1 \in T
  <2>1. PICK g : IsBackwardRun(g, from, from - m, who)
    OBVIOUS
  <2> DEFINE run == [i \in from - (m + 1) .. from |->
                       IF i = from - (m + 1) THEN RollsBack(g[from - m], i + 1, who) ELSE g[i]]
  <2>2. ASSUME NEW i \in from - (m + 1) .. from
        PROVE  run[i] = IF i = from THEN canvas ELSE RollsBack(run[i + 1], i + 1, who)
    <3>1. CASE i = from - (m + 1)
      BY <3>1
    <3>2. CASE i # from - (m + 1)
      <4>1. i \in from - m .. from /\ (i # from => i + 1 \in from - m .. from)
        BY <3>2
      <4>2. g[i] = IF i = from THEN canvas ELSE RollsBack(g[i + 1], i + 1, who)
        BY <2>1, <4>1 DEF IsBackwardRun
      <4>3. run[i] = g[i] /\ (i # from => run[i + 1] = g[i + 1])
        BY <3>2, <4>1
      <4> QED BY <4>2, <4>3
    <3> QED BY <3>1, <3>2
  <2>3. IsBackwardRun(run, from, from - (m + 1), who)
    <3> HIDE DEF run
    <3>1. DOMAIN run = from - (m + 1) .. from /\ run = [i \in from - (m + 1) .. from |-> run[i]]
      BY DEF run
    <3> QED BY <2>2, <3>1 DEF IsBackwardRun
  <2> QED BY <2>3
<1>3. T = Nat
  <2> HIDE DEF T
  <2>1. T \in SUBSET Nat
    BY DEF T
  <2> QED BY <1>1, <1>2, <2>1, SetInduction
<1> QED BY <1>3

LEMMA BackwardRun ==
  ASSUME NEW from \in Int, NEW to \in Int, to < from, NEW who
  PROVE  \E run : IsBackwardRun(run, from, to, who) /\ Backward(from, to, who) = run[to]
<1> DEFINE run == CHOOSE r : IsBackwardRun(r, from, to, who)
<1>1. Backward(from, to, who) = run[to]
  BY DEF Backward, IsBackwardRun
<1>2. from - to \in Nat
  OBVIOUS
<1>3. \E r : IsBackwardRun(r, from, to, who)
  <2>1. \E r : IsBackwardRun(r, from, from - (from - to), who)
    BY <1>2, BackwardExists, Zenon
  <2>2. from - (from - to) = to
    OBVIOUS
  <2> QED BY <2>1, <2>2
<1>4. IsBackwardRun(run, from, to, who)
  BY <1>3
<1> QED BY <1>1, <1>4

(* What holds of the canvas before a loop, and is carried on by each of its *)
(* tasks, holds after it.  Inv[i] are the canvases that may be there when   *)
(* the tasks up to i are executed.                                          *)
LEMMA ForwardKeeps ==
  ASSUME NEW from \in Int, NEW to \in Int, from < to, NEW who, NEW Inv,
         canvas \in Inv[from],
         \A i \in from + 1 .. to : \A c \in Inv[i - 1] : Executes(c, i, who) \in Inv[i]
  PROVE  Forward(from, to, who) \in Inv[to]
<1>1. PICK run : IsForwardRun(run, from, to, who) /\ Forward(from, to, who) = run[to]
  BY ForwardRun
<1> DEFINE T == {m \in Nat : m <= to - from => run[from + m] \in Inv[from + m]}
<1>2. ASSUME NEW i \in from .. to
      PROVE  run[i] = IF i = from THEN canvas ELSE Executes(run[i - 1], i, who)
  BY <1>1 DEF IsForwardRun
<1>3. 0 \in T
  <2>1. from + 0 = from /\ from \in from .. to
    OBVIOUS
  <2> QED BY <1>2, <2>1
<1>4. ASSUME NEW m \in T PROVE m + 1 \in T
  <2>1. SUFFICES ASSUME m + 1 <= to - from PROVE run[from + (m + 1)] \in Inv[from + (m + 1)]
    OBVIOUS
  <2> DEFINE i == from + (m + 1)
  <2>2. i \in from + 1 .. to /\ i \in from .. to /\ i # from /\ i - 1 = from + m /\ m <= to - from
    BY <2>1
  <2>3. run[i - 1] \in Inv[i - 1]
    BY <2>2
  <2>4. run[i] = Executes(run[i - 1], i, who)
    BY <1>2, <2>2
  <2> HIDE DEF i
  <2> QED BY <2>2, <2>3, <2>4 DEF i
<1>5. T = Nat
  <2> HIDE DEF T
  <2>1. T \in SUBSET Nat
    BY DEF T
  <2> QED BY <1>3, <1>4, <2>1, SetInduction
<1>6. run[from + (to - from)] \in Inv[from + (to - from)]
  <2>1. to - from \in Nat
    OBVIOUS
  <2>2. to - from \in T
    BY <1>5, <2>1, Zenon
  <2> QED BY <2>2
<1>7. from + (to - from) = to
  OBVIOUS
<1> QED BY <1>1, <1>6, <1>7

LEMMA BackwardKeeps ==
  ASSUME NEW from \in Int, NEW to \in Int, to < from, NEW who, NEW Inv,
         canvas \in Inv[from],
         \A i \in to + 1 .. from : \A c \in Inv[i] : RollsBack(c, i, who) \in Inv[i - 1]
  PROVE  Backward(from, to, who) \in Inv[to]
<1>1. PICK run : IsBackwardRun(run, from, to, who) /\ Backward(from, to, who) = run[to]
  BY BackwardRun
<1> DEFINE T == {m \in Nat : m <= from - to => run[from - m] \in Inv[from - m]}
<1>2. ASSUME NEW i \in to .. from
      PROVE  run[i] = IF i = from THEN canvas ELSE RollsBack(run[i + 1], i + 1, who)
  BY <1>1 DEF IsBackwardRun
<1>3. 0 \in T
  <2>1. from - 0 = from /\ from \in to .. from
    OBVIOUS
  <2> QED BY <1>2, <2>1
<1>4. ASSUME NEW m \in T PROVE m + 1 \in T
  <2>1. SUFFICES ASSUME m + 1 <= from - to PROVE run[from - (m + 1)] \in Inv[from - (m + 1)]
    OBVIOUS
  <2> DEFINE i == from - m
  <2>2. /\ i \in to + 1 .. from /\ i - 1 \in to .. from /\ i - 1 # from
        /\ i - 1 = from - (m + 1) /\ (i - 1) + 1 = i /\ m <= from - to
    BY <2>1
  <2>3. run[i] \in Inv[i]
    BY <2>2
  <2>4. run[i - 1] = RollsBack(run[i], i, who)
    BY <1>2, <2>2
  <2> HIDE DEF i
  <2> QED BY <2>2, <2>3, <2>4
<1>5. T = Nat
  <2> HIDE DEF T
  <2>1. T \in SUBSET Nat
    BY DEF T
  <2> QED BY <1>3, <1>4, <2>1, SetInduction
<1>6. run[from - (from - to)] \in Inv[from - (from - to)]
  <2>1. from - to \in Nat
    OBVIOUS
  <2>2. from - to \in T
    BY <1>5, <2>1, Zenon
  <2> QED BY <2>2
<1>7. from - (from - to) = to
  OBVIOUS
<1> QED BY <1>1, <1>6, <1>7

-----------------------------------------------------------------------------
(* The painting that a history describes.                                   *)

(* A set of positions in a history has a last one.                          *)
LEMMA LastPosition ==
  ASSUME NEW n \in Int, NEW S \in SUBSET (1 .. n), S # {}
  PROVE  Max(S) \in S /\ \A j \in S : Max(S) >= j
<1> DEFINE T == {m \in Nat : n - m \in S}
<1>1. PICK j \in S : TRUE
  OBVIOUS
<1>2. n - j \in T
  <2>1. n - j \in Nat /\ n - (n - j) = j
    OBVIOUS
  <2> QED BY <2>1
<1>3. PICK x \in T : \A y \in T : x <= y
  <2>1. T \in SUBSET Nat /\ T # {}
    BY <1>2
  <2> HIDE DEF T
  <2> QED BY <2>1, Least
<1>4. n - x \in S
  OBVIOUS
<1>5. ASSUME NEW y \in S PROVE n - x >= y
  <2>1. n - y \in Nat /\ n - (n - y) = y
    OBVIOUS
  <2>2. x <= n - y
    BY <1>3, <2>1
  <2> QED BY <2>1, <2>2
<1> QED BY <1>4, <1>5, Zenon DEF Max

(* The next position is the last one of any set that it joins.              *)
LEMMA LastIsNext ==
  ASSUME NEW n \in Nat, NEW S \in SUBSET (1 .. n)
  PROVE  Max(S \cup {n + 1}) = n + 1
<1>1. S \cup {n + 1} \in SUBSET (1 .. n + 1) /\ S \cup {n + 1} # {} /\ n + 1 \in Int
  OBVIOUS
<1>2. Max(S \cup {n + 1}) \in S \cup {n + 1} /\ Max(S \cup {n + 1}) >= n + 1
  BY <1>1, LastPosition
<1>3. Max(S \cup {n + 1}) \in 1 .. n + 1
  BY <1>1, <1>2
<1> QED BY <1>2, <1>3

(* The edits of one more task.                                              *)
LEMMA OneMoreEdit ==
  ASSUME NEW s, NEW k, NEW kinds, NEW n \in Nat
  PROVE  /\ EditsOf(s, k, kinds, n) \in SUBSET (1 .. n)
         /\ EditsOf(s, k, kinds, n + 1) =
              IF s[n + 1].key = k /\ s[n + 1].kind \in kinds
              THEN EditsOf(s, k, kinds, n) \cup {n + 1} ELSE EditsOf(s, k, kinds, n)
<1>1. 1 .. n + 1 = (1 .. n) \cup {n + 1} /\ n + 1 \notin 1 .. n
  OBVIOUS
<1> QED BY <1>1 DEF EditsOf

(* What one more task makes of an item's being there ...                    *)
LEMMA VisibleStep ==
  ASSUME NEW s, NEW k, NEW n \in Nat
  PROVE  VisibleAfter(s, k, n + 1) =
           IF s[n + 1].key = k /\ s[n + 1].kind \in {"add", "remove"}
           THEN s[n + 1].kind = "add" ELSE VisibleAfter(s, k, n)
<1> DEFINE E(m) == EditsOf(s, k, {"add", "remove"}, m)
<1>1. /\ E(n) \in SUBSET (1 .. n)
      /\ E(n + 1) = IF s[n + 1].key = k /\ s[n + 1].kind \in {"add", "remove"}
                    THEN E(n) \cup {n + 1} ELSE E(n)
  BY OneMoreEdit
<1>2. \A m : VisibleAfter(s, k, m) = (E(m) # {} /\ s[Max(E(m))].kind = "add")
  BY DEF VisibleAfter
<1> HIDE DEF E
<1>3. CASE s[n + 1].key = k /\ s[n + 1].kind \in {"add", "remove"}
  <2>1. E(n + 1) = E(n) \cup {n + 1} /\ Max(E(n) \cup {n + 1}) = n + 1
    BY <1>1, <1>3, LastIsNext
  <2> QED BY <1>2, <1>3, <2>1
<1>4. CASE ~ (s[n + 1].key = k /\ s[n + 1].kind \in {"add", "remove"})
  <2>1. E(n + 1) = E(n)
    BY <1>1, <1>4
  <2> QED BY <1>2, <1>4, <2>1
<1> QED BY <1>3, <1>4

(* ... of where it is, and how large.                                       *)
LEMMA DataStep ==
  ASSUME NEW s, NEW k, NEW n \in Nat
  PROVE  /\ DataAfter(s, k, n + 1).pos =
              IF s[n + 1].key = k /\ s[n + 1].kind \in {"update", "move"}
              THEN s[n + 1].data.pos ELSE DataAfter(s, k, n).pos
         /\ DataAfter(s, k, n + 1).scale =
              IF s[n + 1].key = k /\ s[n + 1].kind = "update"
              THEN s[n + 1].data.scale ELSE DataAfter(s, k, n).scale
<1> DEFINE P(m) == EditsOf(s, k, {"update", "move"}, m)
           S(m) == EditsOf(s, k, {"update"}, m)
<1>1. /\ P(n) \in SUBSET (1 .. n)
      /\ P(n + 1) = IF s[n + 1].key = k /\ s[n + 1].kind \in {"update", "move"}
                    THEN P(n) \cup {n + 1} ELSE P(n)
  BY OneMoreEdit
<1>2. /\ S(n) \in SUBSET (1 .. n)
      /\ S(n + 1) = IF s[n + 1].key = k /\ s[n + 1].kind \in {"update"}
                    THEN S(n) \cup {n + 1} ELSE S(n)
  BY OneMoreEdit
<1>3. /\ \A m : DataAfter(s, k, m).pos = IF P(m) = {} THEN Origin ELSE s[Max(P(m))].data.pos
      /\ \A m : DataAfter(s, k, m).scale = IF S(m) = {} THEN Unit ELSE s[Max(S(m))].data.scale
  BY DEF DataAfter
<1> HIDE DEF P, S
<1>4. Max(P(n) \cup {n + 1}) = n + 1 /\ Max(S(n) \cup {n + 1}) = n + 1
  BY <1>1, <1>2, LastIsNext
<1>5. DataAfter(s, k, n + 1).pos =
        IF s[n + 1].key = k /\ s[n + 1].kind \in {"update", "move"}
        THEN s[n + 1].data.pos ELSE DataAfter(s, k, n).pos
  <2>1. CASE s[n + 1].key = k /\ s[n + 1].kind \in {"update", "move"}
    <3>1. P(n + 1) = P(n) \cup {n + 1}
      BY <1>1, <2>1
    <3>2. P(n + 1) # {} /\ Max(P(n + 1)) = n + 1
      BY <1>4, <3>1
    <3> QED BY <1>3, <2>1, <3>2
  <2>2. CASE ~ (s[n + 1].key = k /\ s[n + 1].kind \in {"update", "move"})
    <3>1. P(n + 1) = P(n)
      BY <1>1, <2>2
    <3> QED BY <1>3, <2>2, <3>1
  <2> QED BY <2>1, <2>2
<1>6. DataAfter(s, k, n + 1).scale =
        IF s[n + 1].key = k /\ s[n + 1].kind = "update"
        THEN s[n + 1].data.scale ELSE DataAfter(s, k, n).scale
  <2>1. CASE s[n + 1].key = k /\ s[n + 1].kind \in {"update"}
    <3>1. S(n + 1) = S(n) \cup {n + 1}
      BY <1>2, <2>1
    <3>2. S(n + 1) # {} /\ Max(S(n + 1)) = n + 1
      BY <1>4, <3>1
    <3> QED BY <1>3, <2>1, <3>2
  <2>2. CASE ~ (s[n + 1].key = k /\ s[n + 1].kind \in {"update"})
    <3>1. S(n + 1) = S(n)
      BY <1>2, <2>2
    <3> QED BY <1>3, <2>2, <3>1
  <2> QED BY <2>1, <2>2
<1> QED BY <1>5, <1>6

(* Histories that say the same up to n describe the same painting.          *)
Agree(s, r, n) ==
  \A i \in 1 .. n : /\ r[i].kind = s[i].kind /\ r[i].key = s[i].key
                    /\ r[i].prev = s[i].prev /\ r[i].data = s[i].data

LEMMA SamePainting ==
  ASSUME NEW s, NEW r, NEW n \in Int, Agree(s, r, n), NEW k
  PROVE  /\ VisibleAfter(r, k, n) = VisibleAfter(s, k, n)
         /\ DataAfter(r, k, n) = DataAfter(s, k, n)
         /\ \A kinds : EditsOf(r, k, kinds, n) = EditsOf(s, k, kinds, n)
<1>1. \A kinds : EditsOf(r, k, kinds, n) = EditsOf(s, k, kinds, n)
  BY DEF Agree, EditsOf
<1>2. ASSUME NEW kinds, EditsOf(s, k, kinds, n) # {}
      PROVE  /\ r[Max(EditsOf(s, k, kinds, n))].kind = s[Max(EditsOf(s, k, kinds, n))].kind
             /\ r[Max(EditsOf(s, k, kinds, n))].data = s[Max(EditsOf(s, k, kinds, n))].data
  <2>1. EditsOf(s, k, kinds, n) \in SUBSET (1 .. n)
    BY DEF EditsOf
  <2>2. Max(EditsOf(s, k, kinds, n)) \in 1 .. n
    BY <1>2, <2>1, LastPosition
  <2> QED BY <2>2 DEF Agree
<1>3. VisibleAfter(r, k, n) = VisibleAfter(s, k, n)
  BY <1>1, <1>2 DEF VisibleAfter
<1>4. DataAfter(r, k, n) = DataAfter(s, k, n)
  BY <1>1, <1>2 DEF DataAfter
<1> QED BY <1>1, <1>3, <1>4

(* An item that no task up to n is about is not there, and like new.        *)
LEMMA NothingPainted ==
  ASSUME NEW s, NEW k, NEW n, \A i \in 1 .. n : s[i].key # k
  PROVE  ~ VisibleAfter(s, k, n) /\ DataAfter(s, k, n) = Fresh
<1>1. \A kinds : EditsOf(s, k, kinds, n) = {}
  BY DEF EditsOf
<1> QED BY <1>1 DEF VisibleAfter, DataAfter, Fresh

(* One that is only moved is not there either.                              *)
LEMMA NothingAdded ==
  ASSUME NEW s, NEW k, NEW n,
         \A i \in 1 .. n : s[i].key = k => s[i].kind \notin {"add", "remove"}
  PROVE  ~ VisibleAfter(s, k, n)
<1>1. EditsOf(s, k, {"add", "remove"}, n) = {}
  BY DEF EditsOf
<1> QED BY <1>1 DEF VisibleAfter

-----------------------------------------------------------------------------
(* What the operations do to an item.                                       *)

(* An item that remembers a graphic has one in the scene.                   *)
GoodLook == {look \in Look : look.drawn => look.graphics >= 1}

(* What one task does to the item that it is about.                         *)
ExecutedLook(look, t) ==
  CASE t.kind = "add"    -> Draw(look)
    [] t.kind = "remove" -> Erase(look)
    [] t.kind = "update" -> Update(SetData(look, t.data))
    [] t.kind = "move"   -> Move(look, t.data.pos)

RolledBackLook(look, t) ==
  CASE t.kind = "add"    -> Erase(look)
    [] t.kind = "remove" -> Draw(look)
    [] t.kind = "update" -> Update(SetData(look, t.prev))
    [] t.kind = "move"   -> Move(look, t.prev.pos)

LEMMA DataFields ==
  /\ Origin \in Place /\ Unit \in Scale /\ Fresh \in Data
  /\ \A d \in Data : d.pos \in Place /\ d.scale \in Scale
  /\ \A d, e \in Data : d.pos = e.pos /\ d.scale = e.scale => d = e
<1>1. Fresh \in Data
  BY PaintHistoryAssumption, PaintCanvasAssumption
<1>2. Fresh.pos = Origin /\ Fresh.scale = Unit
  BY DEF Fresh
<1>3. \A d \in Data : d.pos \in Place /\ d.scale \in Scale
  BY PaintCanvasAssumption
<1>4. \A d, e \in Data : d.pos = e.pos /\ d.scale = e.scale => d = e
  BY PaintCanvasAssumption
<1> QED BY <1>1, <1>2, <1>3, <1>4

LEMMA LookFields ==
  ASSUME NEW look \in GoodLook
  PROVE  /\ look.data \in Data /\ look.prev \in Data /\ look.at \in Place
         /\ look.drawn \in BOOLEAN /\ look.moving \in BOOLEAN /\ look.graphics \in Nat
         /\ look.drawn => look.graphics >= 1
BY DEF GoodLook, Look

(* Data with its place or its scale changed.                                *)
LEMMA DataChanged ==
  ASSUME NEW d \in Data, NEW p \in Place, NEW z \in Scale
  PROVE  /\ [d EXCEPT !.pos = p] \in Data /\ [d EXCEPT !.pos = p].pos = p
         /\ [d EXCEPT !.pos = p].scale = d.scale
         /\ [d EXCEPT !.scale = z] \in Data /\ [d EXCEPT !.scale = z].scale = z
         /\ [d EXCEPT !.scale = z].pos = d.pos
BY PaintCanvasAssumption

LEMMA SetPosLook ==
  ASSUME NEW look \in GoodLook, NEW p \in Place
  PROVE  LET new == SetPos(look, p)
         IN  /\ new \in GoodLook
             /\ new.data.pos = p /\ new.data.scale = look.data.scale
             /\ new.at = look.at /\ new.drawn = look.drawn
             /\ new.graphics = look.graphics /\ new.moving = look.moving
<1> DEFINE new == SetPos(look, p)
<1>1. new = [look EXCEPT !.prev = [look.prev EXCEPT !.pos = look.data.pos],
                         !.data = [look.data EXCEPT !.pos = p]]
  BY DEF SetPos
<1> HIDE DEF new
<1>2. /\ [look.prev EXCEPT !.pos = look.data.pos] \in Data
      /\ [look.data EXCEPT !.pos = p] \in Data
      /\ [look.data EXCEPT !.pos = p].pos = p
      /\ [look.data EXCEPT !.pos = p].scale = look.data.scale
  BY PaintCanvasAssumption, LookFields, DataFields, DataChanged
<1>3. look \in Look
  BY DEF GoodLook
<1>4. /\ new \in Look /\ new.data = [look.data EXCEPT !.pos = p]
      /\ new.at = look.at /\ new.drawn = look.drawn
      /\ new.graphics = look.graphics /\ new.moving = look.moving
  BY <1>1, <1>2, <1>3 DEF Look
<1>5. new \in GoodLook
  BY <1>4, LookFields DEF GoodLook
<1> QED BY <1>2, <1>4, <1>5 DEF new

LEMMA SetDataLook ==
  ASSUME NEW look \in GoodLook, NEW d \in Data
  PROVE  LET new == SetData(look, d)
         IN  /\ new \in GoodLook /\ new.data = d
             /\ new.at = look.at /\ new.drawn = look.drawn
             /\ new.graphics = look.graphics /\ new.moving = look.moving
<1> DEFINE new == SetData(look, d)
<1>1. look \in Look /\ look.data \in Data
  BY LookFields DEF GoodLook
<1>2. /\ new \in Look /\ new.data = d
      /\ new.at = look.at /\ new.drawn = look.drawn
      /\ new.graphics = look.graphics /\ new.moving = look.moving
  BY <1>1 DEF Look, SetData
<1> HIDE DEF new
<1>3. new \in GoodLook
  BY <1>2, LookFields DEF GoodLook
<1> QED BY <1>2, <1>3 DEF new

LEMMA SetScaleLook ==
  ASSUME NEW look \in GoodLook, NEW z \in Scale
  PROVE  LET new == SetScale(look, z)
         IN  /\ new \in GoodLook
             /\ new.data.pos = look.data.pos /\ new.data.scale = z
             /\ new.at = look.at /\ new.drawn = look.drawn
             /\ new.graphics = look.graphics /\ new.moving = look.moving
<1> DEFINE new == SetScale(look, z)
<1>1. new = [look EXCEPT !.prev = [look.prev EXCEPT !.scale = look.data.scale],
                         !.data = [look.data EXCEPT !.scale = z]]
  BY DEF SetScale
<1> HIDE DEF new
<1>2. /\ [look.prev EXCEPT !.scale = look.data.scale] \in Data
      /\ [look.data EXCEPT !.scale = z] \in Data
      /\ [look.data EXCEPT !.scale = z].scale = z
      /\ [look.data EXCEPT !.scale = z].pos = look.data.pos
  BY PaintCanvasAssumption, LookFields, DataFields, DataChanged
<1>3. look \in Look
  BY DEF GoodLook
<1>4. /\ new \in Look /\ new.data = [look.data EXCEPT !.scale = z]
      /\ new.at = look.at /\ new.drawn = look.drawn
      /\ new.graphics = look.graphics /\ new.moving = look.moving
  BY <1>1, <1>2, <1>3 DEF Look
<1>5. new \in GoodLook
  BY <1>4, LookFields DEF GoodLook
<1> QED BY <1>2, <1>4, <1>5 DEF new

LEMMA DrawLook ==
  ASSUME NEW look \in GoodLook
  PROVE  LET new == Draw(look)
         IN  /\ new \in GoodLook
             /\ new.data = look.data /\ new.at = look.data.pos /\ new.drawn = TRUE
             /\ new.graphics = look.graphics + 1 /\ new.moving = look.moving
<1> DEFINE mid == SetPos(look, look.data.pos)
           new == Draw(look)
<1>1. look.data \in Data /\ look.data.pos \in Place
  BY LookFields, DataFields
<1>2. /\ mid \in GoodLook /\ mid.data.pos = look.data.pos /\ mid.data.scale = look.data.scale
      /\ mid.graphics = look.graphics /\ mid.moving = look.moving
  BY <1>1, SetPosLook
<1>3. new = [mid EXCEPT !.at = look.data.pos, !.drawn = TRUE, !.graphics = mid.graphics + 1]
  BY DEF Draw
<1> HIDE DEF mid, new
<1>4. mid \in Look /\ mid.graphics \in Nat /\ mid.data \in Data
  BY <1>2, LookFields DEF GoodLook
<1>5. /\ new \in Look /\ new.data = mid.data /\ new.at = look.data.pos /\ new.drawn = TRUE
      /\ new.graphics = mid.graphics + 1 /\ new.moving = mid.moving
  <2> DEFINE g == mid.graphics + 1
             p == look.data.pos
  <2>1. g \in Nat /\ p \in Place
    BY <1>1, <1>4
  <2>2. new = [mid EXCEPT !.at = p, !.drawn = TRUE, !.graphics = g]
    BY <1>3
  <2> HIDE DEF g, p
  <2>3. /\ new \in Look /\ new.data = mid.data /\ new.at = p /\ new.drawn = TRUE
        /\ new.graphics = g /\ new.moving = mid.moving
    BY <1>4, <2>1, <2>2 DEF Look
  <2> QED BY <2>3 DEF g, p
<1>6. mid.data = look.data
  BY <1>1, <1>2, <1>4, DataFields
<1>7. new \in GoodLook
  BY <1>4, <1>5 DEF GoodLook
<1> QED BY <1>2, <1>5, <1>6, <1>7 DEF new

LEMMA EraseLook ==
  ASSUME NEW look \in GoodLook
  PROVE  LET new == Erase(look)
         IN  /\ new \in GoodLook
             /\ new.data = look.data /\ new.at = look.at /\ new.drawn = FALSE
             /\ new.graphics = (IF look.drawn THEN look.graphics - 1 ELSE look.graphics)
             /\ new.moving = look.moving
<1>1. /\ look \in Look /\ look.graphics \in Nat /\ look.drawn \in BOOLEAN
      /\ look.drawn => look.graphics - 1 \in Nat
  BY LookFields DEF GoodLook
<1>2. CASE look.drawn
  <2> DEFINE new == [look EXCEPT !.drawn = FALSE, !.graphics = look.graphics - 1]
  <2>1. Erase(look) = new
    BY <1>2 DEF Erase
  <2>2. /\ new \in Look /\ new.data = look.data /\ new.at = look.at /\ new.drawn = FALSE
        /\ new.graphics = look.graphics - 1 /\ new.moving = look.moving
    BY <1>1, <1>2 DEF Look
  <2> HIDE DEF new
  <2>3. new \in GoodLook
    BY <2>2 DEF GoodLook
  <2> QED BY <1>2, <2>1, <2>2, <2>3
<1>3. CASE ~ look.drawn
  <2>1. Erase(look) = look
    BY <1>3 DEF Erase
  <2> QED BY <1>1, <1>3, <2>1
<1> QED BY <1>2, <1>3

LEMMA UpdateLook ==
  ASSUME NEW look \in GoodLook
  PROVE  LET new == Update(look)
         IN  /\ new \in GoodLook
             /\ new.data = look.data /\ new.drawn = look.drawn
             /\ new.graphics = look.graphics
             /\ look.drawn => new.at = look.data.pos
<1>1. look \in Look /\ look.data.pos \in Place
  BY LookFields, DataFields DEF GoodLook
<1>2. CASE look.drawn
  <2> DEFINE b == look.moving \/ look.at # look.data.pos
             new == [look EXCEPT !.at = look.data.pos, !.moving = b]
  <2>1. Update(look) = new
    BY <1>2 DEF Update
  <2>2. b \in BOOLEAN
    OBVIOUS
  <2> HIDE DEF b
  <2>3. /\ new \in Look /\ new.data = look.data /\ new.at = look.data.pos
        /\ new.drawn = look.drawn /\ new.graphics = look.graphics
    BY <1>1, <2>2 DEF Look
  <2> HIDE DEF new
  <2>4. new \in GoodLook
    BY <2>3, LookFields DEF GoodLook
  <2> QED BY <2>1, <2>3, <2>4
<1>3. CASE ~ look.drawn
  <2>1. Update(look) = look
    BY <1>3 DEF Update
  <2> QED BY <1>3, <2>1
<1> QED BY <1>2, <1>3

LEMMA MoveLook ==
  ASSUME NEW look \in GoodLook, NEW p \in Place
  PROVE  LET new == Move(look, p)
         IN  /\ new \in GoodLook
             /\ new.data.pos = p /\ new.data.scale = look.data.scale
             /\ new.drawn = look.drawn /\ new.graphics = look.graphics
             /\ new.moving = look.moving
             /\ look.drawn => new.at = p
<1> DEFINE mid == SetPos(look, p)
           a == IF look.drawn THEN p ELSE mid.at
           new == Move(look, p)
<1>1. /\ mid \in GoodLook /\ mid.data.pos = p /\ mid.data.scale = look.data.scale
      /\ mid.drawn = look.drawn /\ mid.graphics = look.graphics /\ mid.moving = look.moving
  BY SetPosLook
<1>2. new = [mid EXCEPT !.at = a]
  BY DEF Move
<1> HIDE DEF mid, new
<1>3. mid \in Look /\ a \in Place
  BY <1>1, LookFields DEF GoodLook
<1>4. look.drawn => a = p
  OBVIOUS
<1> HIDE DEF a
<1>5. /\ new \in Look /\ new.data = mid.data /\ new.at = a
      /\ new.drawn = mid.drawn /\ new.graphics = mid.graphics /\ new.moving = mid.moving
  BY <1>2, <1>3 DEF Look
<1>6. new \in GoodLook
  BY <1>1, <1>5, LookFields DEF GoodLook
<1> QED BY <1>1, <1>4, <1>5, <1>6 DEF new

(* Executing and rolling back keep items good looking, and change the one   *)
(* they are about, if it is known.                                          *)
LEMMA TaskOnLook ==
  ASSUME NEW look \in GoodLook, NEW t, t.kind \in Kind, t.prev \in Data, t.data \in Data
  PROVE  ExecutedLook(look, t) \in GoodLook /\ RolledBackLook(look, t) \in GoodLook
<1>1. t.prev.pos \in Place /\ t.data.pos \in Place
  BY DataFields
<1>2. Draw(look) \in GoodLook /\ Erase(look) \in GoodLook
  BY DrawLook, EraseLook
<1>3. Update(SetData(look, t.data)) \in GoodLook /\ Update(SetData(look, t.prev)) \in GoodLook
  BY SetDataLook, UpdateLook
<1>4. Move(look, t.data.pos) \in GoodLook /\ Move(look, t.prev.pos) \in GoodLook
  BY <1>1, MoveLook
<1> QED BY <1>2, <1>3, <1>4 DEF Kind, ExecutedLook, RolledBackLook

LEMMA TaskOnCanvas ==
  ASSUME NEW c \in [Key -> GoodLook], NEW known, NEW t,
         t.kind \in Kind, t.key \in Key, t.prev \in Data, t.data \in Data
  PROVE  /\ Execute(c, t, known) \in [Key -> GoodLook]
         /\ Rollback(c, t, known) \in [Key -> GoodLook]
         /\ \A k \in Key :
              /\ Execute(c, t, known)[k] =
                   IF k = t.key /\ k \in known THEN ExecutedLook(c[k], t) ELSE c[k]
              /\ Rollback(c, t, known)[k] =
                   IF k = t.key /\ k \in known THEN RolledBackLook(c[k], t) ELSE c[k]
<1>1. CASE t.key \notin known
  BY <1>1 DEF Execute, Rollback
<1>2. CASE t.key \in known
  <2> DEFINE ex == ExecutedLook(c[t.key], t)
             rb == RolledBackLook(c[t.key], t)
  <2>1. c[t.key] \in GoodLook
    OBVIOUS
  <2>2. ex \in GoodLook /\ rb \in GoodLook
    BY <2>1, TaskOnLook
  <2>3. Execute(c, t, known) = [c EXCEPT ![t.key] = ex]
    BY <1>2 DEF Execute, ExecutedLook
  <2>4. Rollback(c, t, known) = [c EXCEPT ![t.key] = rb]
    BY <1>2 DEF Rollback, RolledBackLook
  <2>5. \A k \in Key : /\ k = t.key => ex = ExecutedLook(c[k], t)
                       /\ k = t.key => rb = RolledBackLook(c[k], t)
    OBVIOUS
  <2> HIDE DEF ex, rb
  <2> QED BY <1>2, <2>2, <2>3, <2>4, <2>5
<1> QED BY <1>1, <1>2

-----------------------------------------------------------------------------
(* Items that look as the first n tasks of a history say.                   *)

AddFits(s, i) ==
  /\ s[i].kind = "add" => ~ VisibleAfter(s, s[i].key, i - 1)
  /\ s[i].kind = "remove" => VisibleAfter(s, s[i].key, i - 1)

EditFits(s, i) ==
  /\ s[i].kind \in {"update", "move"} => EditsOf(s, s[i].key, {"add"}, i - 1) # {}
  /\ s[i].kind = "update" => s[i].prev = DataAfter(s, s[i].key, i - 1)
  /\ s[i].kind = "move" => s[i].prev.pos = DataAfter(s, s[i].key, i - 1).pos

AddsFit(s) == \A i \in 1 .. Len(s) : AddFits(s, i)

EditsFit(s) == \A i \in 1 .. Len(s) : EditFits(s, i)

(* A history is consistent when adding and removing fit, and edits do.      *)
LEMMA ConsistentParts == Consistent <=> AddsFit(tasks) /\ EditsFit(tasks)
BY DEF Consistent, AddsFit, EditsFit, AddFits, EditFits

ShowsVisible(look, s, k, n) ==
  /\ look.drawn = VisibleAfter(s, k, n)
  /\ look.graphics = IF look.drawn THEN 1 ELSE 0

ShowsData(look, s, k, n) ==
  /\ look.data = DataAfter(s, k, n)
  /\ look.drawn /\ ~look.moving => look.at = look.data.pos

(* Data is what DataAfter says when place and scale are.                    *)
LEMMA SameData ==
  ASSUME NEW s, NEW k, NEW n, NEW d \in Data,
         d.pos = DataAfter(s, k, n).pos, d.scale = DataAfter(s, k, n).scale
  PROVE  d = DataAfter(s, k, n)
<1>1. d = [pos |-> d.pos, scale |-> d.scale]
  BY PaintCanvasAssumption
<1>2. DataAfter(s, k, n) = [pos |-> DataAfter(s, k, n).pos, scale |-> DataAfter(s, k, n).scale]
  BY DEF DataAfter
<1> QED BY <1>1, <1>2

(* A task of another item changes nothing of this one.                      *)
LEMMA OtherItem ==
  ASSUME NEW s, NEW k, NEW n \in Nat, s[n + 1].key # k
  PROVE  /\ VisibleAfter(s, k, n + 1) = VisibleAfter(s, k, n)
         /\ DataAfter(s, k, n + 1) = DataAfter(s, k, n)
<1>1. \A kinds : EditsOf(s, k, kinds, n + 1) = EditsOf(s, k, kinds, n)
  BY OneMoreEdit
<1> QED BY <1>1 DEF VisibleAfter, DataAfter

LEMMA VisibleIsBoolean == \A s, k, n : VisibleAfter(s, k, n) \in BOOLEAN
BY DEF VisibleAfter

(* Executing the next task makes an item look as one task more says ...     *)
LEMMA ExecuteStep ==
  ASSUME NEW look \in GoodLook, NEW s, NEW k, NEW n \in Nat,
         NEW t, t.kind = s[n + 1].kind, t.key = s[n + 1].key, t.data = s[n + 1].data,
         t.key = k, t.kind \in Kind, t.prev \in Data, t.data \in Data,
         ShowsVisible(look, s, k, n), AddFits(s, n + 1)
  PROVE  /\ ShowsVisible(ExecutedLook(look, t), s, k, n + 1)
         /\ ShowsData(look, s, k, n) => ShowsData(ExecutedLook(look, t), s, k, n + 1)
<1> DEFINE new == ExecutedLook(look, t)
<1>1. /\ look.data \in Data /\ look.graphics \in Nat /\ look.drawn \in BOOLEAN
      /\ look.drawn = VisibleAfter(s, k, n)
      /\ look.graphics = IF look.drawn THEN 1 ELSE 0
  BY LookFields DEF ShowsVisible
<1>2. t.kind = "add" => ~ look.drawn
  BY <1>1 DEF AddFits
<1>3. t.kind = "remove" => look.drawn
  BY <1>1 DEF AddFits
<1>4. new \in GoodLook
  BY TaskOnLook
<1>5. VisibleAfter(s, k, n + 1) =
        IF t.kind \in {"add", "remove"} THEN t.kind = "add" ELSE VisibleAfter(s, k, n)
  BY VisibleStep
<1>6. /\ DataAfter(s, k, n + 1).pos =
           IF t.kind \in {"update", "move"} THEN t.data.pos ELSE DataAfter(s, k, n).pos
      /\ DataAfter(s, k, n + 1).scale =
           IF t.kind = "update" THEN t.data.scale ELSE DataAfter(s, k, n).scale
  BY DataStep
<1>7. new.drawn \in BOOLEAN /\ new.data \in Data
  BY <1>4, LookFields
<1> HIDE DEF new
<1>8. CASE t.kind = "add"
  <2>1. /\ new.data = look.data /\ new.at = look.data.pos /\ new.drawn = TRUE
        /\ new.graphics = look.graphics + 1
    BY <1>8, DrawLook DEF new, ExecutedLook
  <2>2. ShowsVisible(new, s, k, n + 1)
    <3>1. VisibleAfter(s, k, n + 1) = TRUE
      BY <1>5, <1>8
    <3>2. new.graphics = 1
      BY <1>1, <1>2, <1>8, <2>1
    <3> QED BY <2>1, <3>1, <3>2 DEF ShowsVisible
  <2>3. ASSUME ShowsData(look, s, k, n) PROVE ShowsData(new, s, k, n + 1)
    <3>1. new.data = DataAfter(s, k, n)
      BY <2>1, <2>3 DEF ShowsData
    <3>2. /\ DataAfter(s, k, n + 1).pos = DataAfter(s, k, n).pos
          /\ DataAfter(s, k, n + 1).scale = DataAfter(s, k, n).scale
      BY <1>6, <1>8
    <3>3. new.data = DataAfter(s, k, n + 1)
      BY <1>7, <3>1, <3>2, SameData
    <3> QED BY <2>1, <3>3 DEF ShowsData
  <2> QED BY <2>2, <2>3 DEF new
<1>9. CASE t.kind = "remove"
  <2>1. /\ new.data = look.data /\ new.drawn = FALSE
        /\ new.graphics = look.graphics - 1
    BY <1>3, <1>9, EraseLook DEF new, ExecutedLook
  <2>2. ShowsVisible(new, s, k, n + 1)
    <3>1. VisibleAfter(s, k, n + 1) = FALSE
      BY <1>5, <1>9
    <3>2. new.graphics = 0
      BY <1>1, <1>3, <1>9, <2>1
    <3> QED BY <2>1, <3>1, <3>2 DEF ShowsVisible
  <2>3. ASSUME ShowsData(look, s, k, n) PROVE ShowsData(new, s, k, n + 1)
    <3>1. new.data = DataAfter(s, k, n)
      BY <2>1, <2>3 DEF ShowsData
    <3>2. /\ DataAfter(s, k, n + 1).pos = DataAfter(s, k, n).pos
          /\ DataAfter(s, k, n + 1).scale = DataAfter(s, k, n).scale
      BY <1>6, <1>9
    <3>3. new.data = DataAfter(s, k, n + 1)
      BY <1>7, <3>1, <3>2, SameData
    <3> QED BY <2>1, <3>3 DEF ShowsData
  <2> QED BY <2>2, <2>3 DEF new
<1>10. CASE t.kind = "update"
  <2> DEFINE mid == SetData(look, t.data)
  <2>1. /\ mid \in GoodLook /\ mid.data = t.data /\ mid.drawn = look.drawn
        /\ mid.graphics = look.graphics
    BY SetDataLook
  <2>2. new = Update(mid)
    BY <1>10 DEF new, ExecutedLook
  <2> HIDE DEF mid
  <2>3. /\ new.data = t.data /\ new.drawn = look.drawn /\ new.graphics = look.graphics
        /\ look.drawn => new.at = t.data.pos
    BY <2>1, <2>2, UpdateLook
  <2>4. ShowsVisible(new, s, k, n + 1)
    BY <1>1, <1>5, <1>10, <2>3 DEF ShowsVisible
  <2>5. ShowsData(new, s, k, n + 1)
    BY <1>6, <1>7, <1>10, <2>3, SameData DEF ShowsData
  <2> QED BY <2>4, <2>5 DEF new
<1>11. CASE t.kind = "move"
  <2>1. t.data.pos \in Place
    BY DataFields
  <2>2. /\ new.data.pos = t.data.pos /\ new.data.scale = look.data.scale
        /\ new.drawn = look.drawn /\ new.graphics = look.graphics
        /\ look.drawn => new.at = t.data.pos
    BY <1>11, <2>1, MoveLook DEF new, ExecutedLook
  <2>3. ShowsVisible(new, s, k, n + 1)
    BY <1>1, <1>5, <1>11, <2>2 DEF ShowsVisible
  <2>4. ShowsData(look, s, k, n) => ShowsData(new, s, k, n + 1)
    BY <1>6, <1>7, <1>11, <2>2, SameData DEF ShowsData
  <2> QED BY <2>3, <2>4 DEF new
<1> QED BY <1>8, <1>9, <1>10, <1>11 DEF Kind

(* ... and rolling a task back as one task less, if it fits.                *)
LEMMA RollbackStep ==
  ASSUME NEW look \in GoodLook, NEW s, NEW k, NEW n \in Nat,
         s[n + 1].key = k, s[n + 1].kind \in Kind,
         s[n + 1].prev \in Data, s[n + 1].data \in Data,
         ShowsVisible(look, s, k, n + 1), AddFits(s, n + 1)
  PROVE  /\ ShowsVisible(RolledBackLook(look, s[n + 1]), s, k, n)
         /\ ShowsData(look, s, k, n + 1) /\ EditFits(s, n + 1)
              => ShowsData(RolledBackLook(look, s[n + 1]), s, k, n)
<1> DEFINE t == s[n + 1]
           new == RolledBackLook(look, t)
<1>1. /\ look.data \in Data /\ look.graphics \in Nat /\ look.drawn \in BOOLEAN
      /\ look.drawn = VisibleAfter(s, k, n + 1)
      /\ look.graphics = IF look.drawn THEN 1 ELSE 0
  BY LookFields DEF ShowsVisible
<1>2. VisibleAfter(s, k, n + 1) =
        IF t.kind \in {"add", "remove"} THEN t.kind = "add" ELSE VisibleAfter(s, k, n)
  BY VisibleStep
<1>3. /\ DataAfter(s, k, n + 1).pos =
           IF t.kind \in {"update", "move"} THEN t.data.pos ELSE DataAfter(s, k, n).pos
      /\ DataAfter(s, k, n + 1).scale =
           IF t.kind = "update" THEN t.data.scale ELSE DataAfter(s, k, n).scale
  BY DataStep
<1>4. /\ t.kind = "add" => ~ VisibleAfter(s, k, n)
      /\ t.kind = "remove" => VisibleAfter(s, k, n)
      /\ EditFits(s, n + 1) /\ t.kind = "update" => t.prev = DataAfter(s, k, n)
      /\ EditFits(s, n + 1) /\ t.kind = "move" => t.prev.pos = DataAfter(s, k, n).pos
  <2>1. (n + 1) - 1 = n
    OBVIOUS
  <2> QED BY <2>1 DEF AddFits, EditFits
<1>5. new \in GoodLook /\ VisibleAfter(s, k, n) \in BOOLEAN
  BY TaskOnLook, VisibleIsBoolean
<1>6. new.drawn \in BOOLEAN /\ new.data \in Data
  BY <1>5, LookFields
<1> HIDE DEF new
<1>7. CASE t.kind = "add"
  <2>1. new.data = look.data /\ new.drawn = FALSE /\ new.graphics = 0
    <3>1. VisibleAfter(s, k, n + 1) = TRUE
      BY <1>2, <1>7
    <3>2. look.drawn /\ look.graphics = 1
      BY <1>1, <3>1
    <3>3. new = Erase(look)
      BY <1>7 DEF new, RolledBackLook
    <3>4. /\ new.data = look.data /\ new.drawn = FALSE
          /\ new.graphics = (IF look.drawn THEN look.graphics - 1 ELSE look.graphics)
      BY <3>3, EraseLook
    <3>5. new.graphics = 1 - 1
      BY <3>2, <3>4
    <3>6. new.graphics = 0
      BY <3>5
    <3> QED BY <3>4, <3>6, Zenon
  <2>2. ShowsVisible(new, s, k, n)
    <3>1. VisibleAfter(s, k, n) = FALSE
      BY <1>4, <1>5, <1>7
    <3> QED BY <2>1, <3>1 DEF ShowsVisible
  <2>3. ASSUME ShowsData(look, s, k, n + 1) PROVE ShowsData(new, s, k, n)
    <3>1. new.data = DataAfter(s, k, n + 1)
      BY <2>1, <2>3 DEF ShowsData
    <3>2. /\ DataAfter(s, k, n + 1).pos = DataAfter(s, k, n).pos
          /\ DataAfter(s, k, n + 1).scale = DataAfter(s, k, n).scale
      BY <1>3, <1>7
    <3>3. new.data = DataAfter(s, k, n)
      BY <1>6, <3>1, <3>2, SameData
    <3> QED BY <2>1, <3>3 DEF ShowsData
  <2> QED BY <2>2, <2>3 DEF new
<1>8. CASE t.kind = "remove"
  <2>1. /\ new.data = look.data /\ new.at = look.data.pos /\ new.drawn = TRUE
        /\ new.graphics = look.graphics + 1
    BY <1>8, DrawLook DEF new, RolledBackLook
  <2>2. ShowsVisible(new, s, k, n)
    <3>1. VisibleAfter(s, k, n) = TRUE
      BY <1>4, <1>5, <1>8
    <3>2. VisibleAfter(s, k, n + 1) = FALSE
      BY <1>2, <1>8
    <3>3. new.graphics = 1
      BY <1>1, <2>1, <3>2
    <3> QED BY <2>1, <3>1, <3>3 DEF ShowsVisible
  <2>3. ASSUME ShowsData(look, s, k, n + 1) PROVE ShowsData(new, s, k, n)
    <3>1. new.data = DataAfter(s, k, n + 1)
      BY <2>1, <2>3 DEF ShowsData
    <3>2. /\ DataAfter(s, k, n + 1).pos = DataAfter(s, k, n).pos
          /\ DataAfter(s, k, n + 1).scale = DataAfter(s, k, n).scale
      BY <1>3, <1>8
    <3>3. new.data = DataAfter(s, k, n)
      BY <1>6, <3>1, <3>2, SameData
    <3> QED BY <2>1, <3>3 DEF ShowsData
  <2> QED BY <2>2, <2>3 DEF new
<1>9. CASE t.kind = "update"
  <2> DEFINE mid == SetData(look, t.prev)
  <2>1. /\ mid \in GoodLook /\ mid.data = t.prev /\ mid.drawn = look.drawn
        /\ mid.graphics = look.graphics
    BY SetDataLook
  <2>2. new = Update(mid)
    BY <1>9 DEF new, RolledBackLook
  <2> HIDE DEF mid
  <2>3. /\ new.data = t.prev /\ new.drawn = look.drawn /\ new.graphics = look.graphics
        /\ look.drawn => new.at = t.prev.pos
    BY <2>1, <2>2, UpdateLook
  <2>4. ShowsVisible(new, s, k, n)
    BY <1>1, <1>2, <1>9, <2>3 DEF ShowsVisible
  <2>5. EditFits(s, n + 1) => ShowsData(new, s, k, n)
    BY <1>4, <1>9, <2>3 DEF ShowsData
  <2> QED BY <2>4, <2>5 DEF new
<1>10. CASE t.kind = "move"
  <2>1. t.prev.pos \in Place
    BY DataFields
  <2>2. /\ new.data.pos = t.prev.pos /\ new.data.scale = look.data.scale
        /\ new.drawn = look.drawn /\ new.graphics = look.graphics
        /\ look.drawn => new.at = t.prev.pos
    BY <1>10, <2>1, MoveLook DEF new, RolledBackLook
  <2>3. ShowsVisible(new, s, k, n)
    BY <1>1, <1>2, <1>10, <2>2 DEF ShowsVisible
  <2>4. ShowsData(look, s, k, n + 1) /\ EditFits(s, n + 1) => ShowsData(new, s, k, n)
    BY <1>3, <1>4, <1>6, <1>10, <2>2, SameData DEF ShowsData
  <2> QED BY <2>3, <2>4 DEF new
<1> QED BY <1>7, <1>8, <1>9, <1>10 DEF Kind

-----------------------------------------------------------------------------
(* The loops leave the canvas as it should be at the position they go to.   *)

Shows(look, k, n) ==
  /\ ShowsVisible(look, tasks, k, n)
  /\ EditsFit(tasks) => ShowsData(look, tasks, k, n)

(* The canvases that may be there when a loop over the tasks of who is at   *)
(* position i.                                                              *)
LoopCanvas(i, who) ==
  {c \in [Key -> GoodLook] :
     \A k \in Key : IF k \in items /\ k[1] \in who
                    THEN AddsFit(tasks) => Shows(c[k], k, i) ELSE c[k] = canvas[k]}

LEMMA ForwardShows ==
  ASSUME TypeOK, canvas \in [Key -> GoodLook], NEW from \in Nat, NEW to \in Int,
         from < to, to <= Len(tasks), NEW who,
         AddsFit(tasks) => \A k \in items : k[1] \in who => Shows(canvas[k], k, from)
  PROVE  Forward(from, to, who) \in LoopCanvas(to, who)
<1> DEFINE Inv == [i \in from .. to |-> LoopCanvas(i, who)]
<1>1. tasks \in Seq(Task) /\ items \subseteq Key
  BY DEF TypeOK
<1>2. canvas \in Inv[from]
  <2>1. from \in from .. to
    OBVIOUS
  <2>2. canvas \in LoopCanvas(from, who)
    BY <1>1 DEF LoopCanvas
  <2> QED BY <2>1, <2>2
<1>3. ASSUME NEW i \in from + 1 .. to, NEW c \in Inv[i - 1]
      PROVE  Executes(c, i, who) \in Inv[i]
  <2> DEFINE t == tasks[i]
             n == i - 1
  <2>1. i \in from .. to /\ n \in from .. to /\ n \in Nat /\ n + 1 = i /\ i \in 1 .. Len(tasks)
    OBVIOUS
  <2>2. c \in LoopCanvas(n, who)
    BY <2>1
  <2>3. t \in Task /\ t.kind \in Kind /\ t.key \in Key /\ t.prev \in Data /\ t.data \in Data
    <3>1. t \in Task
      BY <1>1, <2>1
    <3> HIDE DEF t
    <3> QED BY <3>1 DEF Task
  <2>4. c \in [Key -> GoodLook]
    BY <2>2 DEF LoopCanvas
  <2> DEFINE new == Executes(c, i, who)
  <2>5. /\ new \in [Key -> GoodLook]
        /\ \A k \in Key : new[k] = IF t.key[1] \in who /\ k = t.key /\ k \in items
                                   THEN ExecutedLook(c[k], t) ELSE c[k]
    <3>1. /\ Execute(c, t, items) \in [Key -> GoodLook]
          /\ \A k \in Key : Execute(c, t, items)[k] =
                            IF k = t.key /\ k \in items THEN ExecutedLook(c[k], t) ELSE c[k]
      BY <2>3, <2>4, TaskOnCanvas
    <3>2. new = IF t.key[1] \in who THEN Execute(c, t, items) ELSE c
      BY DEF Executes
    <3> HIDE DEF new, t
    <3>3. CASE t.key[1] \in who
      BY <3>1, <3>2, <3>3
    <3>4. CASE t.key[1] \notin who
      BY <2>4, <3>2, <3>4
    <3> QED BY <3>3, <3>4
  <2> HIDE DEF new, n, t
  <2>6. ASSUME NEW k \in Key, k \in items /\ k[1] \in who, AddsFit(tasks)
        PROVE  Shows(new[k], k, i)
    <3>1. Shows(c[k], k, n) /\ c[k] \in GoodLook
      BY <2>2, <2>6 DEF LoopCanvas
    <3>2. AddFits(tasks, n + 1)
      BY <2>1, <2>6 DEF AddsFit
    <3>3. CASE k = t.key
      <4>1. new[k] = ExecutedLook(c[k], t)
        BY <2>5, <2>6, <3>3
      <4>2. t = tasks[n + 1]
        BY <2>1 DEF t
      <4>3. /\ ShowsVisible(ExecutedLook(c[k], t), tasks, k, n + 1)
            /\ ShowsData(c[k], tasks, k, n) => ShowsData(ExecutedLook(c[k], t), tasks, k, n + 1)
        BY <2>1, <2>3, <3>1, <3>2, <3>3, <4>2, ExecuteStep DEF Shows
      <4> QED BY <2>1, <3>1, <4>1, <4>3 DEF Shows
    <3>4. CASE k # t.key
      <4>1. new[k] = c[k]
        BY <2>5, <3>4
      <4>2. t = tasks[n + 1]
        BY <2>1 DEF t
      <4>3. /\ VisibleAfter(tasks, k, n + 1) = VisibleAfter(tasks, k, n)
            /\ DataAfter(tasks, k, n + 1) = DataAfter(tasks, k, n)
        BY <2>1, <3>4, <4>2, OtherItem
      <4> QED BY <2>1, <3>1, <4>1, <4>3 DEF Shows, ShowsVisible, ShowsData
    <3> QED BY <3>3, <3>4
  <2>7. ASSUME NEW k \in Key, ~ (k \in items /\ k[1] \in who) PROVE new[k] = canvas[k]
    <3>1. c[k] = canvas[k]
      BY <2>2, <2>7 DEF LoopCanvas
    <3> QED BY <2>5, <2>7, <3>1
  <2>8. new \in LoopCanvas(i, who)
    BY <2>5, <2>6, <2>7 DEF LoopCanvas
  <2> QED BY <2>1, <2>8 DEF new
<1> HIDE DEF Inv
<1>4. Forward(from, to, who) \in Inv[to]
  BY <1>2, <1>3, ForwardKeeps
<1>5. to \in from .. to
  OBVIOUS
<1> QED BY <1>4, <1>5 DEF Inv

LEMMA BackwardShows ==
  ASSUME TypeOK, canvas \in [Key -> GoodLook], NEW from \in Int, NEW to \in Nat,
         to < from, from <= Len(tasks), NEW who,
         AddsFit(tasks) => \A k \in items : k[1] \in who => Shows(canvas[k], k, from)
  PROVE  Backward(from, to, who) \in LoopCanvas(to, who)
<1> DEFINE Inv == [i \in to .. from |-> LoopCanvas(i, who)]
<1>1. tasks \in Seq(Task) /\ items \subseteq Key
  BY DEF TypeOK
<1>2. canvas \in Inv[from]
  <2>1. from \in to .. from
    OBVIOUS
  <2>2. canvas \in LoopCanvas(from, who)
    BY <1>1 DEF LoopCanvas
  <2> QED BY <2>1, <2>2
<1>3. ASSUME NEW i \in to + 1 .. from, NEW c \in Inv[i]
      PROVE  RollsBack(c, i, who) \in Inv[i - 1]
  <2> DEFINE t == tasks[i]
             n == i - 1
  <2>1. i \in to .. from /\ n \in to .. from /\ n \in Nat /\ n + 1 = i /\ i \in 1 .. Len(tasks)
    OBVIOUS
  <2>2. c \in LoopCanvas(i, who)
    BY <2>1
  <2>3. t \in Task /\ t.kind \in Kind /\ t.key \in Key /\ t.prev \in Data /\ t.data \in Data
    <3>1. t \in Task
      BY <1>1, <2>1
    <3> HIDE DEF t
    <3> QED BY <3>1 DEF Task
  <2>4. c \in [Key -> GoodLook]
    BY <2>2 DEF LoopCanvas
  <2> DEFINE new == RollsBack(c, i, who)
  <2>5. /\ new \in [Key -> GoodLook]
        /\ \A k \in Key : new[k] = IF t.key[1] \in who /\ k = t.key /\ k \in items
                                   THEN RolledBackLook(c[k], t) ELSE c[k]
    <3>1. /\ Rollback(c, t, items) \in [Key -> GoodLook]
          /\ \A k \in Key : Rollback(c, t, items)[k] =
                            IF k = t.key /\ k \in items THEN RolledBackLook(c[k], t) ELSE c[k]
      BY <2>3, <2>4, TaskOnCanvas
    <3>2. new = IF t.key[1] \in who THEN Rollback(c, t, items) ELSE c
      BY DEF RollsBack
    <3> HIDE DEF new, t
    <3>3. CASE t.key[1] \in who
      BY <3>1, <3>2, <3>3
    <3>4. CASE t.key[1] \notin who
      BY <2>4, <3>2, <3>4
    <3> QED BY <3>3, <3>4
  <2> HIDE DEF new, n, t
  <2>6. ASSUME NEW k \in Key, k \in items /\ k[1] \in who, AddsFit(tasks)
        PROVE  Shows(new[k], k, n)
    <3>1. Shows(c[k], k, n + 1) /\ c[k] \in GoodLook
      BY <2>1, <2>2, <2>6 DEF LoopCanvas
    <3>2. AddFits(tasks, n + 1) /\ (EditsFit(tasks) => EditFits(tasks, n + 1))
      BY <2>1, <2>6 DEF AddsFit, EditsFit
    <3>3. t = tasks[n + 1]
      BY <2>1 DEF t
    <3>4. CASE k = t.key
      <4>1. new[k] = RolledBackLook(c[k], t)
        BY <2>5, <2>6, <3>4
      <4>2. /\ ShowsVisible(RolledBackLook(c[k], t), tasks, k, n)
            /\ ShowsData(c[k], tasks, k, n + 1) /\ EditFits(tasks, n + 1)
                 => ShowsData(RolledBackLook(c[k], t), tasks, k, n)
        BY <2>1, <2>3, <3>1, <3>2, <3>3, <3>4, RollbackStep DEF Shows
      <4> QED BY <3>1, <3>2, <4>1, <4>2 DEF Shows
    <3>5. CASE k # t.key
      <4>1. new[k] = c[k]
        BY <2>5, <3>5
      <4>2. /\ VisibleAfter(tasks, k, n + 1) = VisibleAfter(tasks, k, n)
            /\ DataAfter(tasks, k, n + 1) = DataAfter(tasks, k, n)
        BY <2>1, <3>3, <3>5, OtherItem
      <4> QED BY <3>1, <4>1, <4>2 DEF Shows, ShowsVisible, ShowsData
    <3> QED BY <3>4, <3>5
  <2>7. ASSUME NEW k \in Key, ~ (k \in items /\ k[1] \in who) PROVE new[k] = canvas[k]
    <3>1. c[k] = canvas[k]
      BY <2>2, <2>7 DEF LoopCanvas
    <3> QED BY <2>5, <2>7, <3>1
  <2>8. new \in LoopCanvas(n, who)
    BY <2>5, <2>6, <2>7 DEF LoopCanvas
  <2> QED BY <2>1, <2>8 DEF new, n
<1> HIDE DEF Inv
<1>4. Backward(from, to, who) \in Inv[to]
  BY <1>2, <1>3, BackwardKeeps
<1>5. to \in to .. from
  OBVIOUS
<1> QED BY <1>4, <1>5 DEF Inv

-----------------------------------------------------------------------------
(* What the actions do to the canvas.                                       *)

(* A new task, shown or not, changes nothing but the item it is about.      *)
LEMMA ShownOnCanvas ==
  ASSUME NEW b \in [Key -> GoodLook], NEW c \in Command, NEW known
  PROVE  /\ Shown(b, c, known) \in [Key -> GoodLook]
         /\ \A k \in Key :
              Shown(b, c, known)[k] = IF k = c.key /\ k \in known /\ ~ Skipped(k)
                                      THEN ExecutedLook(b[k], c) ELSE b[k]
<1>1. c.kind \in Kind /\ c.key \in Key /\ c.prev \in Data /\ c.data \in Data
  BY DEF Command
<1>2. /\ Execute(b, c, known) \in [Key -> GoodLook]
      /\ \A k \in Key : Execute(b, c, known)[k] =
                          IF k = c.key /\ k \in known THEN ExecutedLook(b[k], c) ELSE b[k]
  BY <1>1, TaskOnCanvas
<1>3. CASE Skipped(c.key)
  BY <1>1, <1>3 DEF Shown
<1>4. CASE ~ Skipped(c.key)
  BY <1>1, <1>2, <1>4 DEF Shown
<1> QED BY <1>3, <1>4

LEMMA HeldLook ==
  ASSUME NEW look \in GoodLook, NEW p \in Place, NEW b \in BOOLEAN
  PROVE  LET new == [look EXCEPT !.at = p, !.moving = b]
             free == [look EXCEPT !.moving = b]
         IN  /\ new \in GoodLook /\ free \in GoodLook
             /\ new.data = look.data /\ new.drawn = look.drawn
             /\ new.graphics = look.graphics /\ new.moving = b
             /\ free.data = look.data /\ free.drawn = look.drawn
             /\ free.graphics = look.graphics /\ free.moving = b
             /\ free.at = look.at
<1> DEFINE new == [look EXCEPT !.at = p, !.moving = b]
           free == [look EXCEPT !.moving = b]
<1>1. look \in Look
  BY DEF GoodLook
<1>2. /\ new \in Look /\ new.data = look.data /\ new.drawn = look.drawn
      /\ new.graphics = look.graphics /\ new.moving = b
  BY <1>1 DEF Look
<1>3. /\ free \in Look /\ free.data = look.data /\ free.drawn = look.drawn
      /\ free.graphics = look.graphics /\ free.moving = b /\ free.at = look.at
  BY <1>1 DEF Look
<1> HIDE DEF new, free
<1>4. new \in GoodLook /\ free \in GoodLook
  BY <1>2, <1>3, LookFields DEF GoodLook
<1> QED BY <1>2, <1>3, <1>4 DEF new, free

(* Dragging leaves the item's data and its graphics.                        *)
LEMMA DragFacts ==
  ASSUME canvas \in [Key -> GoodLook], NEW k \in Key, NEW p \in Place, Drag(k, p)
  PROVE  /\ CanReach(k) /\ UNCHANGED <<historyVars, ghosts>>
         /\ canvas' \in [Key -> GoodLook]
         /\ \A j \in Key : j # k => canvas'[j] = canvas[j]
         /\ canvas'[k].data = canvas[k].data /\ canvas'[k].drawn = canvas[k].drawn
         /\ canvas'[k].graphics = canvas[k].graphics /\ canvas'[k].moving = TRUE
<1>1. CanReach(k) /\ UNCHANGED <<historyVars, ghosts>>
  BY DEF Drag
<1> DEFINE new == [canvas[k] EXCEPT !.at = p, !.moving = TRUE]
           free == [canvas[k] EXCEPT !.moving = TRUE]
<1>2. canvas' = [canvas EXCEPT ![k] = new] \/ canvas' = [canvas EXCEPT ![k] = free]
  BY DEF Drag
<1>3. canvas[k] \in GoodLook
  OBVIOUS
<1>4. /\ new \in GoodLook /\ new.data = canvas[k].data /\ new.drawn = canvas[k].drawn
      /\ new.graphics = canvas[k].graphics /\ new.moving = TRUE
      /\ free \in GoodLook /\ free.data = canvas[k].data /\ free.drawn = canvas[k].drawn
      /\ free.graphics = canvas[k].graphics /\ free.moving = TRUE
  BY <1>3, HeldLook
<1> HIDE DEF new, free
<1>5. CASE canvas' = [canvas EXCEPT ![k] = new]
  BY <1>1, <1>4, <1>5
<1>6. CASE canvas' = [canvas EXCEPT ![k] = free]
  BY <1>1, <1>4, <1>6
<1> QED BY <1>2, <1>5, <1>6

(* Scaling gives the item its new scale and makes an update of it.          *)
Scaled(k, z, b, prev, data) ==
  /\ b[k].data.pos = canvas[k].data.pos /\ b[k].data.scale = z
  /\ b[k].at = canvas[k].at /\ b[k].drawn = canvas[k].drawn
  /\ b[k].graphics = canvas[k].graphics /\ b[k].moving = canvas[k].moving
  /\ \A j \in Key : j # k => b[j] = canvas[j]
  /\ data = b[k].data
  /\ UpdateItem(k, prev, data)
  /\ canvas' = Shown(b, NewCommand("update", k, prev, data), items)

LEMMA ScaleFacts ==
  ASSUME canvas \in [Key -> GoodLook], NEW k \in Key, NEW z \in Scale, ScaleOnCanvas(k, z)
  PROVE  /\ CanReach(k) /\ ghosts' = ghosts
         /\ \E b \in [Key -> GoodLook], prev, data \in Data : Scaled(k, z, b, prev, data)
<1> DEFINE new == SetScale(canvas[k], z)
           b == [canvas EXCEPT ![k] = new]
<1>1. canvas[k] \in GoodLook
  OBVIOUS
<1>2. /\ new \in GoodLook
      /\ new.data.pos = canvas[k].data.pos /\ new.data.scale = z
      /\ new.at = canvas[k].at /\ new.drawn = canvas[k].drawn
      /\ new.graphics = canvas[k].graphics /\ new.moving = canvas[k].moving
  BY <1>1, SetScaleLook
<1>3. /\ CanReach(k) /\ ghosts' = ghosts
      /\ UpdateItem(k, b[k].prev, b[k].data)
      /\ canvas' = Shown(b, NewCommand("update", k, b[k].prev, b[k].data), items)
  BY DEF ScaleOnCanvas, Paint
<1> HIDE DEF new
<1>4. b \in [Key -> GoodLook] /\ b[k] = new /\ \A j \in Key : j # k => b[j] = canvas[j]
  BY <1>2
<1> HIDE DEF b
<1>5. b[k].prev \in Data /\ b[k].data \in Data
  BY <1>4, LookFields
<1>6. Scaled(k, z, b, b[k].prev, b[k].data)
  BY <1>2, <1>3, <1>4 DEF Scaled
<1> QED BY <1>3, <1>4, <1>5, <1>6

(* Releasing the mouse puts the item where its graphic is and makes a move  *)
(* of it; without a graphic the item is only let go.                        *)
Released(k, b, prev, data) ==
  /\ b[k].data.pos = canvas[k].at /\ b[k].data.scale = canvas[k].data.scale
  /\ b[k].at = canvas[k].at /\ b[k].drawn = canvas[k].drawn
  /\ b[k].graphics = canvas[k].graphics /\ b[k].moving = FALSE
  /\ \A j \in Key : j # k => b[j] = canvas[j]
  /\ data.pos = canvas[k].at
  /\ MoveItem(k, prev, data)
  /\ canvas' = Shown(b, NewCommand("move", k, prev, data), items)

LetGo(k) ==
  /\ canvas'[k].data = canvas[k].data /\ canvas'[k].drawn = canvas[k].drawn
  /\ canvas'[k].graphics = canvas[k].graphics
  /\ \A j \in Key : j # k => canvas'[j] = canvas[j]
  /\ UNCHANGED historyVars

LEMMA PlacedAt ==
  ASSUME NEW p \in Place
  PROVE  At(p) \in Data /\ At(p).pos = p
<1>1. Unit \in Scale
  BY DataFields
<1>2. At(p) \in Data
  BY <1>1, PaintCanvasAssumption DEF At
<1>3. At(p).pos = p
  BY DEF At
<1> QED BY <1>2, <1>3

LEMMA ReleaseFacts ==
  ASSUME canvas \in [Key -> GoodLook], NEW k \in Key, Release(k)
  PROVE  /\ canvas[k].moving /\ ghosts' = ghosts
         /\ \/ /\ canvas[k].drawn
               /\ \E b \in [Key -> GoodLook], prev, data \in Data : Released(k, b, prev, data)
            \/ /\ ~ canvas[k].drawn /\ canvas' \in [Key -> GoodLook] /\ LetGo(k)
<1> DEFINE mid == SetPos(canvas[k], canvas[k].at)
           new == [mid EXCEPT !.moving = FALSE]
           b == [canvas EXCEPT ![k] = new]
           from == At(b[k].prev.pos)
           to == At(b[k].data.pos)
           free == [canvas[k] EXCEPT !.moving = FALSE]
<1>1. canvas[k] \in GoodLook /\ canvas[k].at \in Place
  BY LookFields
<1>2. /\ mid \in GoodLook
      /\ mid.data.pos = canvas[k].at /\ mid.data.scale = canvas[k].data.scale
      /\ mid.at = canvas[k].at /\ mid.drawn = canvas[k].drawn
      /\ mid.graphics = canvas[k].graphics
  BY <1>1, SetPosLook
<1>3. /\ canvas[k].moving /\ ghosts' = ghosts
      /\ canvas[k].drawn => /\ MoveItem(k, from, to)
                            /\ canvas' = Shown(b, NewCommand("move", k, from, to), items)
      /\ ~ canvas[k].drawn => /\ canvas' = [canvas EXCEPT ![k] = free]
                              /\ UNCHANGED historyVars
  BY DEF Release, Paint
<1>4. /\ free \in GoodLook /\ free.data = canvas[k].data /\ free.drawn = canvas[k].drawn
      /\ free.graphics = canvas[k].graphics
  BY <1>1, HeldLook
<1> HIDE DEF mid
<1>5. /\ new \in GoodLook /\ new.data = mid.data /\ new.drawn = mid.drawn
      /\ new.graphics = mid.graphics /\ new.moving = FALSE /\ new.at = mid.at
  BY <1>1, <1>2, HeldLook
<1> HIDE DEF new, free
<1>6. b \in [Key -> GoodLook] /\ b[k] = new /\ \A j \in Key : j # k => b[j] = canvas[j]
  BY <1>5
<1> HIDE DEF b
<1>7. b[k].prev.pos \in Place /\ b[k].data.pos \in Place
  BY <1>6, LookFields, DataFields
<1>8. from \in Data /\ to \in Data /\ to.pos = b[k].data.pos
  BY <1>7, PlacedAt
<1> HIDE DEF from, to
<1>9. CASE canvas[k].drawn
  <2>1. Released(k, b, from, to)
    BY <1>2, <1>3, <1>5, <1>6, <1>8, <1>9 DEF Released
  <2> QED BY <1>3, <1>6, <1>8, <1>9, <2>1
<1>10. CASE ~ canvas[k].drawn
  <2>1. canvas' = [canvas EXCEPT ![k] = free] /\ UNCHANGED historyVars
    BY <1>3, <1>10
  <2>2. canvas' \in [Key -> GoodLook] /\ LetGo(k)
    BY <1>4, <2>1 DEF LetGo
  <2> QED BY <1>3, <1>10, <2>2
<1> QED BY <1>9, <1>10

-----------------------------------------------------------------------------
(* The canvas is driven by the history.                                     *)

Plain(c, sendData) ==
  /\ ExecuteTask(c, sendData)
  /\ canvas' = Shown(canvas, c, items)
  /\ ghosts' \subseteq ghosts
  /\ UNCHANGED <<items, allowPainters, enabledPainter>>

(* Five actions record a command of an item, shown on the canvas as it is.  *)
LEMMA PlainFacts ==
  ASSUME TypeOK, ghosts \subseteq Ghost,
         \/ \E k \in Key : RemoveOnCanvas(k)
         \/ \E g \in ghosts : ReleaseGhost(g)
         \/ UndoOnCanvas
         \/ RedoOnCanvas
         \/ \E kind \in PeerKind, k \in Key, prev, data \in Data :
              PeerTaskOnCanvas(kind, k, prev, data)
  PROVE  \E c \in Command, sendData \in BOOLEAN : Plain(c, sendData)
<1>1. ASSUME NEW k \in Key, RemoveOnCanvas(k)
      PROVE  \E c \in Command, sendData \in BOOLEAN : Plain(c, sendData)
  <2> DEFINE c == NewCommand("remove", k, NoData, NoData)
  <2>1. c \in Command
    BY NewCommandType, NoDataType, PaintHistoryAssumption DEF Kind
  <2>2. Plain(c, TRUE)
    BY <1>1 DEF RemoveOnCanvas, RemoveItem, ExecuteCommand, Paint, Plain, switches
  <2> QED BY <2>1, <2>2
<1>2. ASSUME NEW g \in ghosts, ReleaseGhost(g)
      PROVE  \E c \in Command, sendData \in BOOLEAN : Plain(c, sendData)
  <2> DEFINE c == NewCommand("move", g.key, At(g.pos), At(g.at))
  <2>1. g.key \in Key /\ g.pos \in Place /\ g.at \in Place
    BY DEF Ghost
  <2>2. c \in Command
    BY <2>1, NewCommandType, PlacedAt DEF Kind
  <2>3. Plain(c, TRUE)
    BY <1>2 DEF ReleaseGhost, MoveItem, ExecuteCommand, Paint, Plain, switches
  <2> QED BY <2>2, <2>3
<1>3. CASE UndoOnCanvas
  <2> DEFINE c == UndoTask(commandList[Len(commandList)])
  <2>1. commandList \in Seq(Command) /\ commandList # <<>>
    BY <1>3 DEF TypeOK, UndoOnCanvas, UndoCommand
  <2>2. c \in Command
    BY <2>1, StackTypes
  <2>3. Plain(c, TRUE)
    BY <1>3 DEF UndoOnCanvas, UndoCommand, Paint, Plain, Last, switches
  <2> QED BY <2>2, <2>3
<1>4. CASE RedoOnCanvas
  <2> DEFINE c == redoCommandList[Len(redoCommandList)]
  <2>1. redoCommandList \in Seq(Command) /\ redoCommandList # <<>>
    BY <1>4 DEF TypeOK, RedoOnCanvas, RedoCommand
  <2>2. c \in Command
    BY <2>1, StackTypes
  <2>3. Plain(c, TRUE)
    BY <1>4 DEF RedoOnCanvas, RedoCommand, Paint, Plain, Last, switches
  <2> QED BY <2>2, <2>3
<1>5. ASSUME NEW kind \in PeerKind, NEW k \in Key, NEW prev \in Data, NEW data \in Data,
             PeerTaskOnCanvas(kind, k, prev, data)
      PROVE  \E c \in Command, sendData \in BOOLEAN : Plain(c, sendData)
  <2> DEFINE c == NewCommand(kind, k, prev, data)
  <2>1. c \in Command
    BY NewCommandType, PaintHistoryAssumption
  <2>2. Plain(c, FALSE)
    BY <1>5 DEF PeerTaskOnCanvas, PeerTask, Paint, Plain, switches
  <2> QED BY <2>1, <2>2
<1> QED BY <1>1, <1>2, <1>3, <1>4, <1>5

(* Every step of the canvas is a step of the history, or leaves it.         *)
LEMMA CanvasIsHistory ==
  ASSUME canvas \in [Key -> GoodLook], ghosts \subseteq Ghost, [CanvasNext]_vars
  PROVE  [Next]_historyVars
<1>1. ASSUME NEW k \in Key, NEW z \in Scale, ScaleOnCanvas(k, z) PROVE Next
  <2>1. PICK prev \in Data, data \in Data : UpdateItem(k, prev, data)
    BY <1>1, ScaleFacts DEF Scaled
  <2> QED BY <2>1 DEF Next, Edit
<1>2. ASSUME NEW k \in Key, Release(k) PROVE [Next]_historyVars
  <2>1. (\E prev, data \in Data : MoveItem(k, prev, data)) \/ UNCHANGED historyVars
    BY <1>2, ReleaseFacts DEF Released, LetGo
  <2> QED BY <2>1 DEF Next, Edit
<1>3. ASSUME NEW g \in ghosts, ReleaseGhost(g) PROVE Next
  <2>1. g.key \in Key /\ g.pos \in Place /\ g.at \in Place
    BY DEF Ghost
  <2>2. At(g.pos) \in Data /\ At(g.at) \in Data
    BY <2>1, PlacedAt
  <2> QED BY <1>3, <2>1, <2>2 DEF ReleaseGhost, Next, Edit
<1>4. CASE CanvasEdit
  <2>1. CASE AddOnCanvas \/ UndoOnCanvas \/ RedoOnCanvas
    BY <2>1 DEF AddOnCanvas, UndoOnCanvas, RedoOnCanvas, Next, Edit
  <2>2. CASE \E k \in Key : RemoveOnCanvas(k)
    BY <2>2 DEF RemoveOnCanvas, Next, Edit
  <2>3. CASE \E k \in Key, p \in Place : Drag(k, p)
    BY <2>3 DEF Drag
  <2> QED BY <1>1, <1>2, <1>3, <1>4, <2>1, <2>2, <2>3 DEF CanvasEdit
<1>5. CASE CanvasView
  BY <1>5 DEF CanvasView, PlaybackOnCanvas, FilterOnCanvas, ClearCanvas, Next, View
<1>6. CASE CanvasSession
  BY <1>6 DEF CanvasSession, PeerTaskOnCanvas, Next, Session
<1>7. CASE UNCHANGED vars
  BY <1>7 DEF vars
<1> QED BY <1>4, <1>5, <1>6, <1>7 DEF CanvasNext

-----------------------------------------------------------------------------
(* Types.                                                                   *)

CanvasTypes ==
  /\ PositionInv
  /\ canvas \in [Key -> GoodLook]
  /\ ghosts \subseteq Ghost

LEMMA LoopTypes ==
  ASSUME tasks \in Seq(Task), canvas \in [Key -> GoodLook], NEW from \in Int, NEW to \in Int,
         0 <= from, from <= Len(tasks), to <= Len(tasks), NEW who
  PROVE  /\ Forward(from, to, who) \in [Key -> GoodLook]
         /\ 0 <= to => Backward(from, to, who) \in [Key -> GoodLook]
<1>1. ASSUME NEW i \in 1 .. Len(tasks), NEW c \in [Key -> GoodLook]
      PROVE  Executes(c, i, who) \in [Key -> GoodLook] /\ RollsBack(c, i, who) \in [Key -> GoodLook]
  <2> DEFINE t == tasks[i]
  <2>1. t \in Task
    OBVIOUS
  <2> HIDE DEF t
  <2>2. t.kind \in Kind /\ t.key \in Key /\ t.prev \in Data /\ t.data \in Data
    BY <2>1 DEF Task
  <2>3. Execute(c, t, items) \in [Key -> GoodLook] /\ Rollback(c, t, items) \in [Key -> GoodLook]
    BY <2>2, TaskOnCanvas
  <2> QED BY <2>3 DEF Executes, RollsBack, t
<1>2. Forward(from, to, who) \in [Key -> GoodLook]
  <2>1. CASE from < to
    <3> DEFINE Inv == [i \in from .. to |-> [Key -> GoodLook]]
    <3>1. canvas \in Inv[from]
      BY <2>1
    <3>2. \A i \in from + 1 .. to : \A c \in Inv[i - 1] : Executes(c, i, who) \in Inv[i]
      <4>1. \A i \in from + 1 .. to :
               /\ i \in 1 .. Len(tasks) /\ i \in from .. to /\ i - 1 \in from .. to
        OBVIOUS
      <4> QED BY <1>1, <4>1
    <3> HIDE DEF Inv
    <3>3. Forward(from, to, who) \in Inv[to]
      BY <2>1, <3>1, <3>2, ForwardKeeps
    <3> QED BY <2>1, <3>3 DEF Inv
  <2>2. CASE ~ (from < to)
    BY <2>2 DEF Forward
  <2> QED BY <2>1, <2>2
<1>3. ASSUME 0 <= to PROVE Backward(from, to, who) \in [Key -> GoodLook]
  <2>1. CASE to < from
    <3> DEFINE Inv == [i \in to .. from |-> [Key -> GoodLook]]
    <3>1. canvas \in Inv[from]
      BY <2>1
    <3>2. \A i \in to + 1 .. from : \A c \in Inv[i] : RollsBack(c, i, who) \in Inv[i - 1]
      <4>1. \A i \in to + 1 .. from :
               /\ i \in 1 .. Len(tasks) /\ i \in to .. from /\ i - 1 \in to .. from
        BY <1>3
      <4> QED BY <1>1, <4>1
    <3> HIDE DEF Inv
    <3>3. Backward(from, to, who) \in Inv[to]
      BY <2>1, <3>1, <3>2, BackwardKeeps
    <3> QED BY <2>1, <3>3 DEF Inv
  <2>2. CASE ~ (to < from)
    BY <2>2 DEF Backward
  <2> QED BY <2>1, <2>2
<1> QED BY <1>2, <1>3

LEMMA HiddenLook ==
  /\ Hidden \in GoodLook /\ ~ Hidden.drawn /\ Hidden.data = Fresh
  /\ Hidden.graphics = 0 /\ ~ Hidden.moving
<1>1. Hidden.drawn = FALSE /\ Hidden.data = Fresh /\ Hidden.graphics = 0 /\ Hidden.moving = FALSE
  BY DEF Hidden
<1>2. Hidden \in Look
  BY DataFields DEF Hidden, Look
<1> QED BY <1>1, <1>2 DEF GoodLook

(* The item that the user adds: its key, and the command.                   *)
LEMMA AddFacts ==
  ASSUME TypeOK, AddOnCanvas
  PROVE  \E c \in Command :
           /\ c.kind = "add" /\ c.key = <<Me, NextId>> /\ ExecuteTask(c, TRUE)
           /\ items' = items \cup {c.key}
           /\ canvas' = Shown(canvas, c, items') /\ ghosts' = ghosts
           /\ UNCHANGED <<allowPainters, enabledPainter>>
           /\ commandList' = Append(commandList, c) /\ redoCommandList' = <<>>
<1> DEFINE k == <<Me, NextId>>
           c == NewCommand("add", k, NoData, NoData)
<1>1. k \in Key
  <2>1. Cardinality(items) \in Nat
    BY FiniteKeys, FS_CardinalityType DEF TypeOK
  <2> QED BY <2>1, PaintHistoryAssumption DEF AddOnCanvas, AddItem, NextId, Key
<1>2. c \in Command /\ c.kind = "add" /\ c.key = k
  BY <1>1, NewCommandType, NoDataType, PaintHistoryAssumption DEF Kind, NewCommand
<1>3. /\ ExecuteTask(c, TRUE) /\ items' = items \cup {k}
      /\ canvas' = Shown(canvas, c, items') /\ ghosts' = ghosts
      /\ UNCHANGED <<allowPainters, enabledPainter>>
      /\ commandList' = Append(commandList, c) /\ redoCommandList' = <<>>
  BY DEF AddOnCanvas, AddItem, ExecuteCommand, Paint, switches
<1> QED BY <1>2, <1>3

(* Every action keeps the types, those of the history included.             *)
LEMMA CanvasTypeStep ==
  ASSUME CanvasTypes, [CanvasNext]_vars
  PROVE  CanvasTypes'
<1>1. /\ TypeOK /\ canvas \in [Key -> GoodLook] /\ ghosts \subseteq Ghost
      /\ tasks \in Seq(Task) /\ currentPlayPos \in -2 .. Len(tasks) - 1
  BY DEF CanvasTypes, PositionInv, TypeOK, PlayPositionInHistory, DEFAULT_INIT_PLAYBACK_POS
<1>2. PositionInv'
  <2>1. [Next]_historyVars
    BY <1>1, CanvasIsHistory
  <2>2. TypeOK'
    BY <1>1, <2>1, TypeStep
  <2>3. PlayPositionInHistory' /\ FrozenWhilePlaying'
    BY <2>1, PositionStep DEF CanvasTypes
  <2> QED BY <2>2, <2>3 DEF PositionInv
<1>3. SUFFICES canvas' \in [Key -> GoodLook] /\ ghosts' \subseteq Ghost
  BY <1>2 DEF CanvasTypes
<1>4. ASSUME NEW c \in Command, NEW sendData \in BOOLEAN, Plain(c, sendData)
      PROVE  canvas' \in [Key -> GoodLook] /\ ghosts' \subseteq Ghost
  BY <1>1, <1>4, ShownOnCanvas DEF Plain
<1>5. CASE AddOnCanvas
  <2>1. PICK c \in Command : canvas' = Shown(canvas, c, items') /\ ghosts' = ghosts
    BY <1>1, <1>5, AddFacts
  <2>2. Shown(canvas, c, items') \in [Key -> GoodLook]
    BY <1>1, ShownOnCanvas
  <2> QED BY <1>1, <2>1, <2>2
<1>6. ASSUME NEW k \in Key, NEW z \in Scale, ScaleOnCanvas(k, z)
      PROVE  canvas' \in [Key -> GoodLook] /\ ghosts' \subseteq Ghost
  <2>1. PICK b \in [Key -> GoodLook], prev \in Data, data \in Data :
          Scaled(k, z, b, prev, data) /\ ghosts' = ghosts
    BY <1>1, <1>6, ScaleFacts
  <2>2. NewCommand("update", k, prev, data) \in Command
    BY NewCommandType DEF Kind
  <2> QED BY <1>1, <2>1, <2>2, ShownOnCanvas DEF Scaled
<1>7. ASSUME NEW k \in Key, Release(k)
      PROVE  canvas' \in [Key -> GoodLook] /\ ghosts' \subseteq Ghost
  <2>1. ghosts' = ghosts
    BY <1>1, <1>7, ReleaseFacts
  <2>2. ASSUME NEW b \in [Key -> GoodLook], NEW prev \in Data, NEW data \in Data,
               Released(k, b, prev, data)
        PROVE  canvas' \in [Key -> GoodLook]
    <3>1. NewCommand("move", k, prev, data) \in Command
      BY NewCommandType DEF Kind
    <3> QED BY <2>2, <3>1, ShownOnCanvas DEF Released
  <2>3. canvas' \in [Key -> GoodLook]
    BY <1>1, <1>7, <2>2, ReleaseFacts
  <2> QED BY <1>1, <2>1, <2>3
<1>8. ASSUME NEW k \in Key, NEW p \in Place, Drag(k, p)
      PROVE  canvas' \in [Key -> GoodLook] /\ ghosts' \subseteq Ghost
  BY <1>1, <1>8, DragFacts
<1>9. ASSUME NEW position \in -1 .. Len(tasks) - 1, PlaybackOnCanvas(position)
      PROVE  canvas' \in [Key -> GoodLook] /\ ghosts' \subseteq Ghost
  <2>1. /\ ghosts' = ghosts /\ currentPlayPos \in -1 .. Len(tasks) - 1
        /\ canvas' = IF currentPlayPos < position
                     THEN Forward(currentPlayPos + 1, position + 1, allowPainters)
                     ELSE Backward(currentPlayPos + 1, position + 1, allowPainters)
    BY <1>1, <1>9 DEF PlaybackOnCanvas, PlaybackTo, Paint, CanvasTypes, PositionInv,
                      PlayPositionInHistory, DEFAULT_INIT_PLAYBACK_POS
  <2>2. /\ Forward(currentPlayPos + 1, position + 1, allowPainters) \in [Key -> GoodLook]
        /\ Backward(currentPlayPos + 1, position + 1, allowPainters) \in [Key -> GoodLook]
    BY <1>1, <2>1, LoopTypes
  <2> QED BY <1>1, <2>1, <2>2
<1>10. ASSUME NEW u \in Painter, NEW on \in BOOLEAN, FilterOnCanvas(u, on)
       PROVE  canvas' \in [Key -> GoodLook] /\ ghosts' \subseteq Ghost
  <2>1. /\ ghosts' = ghosts
        /\ canvas' = IF on THEN Forward(0, currentPlayPos + 1, {u})
                           ELSE Backward(currentPlayPos + 1, 0, {u})
    BY <1>10 DEF FilterOnCanvas, Paint
  <2>2. Forward(0, currentPlayPos + 1, {u}) \in [Key -> GoodLook]
    BY <1>1, LoopTypes
  <2>3. Backward(currentPlayPos + 1, 0, {u}) \in [Key -> GoodLook]
    <3>1. CASE currentPlayPos + 1 < 0
      BY <1>1, <3>1 DEF Backward
    <3>2. CASE 0 <= currentPlayPos + 1
      BY <1>1, <3>2, LoopTypes
    <3>3. currentPlayPos + 1 < 0 \/ 0 <= currentPlayPos + 1
      BY <1>1
    <3> QED BY <3>1, <3>2, <3>3
  <2> QED BY <1>1, <2>1, <2>2, <2>3
<1>11. CASE ClearCanvas
  <2>1. canvas' \in [Key -> GoodLook]
    BY <1>11, HiddenLook DEF ClearCanvas
  <2>2. ASSUME NEW k \in items
        PROVE  [key |-> k, pos |-> canvas[k].data.pos, at |-> canvas[k].at] \in Ghost
    <3>1. k \in Key /\ canvas[k] \in GoodLook
      BY <1>1 DEF TypeOK
    <3>2. canvas[k].data.pos \in Place /\ canvas[k].at \in Place
      BY <3>1, LookFields, DataFields
    <3> QED BY <3>1, <3>2 DEF Ghost
  <2>3. ghosts' \subseteq Ghost
    BY <1>1, <1>11, <2>2 DEF ClearCanvas
  <2> QED BY <2>1, <2>3
<1>12. CASE UNCHANGED <<canvas, ghosts>>
  BY <1>1, <1>12
<1>13. CASE CanvasEdit
  BY <1>1, <1>4, <1>5, <1>6, <1>7, <1>8, <1>13, PlainFacts DEF CanvasEdit
<1>14. CASE CanvasView
  BY <1>9, <1>10, <1>11, <1>14 DEF CanvasView
<1>15. CASE CanvasSession
  BY <1>1, <1>4, <1>12, <1>15, PlainFacts DEF CanvasSession
<1> QED BY <1>12, <1>13, <1>14, <1>15 DEF CanvasNext, vars

LEMMA CanvasTypeInit == CanvasInit => CanvasTypes
<1>1. ASSUME CanvasInit PROVE canvas \in [Key -> GoodLook] /\ ghosts \subseteq Ghost
  BY <1>1, HiddenLook DEF CanvasInit
<1> QED BY <1>1, PositionInit DEF CanvasInit, CanvasTypes

(* The canvas keeps its types, for any places, scales and kinds of edits:   *)
(* above all the count of an item's graphics never falls below nought,      *)
(* because whoever takes one away remembers one.                            *)
THEOREM CanvasTypeCorrect == CanvasSpec => []CanvasTypeOK
<1>1. CanvasTypes => CanvasTypeOK
  <2>1. GoodLook \subseteq Look
    BY DEF GoodLook
  <2> QED BY <2>1 DEF CanvasTypes, CanvasTypeOK, PositionInv
<1> QED BY <1>1, CanvasTypeInit, CanvasTypeStep, PTL DEF CanvasSpec

(* The canvas does nothing that the history does not allow: what is proved  *)
(* of the history alone holds of the history with its canvas.               *)
THEOREM CanvasImplementsHistory == CanvasSpec => Spec
<1>1. CanvasInit => Init
  BY DEF CanvasInit
<1>2. CanvasTypes /\ [CanvasNext]_vars => [Next]_historyVars
  BY CanvasIsHistory DEF CanvasTypes
<1> QED BY <1>1, <1>2, CanvasTypeInit, CanvasTypeStep, PTL DEF CanvasSpec, Spec

-----------------------------------------------------------------------------
(* Histories that grow, or are run again, say the same as before.           *)

LEMMA TaskFields ==
  ASSUME NEW t \in Task
  PROVE  /\ Executed(t).kind = t.kind /\ Executed(t).key = t.key
         /\ Executed(t).prev = t.prev /\ Executed(t).data = t.data
         /\ RolledBack(t).kind = t.kind /\ RolledBack(t).key = t.key
         /\ RolledBack(t).prev = t.prev /\ RolledBack(t).data = t.data
<1>1. /\ Executed(t).kind = t.kind /\ Executed(t).key = t.key
      /\ Executed(t).prev = t.prev /\ Executed(t).data = t.data
  BY DEF Executed, Task
<1>2. /\ RolledBack(t).kind = t.kind /\ RolledBack(t).key = t.key
      /\ RolledBack(t).prev = t.prev /\ RolledBack(t).data = t.data
  BY DEF RolledBack, Task
<1> QED BY <1>1, <1>2

LEMMA RunsAgree ==
  ASSUME tasks \in Seq(Task), NEW from \in Int, NEW to \in Int, NEW who
  PROVE  /\ Agree(tasks, RunForward(from, to, who), Len(tasks))
         /\ Agree(tasks, RunBackward(from, to, who), Len(tasks))
<1> DEFINE F == RunForward(from, to, who)
           B == RunBackward(from, to, who)
<1>1. ASSUME NEW i \in 1 .. Len(tasks)
      PROVE  /\ F[i] = Executed(tasks[i]) \/ F[i] = tasks[i]
             /\ B[i] = RolledBack(tasks[i]) \/ B[i] = tasks[i]
             /\ tasks[i] \in Task
  BY RunTasks
<1> HIDE DEF F, B
<1>2. Agree(tasks, F, Len(tasks))
  BY <1>1, TaskFields DEF Agree
<1>3. Agree(tasks, B, Len(tasks))
  BY <1>1, TaskFields DEF Agree
<1> QED BY <1>2, <1>3 DEF F, B

LEMMA RecordAgrees ==
  ASSUME TypeOK, NEW c \in Command, NEW sendData \in BOOLEAN, ExecuteTask(c, sendData)
  PROVE  /\ Len(tasks) \in Nat /\ Len(tasks') = Len(tasks) + 1
         /\ Agree(tasks, tasks', Len(tasks))
         /\ LET t == tasks'[Len(tasks) + 1]
            IN  /\ t.kind = c.kind /\ t.key = c.key
                /\ t.prev = c.prev /\ t.data = c.data
         /\ currentPlayPos' = IF IsPlaybackMode THEN currentPlayPos ELSE Len(tasks)
<1> DEFINE task == [kind |-> c.kind, key |-> c.key, prev |-> c.prev, data |-> c.data,
                    mine |-> sendData, send |-> sendData, sends |-> 0, net |-> 0]
           new == IF Skipped(c.key) THEN task ELSE Executed(task)
<1>1. /\ tasks \in Seq(Task) /\ tasks' = Append(tasks, new)
      /\ currentPlayPos' = IF IsPlaybackMode THEN currentPlayPos ELSE Len(tasks)
  BY DEF ExecuteTask, TypeOK, PositionAfterPush
<1>2. task \in Task
  BY DEF Command, Task
<1>3. task.kind = c.kind /\ task.key = c.key /\ task.prev = c.prev /\ task.data = c.data
  OBVIOUS
<1> HIDE DEF task
<1>4. new.kind = c.kind /\ new.key = c.key /\ new.prev = c.prev /\ new.data = c.data
  BY <1>2, <1>3, TaskFields
<1> HIDE DEF new
<1>5. /\ Len(tasks) \in Nat /\ Len(tasks') = Len(tasks) + 1
      /\ \A i \in 1 .. Len(tasks) : tasks'[i] = tasks[i]
      /\ tasks'[Len(tasks) + 1] = new
  BY <1>1
<1> QED BY <1>1, <1>4, <1>5 DEF Agree

(* Whoever fits goes on fitting, as far as the histories agree.             *)
LEMMA FitsAgree ==
  ASSUME NEW s, NEW r, Len(s) \in Nat, Len(r) \in Nat, Len(s) <= Len(r),
         Agree(s, r, Len(s))
  PROVE  /\ AddsFit(r) => AddsFit(s)
         /\ EditsFit(r) => EditsFit(s)
         /\ Len(s) = Len(r) /\ AddsFit(s) => AddsFit(r)
         /\ Len(s) = Len(r) /\ EditsFit(s) => EditsFit(r)
<1>1. ASSUME NEW i \in 1 .. Len(s)
      PROVE  (AddFits(r, i) <=> AddFits(s, i)) /\ (EditFits(r, i) <=> EditFits(s, i))
  <2>1. /\ r[i].kind = s[i].kind /\ r[i].key = s[i].key
        /\ r[i].prev = s[i].prev /\ r[i].data = s[i].data
    BY DEF Agree
  <2> DEFINE k == s[i].key
             n == i - 1
  <2>2. n \in Int /\ Agree(s, r, n)
    BY DEF Agree
  <2> HIDE DEF k, n
  <2>3. /\ VisibleAfter(r, k, n) = VisibleAfter(s, k, n)
        /\ DataAfter(r, k, n) = DataAfter(s, k, n)
        /\ \A kinds : EditsOf(r, k, kinds, n) = EditsOf(s, k, kinds, n)
    <3>1. /\ VisibleAfter(r, k, n) = VisibleAfter(s, k, n)
          /\ DataAfter(r, k, n) = DataAfter(s, k, n)
      BY <2>2, SamePainting
    <3>2. \A kinds : EditsOf(r, k, kinds, n) = EditsOf(s, k, kinds, n)
      BY <2>2 DEF Agree, EditsOf
    <3> QED BY <3>1, <3>2
  <2> USE DEF k, n
  <2>4. AddFits(r, i) <=> AddFits(s, i)
    BY <2>1, <2>3 DEF AddFits
  <2>5. EditFits(r, i) <=> EditFits(s, i)
    BY <2>1, <2>3 DEF EditFits
  <2> QED BY <2>4, <2>5
<1>2. \A i \in 1 .. Len(s) : i \in 1 .. Len(r)
  OBVIOUS
<1> QED BY <1>1, <1>2 DEF AddsFit, EditsFit

LEMMA ShowsAgree ==
  ASSUME NEW s, NEW r, NEW m \in Int, Agree(s, r, m), NEW n \in Int, n <= m, NEW k, NEW look
  PROVE  /\ ShowsVisible(look, r, k, n) <=> ShowsVisible(look, s, k, n)
         /\ ShowsData(look, r, k, n) <=> ShowsData(look, s, k, n)
<1>1. Agree(s, r, n)
  BY DEF Agree
<1>2. /\ VisibleAfter(r, k, n) = VisibleAfter(s, k, n)
      /\ DataAfter(r, k, n) = DataAfter(s, k, n)
  BY <1>1, SamePainting
<1> QED BY <1>2 DEF ShowsVisible, ShowsData

(* Before any task there is nothing to show.                                *)
LEMMA ShowsNothing ==
  ASSUME NEW s, NEW k, NEW m, NEW n, NEW look,
         \A i \in 1 .. m : s[i].key # k, \A i \in 1 .. n : s[i].key # k
  PROVE  /\ ShowsVisible(look, s, k, m) <=> ShowsVisible(look, s, k, n)
         /\ ShowsData(look, s, k, m) <=> ShowsData(look, s, k, n)
<1>1. /\ VisibleAfter(s, k, m) = FALSE /\ VisibleAfter(s, k, n) = FALSE
      /\ DataAfter(s, k, m) = DataAfter(s, k, n)
  BY NothingPainted, VisibleIsBoolean
<1> QED BY <1>1 DEF ShowsVisible, ShowsData

(* A new task, shown on a canvas b that shows the tasks before it: an item  *)
(* it is not about shows what it did, and the one it is about, if the task  *)
(* is run, shows one task more.                                             *)
LEMMA RecordShows ==
  ASSUME PositionInv, NEW c \in Command, NEW sendData \in BOOLEAN, ExecuteTask(c, sendData),
         allowPainters' = allowPainters,
         NEW b \in [Key -> GoodLook], NEW known, canvas' = Shown(b, c, known),
         AddsFit(tasks)', NEW k \in Key, k \in known,
         ShowsVisible(b[k], tasks, k, DisplayedTasks(k))
  PROVE  /\ ShowsVisible(canvas[k], tasks, k, DisplayedTasks(k))'
         /\ ShowsData(b[k], tasks, k, DisplayedTasks(k))
              => ShowsData(canvas[k], tasks, k, DisplayedTasks(k))'
<1> DEFINE N == Len(tasks)
           d == DisplayedTasks(k)
           e == DisplayedTasks(k)'
<1>1. /\ TypeOK /\ currentPlayPos \in -2 .. N - 1
      /\ currentPlayPos = -2 <=> N = 0
  <2>1. TypeOK /\ (tasks = <<>> <=> Len(tasks) = 0)
    BY DEF PositionInv, TypeOK
  <2> QED BY <2>1 DEF PositionInv, PlayPositionInHistory, DEFAULT_INIT_PLAYBACK_POS
<1>2. /\ N \in Nat /\ Len(tasks') = N + 1 /\ Agree(tasks, tasks', N)
      /\ tasks'[N + 1].kind = c.kind /\ tasks'[N + 1].key = c.key
      /\ tasks'[N + 1].prev = c.prev /\ tasks'[N + 1].data = c.data
      /\ currentPlayPos' = IF IsPlaybackMode THEN currentPlayPos ELSE N
  BY <1>1, RecordAgrees
<1>3. canvas'[k] = IF k = c.key /\ ~ Skipped(k) THEN ExecutedLook(b[k], c) ELSE b[k]
  BY ShownOnCanvas
<1>4. /\ d = IF k[1] \in allowPainters THEN currentPlayPos + 1 ELSE 0
      /\ e = IF k[1] \in allowPainters THEN currentPlayPos' + 1 ELSE 0
  BY DEF DisplayedTasks
<1>5. d \in Int /\ d <= N /\ e \in Int
  BY <1>1, <1>2, <1>4
<1> HIDE DEF d, e
<1>6. /\ ShowsVisible(b[k], tasks', k, d)
      /\ ShowsData(b[k], tasks, k, d) => ShowsData(b[k], tasks', k, d)
  BY <1>2, <1>5, ShowsAgree DEF d
<1>7. SUFFICES /\ ShowsVisible(canvas'[k], tasks', k, e)
               /\ ShowsData(b[k], tasks', k, d) => ShowsData(canvas'[k], tasks', k, e)
  BY <1>6 DEF d, e
<1>8. CASE Skipped(k)
  <2>1. canvas'[k] = b[k]
    BY <1>3, <1>8
  <2>2. e = d
    BY <1>2, <1>4, <1>8 DEF Skipped
  <2> QED BY <1>6, <2>1, <2>2
<1>9. CASE ~ Skipped(k)
  <2>1. ~ IsPlaybackMode /\ k[1] \in allowPainters
    BY <1>9 DEF Skipped
  <2>2. e = N + 1 /\ (d = N \/ (d = -1 /\ N = 0))
    BY <1>1, <1>2, <1>4, <2>1 DEF IsPlaybackMode, DEFAULT_INIT_PLAYBACK_POS
  <2>3. /\ ShowsVisible(b[k], tasks', k, N)
        /\ ShowsData(b[k], tasks', k, d) => ShowsData(b[k], tasks', k, N)
    <3>1. CASE d = N
      BY <1>6, <3>1
    <3>2. CASE d = -1 /\ N = 0
      <4>1. 1 .. d = {} /\ 1 .. N = {}
        BY <3>2
      <4> QED BY <1>6, <4>1, ShowsNothing
    <3> QED BY <2>2, <3>1, <3>2
  <2>4. CASE k = c.key
    <3>1. canvas'[k] = ExecutedLook(b[k], c)
      BY <1>3, <1>9, <2>4
    <3>2. AddFits(tasks', N + 1)
      BY <1>2 DEF AddsFit
    <3>3. c.kind \in Kind /\ c.prev \in Data /\ c.data \in Data
      BY DEF Command
    <3>4. /\ ShowsVisible(ExecutedLook(b[k], c), tasks', k, N + 1)
          /\ ShowsData(b[k], tasks', k, N) => ShowsData(ExecutedLook(b[k], c), tasks', k, N + 1)
      BY <1>2, <2>3, <2>4, <3>2, <3>3, ExecuteStep
    <3> QED BY <2>2, <2>3, <3>1, <3>4
  <2>5. CASE k # c.key
    <3>1. canvas'[k] = b[k]
      BY <1>3, <2>5
    <3>2. /\ VisibleAfter(tasks', k, N + 1) = VisibleAfter(tasks', k, N)
          /\ DataAfter(tasks', k, N + 1) = DataAfter(tasks', k, N)
      BY <1>2, <2>5, OtherItem
    <3> QED BY <2>2, <2>3, <3>1, <3>2 DEF ShowsVisible, ShowsData
  <2> QED BY <2>4, <2>5
<1> QED BY <1>8, <1>9

-----------------------------------------------------------------------------
(* Tasks and commands of items that are not known.                          *)

KnownOrMoved(c, known) == c.key \in known \/ c.kind = "move"

OnlyMoved(s, known) == \A i \in 1 .. Len(s) : KnownOrMoved(s[i], known)

StrangersOnlyMoved ==
  /\ OnlyMoved(tasks, items)
  /\ OnlyMoved(commandList, items)
  /\ OnlyMoved(redoCommandList, items)

(* Pushing a command on a stack, and taking the top off.                    *)
LEMMA Pushed ==
  ASSUME NEW s \in Seq(Command), NEW c \in Command
  PROVE  /\ Append(s, c) \in Seq(Command) /\ Len(s) \in Nat
         /\ Len(Append(s, c)) = Len(s) + 1
         /\ \A i \in 1 .. Len(s) : Append(s, c)[i] = s[i]
         /\ Append(s, c)[Len(s) + 1] = c
OBVIOUS

LEMMA Popped ==
  ASSUME NEW s \in Seq(Command), s # <<>>
  PROVE  LET t == SubSeq(s, 1, Len(s) - 1)
         IN  /\ t \in Seq(Command) /\ Len(t) = Len(s) - 1 /\ Len(t) \in Nat
             /\ \A i \in 1 .. Len(t) : t[i] = s[i]
<1> DEFINE n == Len(s) - 1
           t == SubSeq(s, 1, n)
<1>1. n \in Nat /\ \A i \in 1 .. n : s[i] \in Command
  OBVIOUS
<1>2. t \in Seq(Command)
  BY StackTypes
<1> HIDE DEF n
<1>3. /\ Len(t) = IF 1 <= n THEN n - 1 + 1 ELSE 0
      /\ \A i \in 1 .. n - 1 + 1 : t[i] = s[1 + i - 1]
  BY <1>1, SubSeqProperties
<1> HIDE DEF t
<1>4. Len(t) = n
  BY <1>1, <1>3
<1>5. ASSUME NEW i \in 1 .. n PROVE t[i] = s[i]
  <2>1. i \in 1 .. n - 1 + 1 /\ 1 + i - 1 = i
    BY <1>1
  <2> QED BY <1>3, <2>1
<1> QED BY <1>1, <1>2, <1>4, <1>5 DEF n, t

LEMMA OnlyMovedStack ==
  ASSUME NEW s \in Seq(Command), NEW known, NEW more, known \subseteq more, OnlyMoved(s, known)
  PROVE  /\ OnlyMoved(s, more)
         /\ \A c \in Command : KnownOrMoved(c, more) => OnlyMoved(Append(s, c), more)
         /\ s # <<>> => /\ KnownOrMoved(s[Len(s)], known)
                        /\ OnlyMoved(SubSeq(s, 1, Len(s) - 1), more)
<1>1. OnlyMoved(s, more)
  BY DEF OnlyMoved, KnownOrMoved
<1>2. ASSUME NEW c \in Command, KnownOrMoved(c, more) PROVE OnlyMoved(Append(s, c), more)
  <2>1. \A i \in 1 .. Len(s) + 1 : i \in 1 .. Len(s) \/ i = Len(s) + 1
    BY Pushed
  <2> QED BY <1>1, <1>2, <2>1, Pushed DEF OnlyMoved
<1>3. ASSUME s # <<>>
      PROVE  /\ KnownOrMoved(s[Len(s)], known)
             /\ OnlyMoved(SubSeq(s, 1, Len(s) - 1), more)
  <2> DEFINE t == SubSeq(s, 1, Len(s) - 1)
  <2>1. Len(t) = Len(s) - 1 /\ Len(t) \in Nat /\ \A i \in 1 .. Len(t) : t[i] = s[i]
    BY <1>3, Popped
  <2> HIDE DEF t
  <2>2. Len(s) \in 1 .. Len(s) /\ \A i \in 1 .. Len(t) : i \in 1 .. Len(s)
    BY <2>1
  <2> QED BY <1>1, <2>1, <2>2 DEF OnlyMoved, t
<1> QED BY <1>1, <1>2, <1>3

(* What undoes a command is about the same item, and a move if that was.    *)
LEMMA UndoKnownOrMoved ==
  ASSUME NEW c \in Command, NEW known, KnownOrMoved(c, known)
  PROVE  KnownOrMoved(UndoTask(c), known) /\ UndoTask(c).key = c.key
<1>1. UndoTask(c).key = c.key /\ (c.kind = "move" => UndoTask(c).kind = "move")
  BY DEF UndoTask, Command, Kind
<1> QED BY <1>1 DEF KnownOrMoved

LEMMA RecordOnlyMoved ==
  ASSUME TypeOK, OnlyMoved(tasks, items), items \subseteq items',
         NEW c \in Command, NEW sendData \in BOOLEAN, ExecuteTask(c, sendData),
         KnownOrMoved(c, items')
  PROVE  OnlyMoved(tasks', items')
<1> DEFINE N == Len(tasks)
<1>1. /\ N \in Nat /\ Len(tasks') = N + 1 /\ Agree(tasks, tasks', N)
      /\ tasks'[N + 1].kind = c.kind /\ tasks'[N + 1].key = c.key
  BY RecordAgrees
<1>2. \A i \in 1 .. N + 1 : i \in 1 .. N \/ i = N + 1
  BY <1>1
<1>3. ASSUME NEW i \in 1 .. N PROVE KnownOrMoved(tasks'[i], items')
  BY <1>1 DEF Agree, OnlyMoved, KnownOrMoved
<1>4. KnownOrMoved(tasks'[N + 1], items')
  BY <1>1 DEF KnownOrMoved
<1> QED BY <1>1, <1>2, <1>3, <1>4 DEF OnlyMoved

(* Whatever a step of the history does, only moves name unknown items.      *)
LEMMA StrangersStep ==
  ASSUME Stale = FALSE, TypeOK, StrangersOnlyMoved, [Next]_historyVars
  PROVE  StrangersOnlyMoved'
<1>1. /\ commandList \in Seq(Command) /\ redoCommandList \in Seq(Command)
      /\ tasks \in Seq(Task) /\ currentPlayPos \in Int
      /\ OnlyMoved(tasks, items)
      /\ OnlyMoved(commandList, items) /\ OnlyMoved(redoCommandList, items)
  BY DEF TypeOK, StrangersOnlyMoved
<1>2. ASSUME NEW c \in Command, ExecuteCommand(c), KnownOrMoved(c, items'), items \subseteq items'
      PROVE  StrangersOnlyMoved'
  <2>1. OnlyMoved(tasks', items')
    BY <1>1, <1>2, RecordOnlyMoved DEF ExecuteCommand
  <2>2. OnlyMoved(commandList', items')
    BY <1>1, <1>2, OnlyMovedStack DEF ExecuteCommand
  <2>3. OnlyMoved(redoCommandList', items')
    BY <1>2 DEF ExecuteCommand, OnlyMoved
  <2> QED BY <2>1, <2>2, <2>3 DEF StrangersOnlyMoved
<1>3. CASE AddItem
  <2> DEFINE k == <<Me, NextId>>
             c == NewCommand("add", k, NoData, NoData)
  <2>1. k \in Key
    <3>1. Cardinality(items) \in Nat
      BY FiniteKeys, FS_CardinalityType DEF TypeOK
    <3> QED BY <1>3, <3>1, PaintHistoryAssumption DEF AddItem, NextId, Key
  <2>2. c \in Command /\ c.key = k
    BY <2>1, NewCommandType, NoDataType, PaintHistoryAssumption DEF Kind, NewCommand
  <2> QED BY <1>2, <1>3, <2>2 DEF AddItem, KnownOrMoved
<1>4. ASSUME NEW k \in Key, RemoveItem(k) PROVE StrangersOnlyMoved'
  <2> DEFINE c == NewCommand("remove", k, NoData, NoData)
  <2>1. c \in Command /\ c.key = k
    BY NewCommandType, NoDataType, PaintHistoryAssumption DEF Kind, NewCommand
  <2> QED BY <1>2, <1>4, <2>1 DEF RemoveItem, KnownOrMoved
<1>5. ASSUME NEW k \in Key, NEW prev \in Data, NEW data \in Data, UpdateItem(k, prev, data)
      PROVE  StrangersOnlyMoved'
  <2> DEFINE c == NewCommand("update", k, prev, data)
  <2>1. c \in Command /\ c.key = k
    BY NewCommandType DEF Kind, NewCommand
  <2> QED BY <1>2, <1>5, <2>1 DEF UpdateItem, KnownOrMoved
<1>6. ASSUME NEW k \in Key, NEW prev \in Data, NEW data \in Data, MoveItem(k, prev, data)
      PROVE  StrangersOnlyMoved'
  <2> DEFINE c == NewCommand("move", k, prev, data)
  <2>1. c \in Command /\ c.kind = "move"
    BY NewCommandType DEF Kind, NewCommand
  <2> QED BY <1>2, <1>6, <2>1 DEF MoveItem, KnownOrMoved
<1>7. CASE UndoCommand
  <2> DEFINE c == commandList[Len(commandList)]
  <2>1. /\ commandList # <<>> /\ items' = items
        /\ ExecuteTask(UndoTask(c), TRUE)
        /\ redoCommandList' = Append(redoCommandList, c)
        /\ commandList' = SubSeq(commandList, 1, Len(commandList) - 1)
    BY <1>7 DEF UndoCommand
  <2>2. c \in Command /\ UndoTask(c) \in Command
    BY <1>1, <2>1, StackTypes
  <2>3. KnownOrMoved(c, items) /\ OnlyMoved(commandList', items)
    BY <1>1, <2>1, OnlyMovedStack
  <2>4. OnlyMoved(redoCommandList', items)
    BY <1>1, <2>1, <2>2, <2>3, OnlyMovedStack
  <2>5. KnownOrMoved(UndoTask(c), items)
    BY <2>2, <2>3, UndoKnownOrMoved
  <2>6. OnlyMoved(tasks', items')
    BY <1>1, <2>1, <2>2, <2>5, RecordOnlyMoved
  <2> QED BY <2>1, <2>3, <2>4, <2>6 DEF StrangersOnlyMoved
<1>8. CASE RedoCommand
  <2> DEFINE c == redoCommandList[Len(redoCommandList)]
  <2>1. /\ redoCommandList # <<>> /\ items' = items
        /\ ExecuteTask(c, TRUE)
        /\ commandList' = Append(commandList, c)
        /\ redoCommandList' = SubSeq(redoCommandList, 1, Len(redoCommandList) - 1)
    BY <1>8 DEF RedoCommand
  <2>2. c \in Command
    BY <1>1, <2>1, StackTypes
  <2>3. KnownOrMoved(c, items) /\ OnlyMoved(redoCommandList', items)
    BY <1>1, <2>1, OnlyMovedStack
  <2>4. OnlyMoved(commandList', items)
    BY <1>1, <2>1, <2>2, <2>3, OnlyMovedStack
  <2>5. OnlyMoved(tasks', items')
    BY <1>1, <2>1, <2>2, <2>3, RecordOnlyMoved
  <2> QED BY <2>1, <2>3, <2>4, <2>5 DEF StrangersOnlyMoved
<1>9. CASE ClearScreen
  <2>1. tasks' = <<>> /\ commandList' = <<>> /\ redoCommandList' = <<>>
    BY <1>9 DEF ClearScreen, ClearHistoryCommand
  <2>2. Len(<<>>) = 0
    OBVIOUS
  <2> QED BY <2>1, <2>2 DEF StrangersOnlyMoved, OnlyMoved
<1>10. ASSUME NEW from \in Int, NEW to \in Int, NEW who,
              tasks' = RunForward(from, to, who) \/ tasks' = RunBackward(from, to, who),
              UNCHANGED <<items, commandList, redoCommandList>>
       PROVE  StrangersOnlyMoved'
  <2>1. Agree(tasks, tasks', Len(tasks)) /\ Len(tasks') = Len(tasks)
    BY <1>1, <1>10, RunsAgree, RunTasks
  <2>2. OnlyMoved(tasks', items)
    BY <1>1, <2>1 DEF Agree, OnlyMoved, KnownOrMoved
  <2> QED BY <1>1, <1>10, <2>2 DEF StrangersOnlyMoved
<1>11. ASSUME NEW position \in -1 .. Len(tasks) - 1, PlaybackTo(position)
       PROVE  StrangersOnlyMoved'
  <2>1. UNCHANGED <<items, commandList, redoCommandList>>
    BY <1>11 DEF PlaybackTo, stacks
  <2>2. currentPlayPos + 1 \in Int /\ position + 1 \in Int
    BY <1>1
  <2>3. \/ tasks' = RunForward(currentPlayPos + 1, position + 1, allowPainters)
        \/ tasks' = RunBackward(currentPlayPos + 1, position + 1, allowPainters)
    BY <1>11 DEF PlaybackTo
  <2> QED BY <1>10, <2>1, <2>2, <2>3
<1>12. ASSUME NEW u \in Painter, NEW on \in BOOLEAN, SetAllowPainterToDraw(u, on)
       PROVE  StrangersOnlyMoved'
  <2>1. UNCHANGED <<items, commandList, redoCommandList>>
    BY <1>12 DEF SetAllowPainterToDraw, stacks
  <2>2. currentPlayPos + 1 \in Int /\ 0 \in Int
    BY <1>1
  <2>3. \/ tasks' = RunForward(0, currentPlayPos + 1, {u})
        \/ tasks' = RunBackward(currentPlayPos + 1, 0, {u})
    BY <1>12 DEF SetAllowPainterToDraw
  <2> QED BY <1>10, <2>1, <2>2, <2>3
<1>13. ASSUME NEW kind \in PeerKind, NEW k \in Key, NEW prev \in Data, NEW data \in Data,
              PeerTask(kind, k, prev, data)
       PROVE  StrangersOnlyMoved'
  <2> DEFINE c == NewCommand(kind, k, prev, data)
  <2>1. c \in Command /\ c.key = k
    BY NewCommandType, PaintHistoryAssumption DEF NewCommand
  <2>2. /\ ExecuteTask(c, FALSE) /\ k \in items
        /\ UNCHANGED <<items, commandList, redoCommandList>>
    BY <1>13 DEF PeerTask, stacks
  <2>3. KnownOrMoved(c, items)
    BY <2>1, <2>2 DEF KnownOrMoved
  <2> HIDE DEF c
  <2>4. OnlyMoved(tasks', items')
    BY <1>1, <2>1, <2>2, <2>3, RecordOnlyMoved
  <2> QED BY <1>1, <2>2, <2>4 DEF StrangersOnlyMoved
<1>14. ASSUME UNCHANGED <<tasks, commandList, redoCommandList>>, items \subseteq items'
       PROVE  StrangersOnlyMoved'
  BY <1>1, <1>14 DEF StrangersOnlyMoved, OnlyMoved, KnownOrMoved
<1>15. CASE Edit
  BY <1>3, <1>4, <1>5, <1>6, <1>7, <1>8, <1>15 DEF Edit
<1>16. CASE View
  BY <1>9, <1>11, <1>12, <1>16 DEF View
<1>17. CASE Session
  <2>1. \/ \E kind \in PeerKind, k \in Key, prev, data \in Data : PeerTask(kind, k, prev, data)
        \/ UNCHANGED <<tasks, commandList, redoCommandList>> /\ items \subseteq items'
    BY <1>17 DEF Session, PeerCreatesItem, AnnouncePainter, SessionEnables, stacks
  <2> QED BY <1>13, <1>14, <2>1
<1>18. CASE UNCHANGED historyVars
  BY <1>14, <1>18 DEF historyVars, stacks
<1> QED BY <1>15, <1>16, <1>17, <1>18 DEF Next

-----------------------------------------------------------------------------
(* The painting.                                                            *)

UnknownIsHidden == \A k \in Key \ items : canvas[k] = Hidden

(* Where adding and removing fit, each item has its graphic exactly when it *)
(* should be seen, and no other; where edits fit too, it is in its place.   *)
PaintingShown ==
  AddsFit(tasks) => \A k \in items : Shows(canvas[k], k, DisplayedTasks(k))

CanvasInv ==
  /\ CanvasTypes
  /\ StrangersOnlyMoved
  /\ UnknownIsHidden
  /\ PaintingShown

LEMMA CanvasInvFacts ==
  ASSUME CanvasInv
  PROVE  /\ TypeOK /\ PositionInv /\ tasks \in Seq(Task) /\ items \subseteq Key
         /\ canvas \in [Key -> GoodLook] /\ ghosts \subseteq Ghost
         /\ Len(tasks) \in Nat /\ currentPlayPos \in -2 .. Len(tasks) - 1
         /\ tasks # <<>> => currentPlayPos # -2
         /\ \A k : DisplayedTasks(k) \in Int /\ DisplayedTasks(k) <= Len(tasks)
<1>1. /\ TypeOK /\ PositionInv /\ tasks \in Seq(Task) /\ items \subseteq Key
      /\ canvas \in [Key -> GoodLook] /\ ghosts \subseteq Ghost
  BY DEF CanvasInv, CanvasTypes, PositionInv, TypeOK
<1>2. /\ currentPlayPos \in -2 .. Len(tasks) - 1
      /\ tasks # <<>> => currentPlayPos # -2
  BY <1>1 DEF PositionInv, PlayPositionInHistory, DEFAULT_INIT_PLAYBACK_POS
<1>3. Len(tasks) \in Nat
  BY <1>1
<1>4. \A k : DisplayedTasks(k) \in Int /\ DisplayedTasks(k) <= Len(tasks)
  BY <1>2, <1>3 DEF DisplayedTasks
<1> QED BY <1>1, <1>2, <1>3, <1>4

(* An item that is not known looks as the tasks say, which only move it:    *)
(* and if edits fit, not even that.                                         *)
LEMMA HiddenShows ==
  ASSUME NEW s, Len(s) \in Nat, NEW known, OnlyMoved(s, known), NEW k, k \notin known,
         NEW n \in Int, n <= Len(s)
  PROVE  /\ ShowsVisible(Hidden, s, k, n)
         /\ EditsFit(s) => ShowsData(Hidden, s, k, n)
<1>1. \A i \in 1 .. n : i \in 1 .. Len(s)
  OBVIOUS
<1>2. \A i \in 1 .. Len(s) : s[i].key = k => s[i].kind = "move"
  BY DEF OnlyMoved, KnownOrMoved
<1>3. VisibleAfter(s, k, n) = FALSE
  BY <1>1, <1>2, NothingAdded, VisibleIsBoolean
<1>4. Hidden.drawn = FALSE /\ Hidden.graphics = 0 /\ Hidden.data = Fresh
  BY DEF Hidden
<1>5. ShowsVisible(Hidden, s, k, n)
  BY <1>3, <1>4 DEF ShowsVisible
<1>6. ASSUME EditsFit(s) PROVE ShowsData(Hidden, s, k, n)
  <2>1. ASSUME NEW i \in 1 .. Len(s) PROVE s[i].key # k
    <3>1. SUFFICES ASSUME s[i].key = k PROVE FALSE
      OBVIOUS
    <3>2. EditsOf(s, k, {"add"}, i - 1) # {}
      BY <1>2, <1>6, <3>1 DEF EditsFit, EditFits
    <3>3. PICK j \in 1 .. i - 1 : s[j].key = k /\ s[j].kind = "add"
      BY <3>2 DEF EditsOf
    <3>4. j \in 1 .. Len(s)
      OBVIOUS
    <3> QED BY <1>2, <3>3, <3>4
  <2>2. DataAfter(s, k, n) = Fresh
    BY <1>1, <2>1, NothingPainted
  <2> QED BY <1>4, <2>2 DEF ShowsData
<1> QED BY <1>5, <1>6

(* Without a hidden or a replayed part, an update or a move puts its item   *)
(* in its place: an update says all of it, a move where it is.              *)
LEMMA EditShows ==
  ASSUME NEW look \in GoodLook, NEW s, NEW k, NEW n \in Nat,
         NEW t, t.kind = s[n + 1].kind, t.key = s[n + 1].key, t.data = s[n + 1].data,
         t.key = k, t.prev \in Data, t.data \in Data,
         \/ t.kind = "update"
         \/ t.kind = "move" /\ look.data.scale = DataAfter(s, k, n).scale
  PROVE  ShowsData(ExecutedLook(look, t), s, k, n + 1)
<1> DEFINE new == ExecutedLook(look, t)
<1>1. /\ DataAfter(s, k, n + 1).pos =
           IF t.kind \in {"update", "move"} THEN t.data.pos ELSE DataAfter(s, k, n).pos
      /\ DataAfter(s, k, n + 1).scale =
           IF t.kind = "update" THEN t.data.scale ELSE DataAfter(s, k, n).scale
  BY DataStep
<1>2. new.data \in Data
  <2>1. t.kind \in Kind
    BY DEF Kind
  <2> QED BY <2>1, TaskOnLook, LookFields
<1> HIDE DEF new
<1>3. CASE t.kind = "update"
  <2> DEFINE mid == SetData(look, t.data)
  <2>1. mid \in GoodLook /\ mid.data = t.data /\ mid.drawn = look.drawn
    BY SetDataLook
  <2>2. new = Update(mid)
    BY <1>3 DEF new, ExecutedLook
  <2> HIDE DEF mid
  <2>3. /\ new.data = t.data /\ new.drawn = look.drawn
        /\ look.drawn => new.at = t.data.pos
    BY <2>1, <2>2, UpdateLook
  <2>4. new.data = DataAfter(s, k, n + 1)
    BY <1>1, <1>2, <1>3, <2>3, SameData
  <2> QED BY <2>3, <2>4 DEF ShowsData, new
<1>4. CASE t.kind = "move" /\ look.data.scale = DataAfter(s, k, n).scale
  <2>1. t.data.pos \in Place
    BY DataFields
  <2>2. /\ new.data.pos = t.data.pos /\ new.data.scale = look.data.scale
        /\ new.drawn = look.drawn /\ (look.drawn => new.at = t.data.pos)
    BY <1>4, <2>1, MoveLook DEF new, ExecutedLook
  <2>3. new.data = DataAfter(s, k, n + 1)
    BY <1>1, <1>2, <1>4, <2>2, SameData
  <2> QED BY <2>2, <2>3 DEF ShowsData, new
<1> QED BY <1>3, <1>4

(* An item that the mouse can reach is on display, and there at the end of  *)
(* the history.                                                             *)
LEMMA ReachedItem ==
  ASSUME CanvasInv, AddsFit(tasks), enabledPainter, NEW k \in items, canvas[k].graphics > 0
  PROVE  /\ ~ Skipped(k) /\ DisplayedTasks(k) = Len(tasks)
         /\ VisibleAfter(tasks, k, Len(tasks)) = TRUE
<1> DEFINE N == Len(tasks)
           d == DisplayedTasks(k)
<1>1. ShowsVisible(canvas[k], tasks, k, d)
  BY DEF CanvasInv, PaintingShown, Shows
<1>2. VisibleAfter(tasks, k, d) = TRUE
  <2>1. canvas[k].drawn # FALSE
    <3>1. canvas[k].drawn = FALSE => canvas[k].graphics = 0
      BY <1>1 DEF ShowsVisible
    <3>2. ~ (0 > 0)
      OBVIOUS
    <3>3. SUFFICES ASSUME canvas[k].drawn = FALSE PROVE FALSE
      OBVIOUS
    <3>4. canvas[k].graphics = 0
      BY <3>1, <3>3
    <3> QED BY <3>2, <3>4, Zenon
  <2> QED BY <1>1, <2>1, VisibleIsBoolean DEF ShowsVisible
<1>3. d \in Int /\ ~ (d <= 0)
  <2>1. d \in Int
    BY CanvasInvFacts
  <2> HIDE DEF d
  <2>2. SUFFICES ASSUME d <= 0 PROVE FALSE
    BY <2>1
  <2>3. 1 .. d = {}
    BY <2>1, <2>2
  <2> QED BY <1>2, <2>3, NothingPainted
<1>4. k[1] \in allowPainters /\ d = currentPlayPos + 1
  BY <1>3 DEF DisplayedTasks
<1>5. ~ IsPlaybackMode
  BY CanvasInvFacts DEF PositionInv, FrozenWhilePlaying
<1>6. currentPlayPos = N - 1
  BY <1>3, <1>4, <1>5 DEF IsPlaybackMode, DEFAULT_INIT_PLAYBACK_POS
<1>7. d = N
  BY <1>4, <1>6, CanvasInvFacts
<1> QED BY <1>2, <1>4, <1>5, <1>7 DEF Skipped

(* The user's own update or move of an item that has a graphic: the scene   *)
(* changed the item before the task was made (canvas b), and the window is  *)
(* not frozen, so that the task is run.                                     *)
LEMMA OwnEditShows ==
  ASSUME CanvasInv, enabledPainter, NEW c \in Command, ExecuteTask(c, TRUE),
         allowPainters' = allowPainters, c.key \in items,
         NEW b \in [Key -> GoodLook], canvas' = Shown(b, c, items),
         b[c.key].drawn = canvas[c.key].drawn,
         b[c.key].graphics = canvas[c.key].graphics,
         canvas[c.key].graphics > 0, AddsFit(tasks)',
         \/ c.kind = "update"
         \/ c.kind = "move" /\ b[c.key].data.scale = canvas[c.key].data.scale
  PROVE  Shows(canvas[c.key], c.key, DisplayedTasks(c.key))'
<1> DEFINE k == c.key
           N == Len(tasks)
           d == DisplayedTasks(k)
<1>1. k \in items /\ k \in Key /\ canvas[k] \in GoodLook /\ b[k] \in GoodLook
  BY CanvasInvFacts
<1>2. /\ N \in Nat /\ Len(tasks') = N + 1 /\ Agree(tasks, tasks', N)
      /\ tasks'[N + 1].kind = c.kind /\ tasks'[N + 1].key = c.key
      /\ tasks'[N + 1].prev = c.prev /\ tasks'[N + 1].data = c.data
      /\ currentPlayPos' = IF IsPlaybackMode THEN currentPlayPos ELSE N
  BY CanvasInvFacts, RecordAgrees
<1>3. AddsFit(tasks) /\ (EditsFit(tasks') => EditsFit(tasks))
  BY <1>2, FitsAgree
<1>4. ShowsVisible(canvas[k], tasks, k, d) /\ (EditsFit(tasks) => ShowsData(canvas[k], tasks, k, d))
  BY <1>1, <1>3 DEF CanvasInv, PaintingShown, Shows
<1>5. ShowsVisible(b[k], tasks, k, d)
  BY <1>4 DEF ShowsVisible
<1>6. ~ Skipped(k) /\ d = N
  BY <1>1, <1>3, ReachedItem
<1>7. ShowsVisible(canvas[k], tasks, k, DisplayedTasks(k))'
  BY <1>1, <1>5, CanvasInvFacts, RecordShows
<1>8. DisplayedTasks(k)' = N + 1
  BY <1>2, <1>6 DEF Skipped, DisplayedTasks
<1>9. ASSUME EditsFit(tasks') PROVE ShowsData(canvas'[k], tasks', k, N + 1)
  <2>1. canvas'[k] = ExecutedLook(b[k], c)
    BY <1>1, <1>6, ShownOnCanvas
  <2>2. c.prev \in Data /\ c.data \in Data
    BY DEF Command
  <2>3. c.kind = "move" => b[k].data.scale = DataAfter(tasks', k, N).scale
    <3>1. canvas[k].data = DataAfter(tasks, k, d)
      BY <1>3, <1>4, <1>9 DEF ShowsData
    <3>2. DataAfter(tasks', k, N) = DataAfter(tasks, k, N)
      BY <1>2, SamePainting
    <3> QED BY <1>6, <3>1, <3>2
  <2> HIDE DEF N
  <2>4. ShowsData(ExecutedLook(b[k], c), tasks', k, N + 1)
    BY <1>1, <1>2, <2>2, <2>3, EditShows
  <2> QED BY <2>1, <2>4
<1> QED BY <1>7, <1>8, <1>9 DEF Shows

(* A task is recorded and shown on canvas b, which is as the canvas was but *)
(* for the item of the task: the other items show what they should.         *)
LEMMA RecordedShows ==
  ASSUME CanvasInv, NEW c \in Command, NEW sendData \in BOOLEAN, ExecuteTask(c, sendData),
         allowPainters' = allowPainters, items \subseteq items', items' \subseteq items \cup {c.key},
         NEW b \in [Key -> GoodLook], canvas' = Shown(b, c, items'),
         \A k \in Key : k # c.key => b[k] = canvas[k],
         \/ b[c.key] = canvas[c.key]
         \/ c.key \in items
            /\ (AddsFit(tasks)' => Shows(canvas[c.key], c.key, DisplayedTasks(c.key))')
  PROVE  UnknownIsHidden' /\ PaintingShown'
<1>1. ASSUME NEW k \in Key \ items' PROVE canvas'[k] = Hidden
  <2>1. canvas'[k] = b[k]
    BY ShownOnCanvas
  <2>2. b[k] = canvas[k]
    OBVIOUS
  <2> QED BY <2>1, <2>2 DEF CanvasInv, UnknownIsHidden
<1>2. ASSUME AddsFit(tasks)', NEW k \in items'
      PROVE  Shows(canvas[k], k, DisplayedTasks(k))'
  <2>1. CASE b[k] = canvas[k]
    <3>1. /\ Len(tasks) \in Nat /\ Len(tasks') = Len(tasks) + 1
          /\ Agree(tasks, tasks', Len(tasks))
      BY CanvasInvFacts, RecordAgrees
    <3>2. AddsFit(tasks) /\ (EditsFit(tasks') => EditsFit(tasks))
      BY <1>2, <3>1, FitsAgree
    <3>3. k \in Key
      BY CanvasInvFacts DEF Command
    <3>4. /\ ShowsVisible(b[k], tasks, k, DisplayedTasks(k))
          /\ EditsFit(tasks) => ShowsData(b[k], tasks, k, DisplayedTasks(k))
      <4>1. CASE k \in items
        BY <2>1, <3>2, <4>1 DEF CanvasInv, PaintingShown, Shows
      <4>2. CASE k \notin items
        <5>1. b[k] = Hidden
          BY <2>1, <3>3, <4>2 DEF CanvasInv, UnknownIsHidden
        <5>2. OnlyMoved(tasks, items)
          BY DEF CanvasInv, StrangersOnlyMoved
        <5> QED BY <4>2, <5>1, <5>2, CanvasInvFacts, HiddenShows
      <4> QED BY <4>1, <4>2
    <3>5. /\ ShowsVisible(canvas[k], tasks, k, DisplayedTasks(k))'
          /\ ShowsData(b[k], tasks, k, DisplayedTasks(k))
               => ShowsData(canvas[k], tasks, k, DisplayedTasks(k))'
      BY <1>2, <3>3, <3>4, CanvasInvFacts, RecordShows
    <3> QED BY <3>2, <3>4, <3>5 DEF Shows
  <2>2. CASE b[k] # canvas[k]
    <3>1. k \in Key
      BY CanvasInvFacts DEF Command
    <3>2. k = c.key
      BY <2>2, <3>1
    <3> QED BY <1>2, <2>2, <3>2
  <2> QED BY <2>1, <2>2
<1>3. UnknownIsHidden'
  BY <1>1 DEF UnknownIsHidden
<1>4. PaintingShown'
  BY <1>2 DEF PaintingShown
<1> QED BY <1>3, <1>4

(* A loop over the tasks of who leaves the canvas as it should be at i.     *)
LEMMA LoopedShows ==
  ASSUME CanvasInv, items' = items,
         Len(tasks') = Len(tasks), Agree(tasks, tasks', Len(tasks)),
         NEW i \in Int, i <= Len(tasks), NEW who, canvas' \in LoopCanvas(i, who),
         \A k \in items : DisplayedTasks(k)' = IF k[1] \in who THEN i ELSE DisplayedTasks(k)
  PROVE  UnknownIsHidden' /\ PaintingShown'
<1>1. ASSUME NEW k \in Key \ items' PROVE canvas'[k] = Hidden
  BY DEF CanvasInv, UnknownIsHidden, LoopCanvas
<1>2. ASSUME AddsFit(tasks)', NEW k \in items'
      PROVE  Shows(canvas[k], k, DisplayedTasks(k))'
  <2>1. AddsFit(tasks) /\ (EditsFit(tasks') => EditsFit(tasks))
    BY <1>2, CanvasInvFacts, FitsAgree
  <2>2. k \in Key /\ k \in items
    BY CanvasInvFacts
  <2> DEFINE n == IF k[1] \in who THEN i ELSE DisplayedTasks(k)
  <2>3. n \in Int /\ n <= Len(tasks) /\ DisplayedTasks(k)' = n
    BY <2>2, CanvasInvFacts
  <2>4. Shows(canvas'[k], k, n)
    <3>1. CASE k[1] \in who
      BY <2>1, <2>2, <3>1 DEF LoopCanvas
    <3>2. CASE k[1] \notin who
      BY <2>1, <2>2, <3>2 DEF LoopCanvas, CanvasInv, PaintingShown
    <3> QED BY <3>1, <3>2
  <2> HIDE DEF n
  <2>5. /\ ShowsVisible(canvas'[k], tasks', k, n)
        /\ EditsFit(tasks') => ShowsData(canvas'[k], tasks', k, n)
    BY <2>1, <2>3, <2>4, CanvasInvFacts, ShowsAgree DEF Shows
  <2> QED BY <2>3, <2>5 DEF Shows
<1>3. UnknownIsHidden'
  BY <1>1 DEF UnknownIsHidden
<1>4. PaintingShown'
  BY <1>2 DEF PaintingShown
<1> QED BY <1>3, <1>4

(* Nothing is recorded, and of each item nothing changes but where a        *)
(* graphic is that the mouse holds.                                         *)
LEMMA UntouchedShows ==
  ASSUME CanvasInv, UNCHANGED <<items, tasks>>,
         \A k \in items : DisplayedTasks(k)' = DisplayedTasks(k),
         \A k \in Key \ items : canvas'[k] = canvas[k],
         \A k \in items :
           \/ canvas'[k] = canvas[k]
           \/ /\ canvas'[k].data = canvas[k].data /\ canvas'[k].drawn = canvas[k].drawn
              /\ canvas'[k].graphics = canvas[k].graphics
              /\ canvas'[k].moving = TRUE \/ ~ canvas'[k].drawn
  PROVE  UnknownIsHidden' /\ PaintingShown'
<1>1. UnknownIsHidden'
  BY DEF CanvasInv, UnknownIsHidden
<1>2. ASSUME AddsFit(tasks), NEW k \in items
      PROVE  Shows(canvas'[k], k, DisplayedTasks(k))
  <2>1. Shows(canvas[k], k, DisplayedTasks(k))
    BY <1>2 DEF CanvasInv, PaintingShown
  <2> QED BY <2>1 DEF Shows, ShowsVisible, ShowsData
<1>3. PaintingShown'
  BY <1>2 DEF PaintingShown, Shows
<1> QED BY <1>1, <1>3

(* The slider.                                                              *)
LEMMA PlaybackShows ==
  ASSUME CanvasInv, NEW position \in -1 .. Len(tasks) - 1, PlaybackOnCanvas(position)
  PROVE  UnknownIsHidden' /\ PaintingShown'
<1> DEFINE from == currentPlayPos + 1
           to == position + 1
<1>1. /\ tasks # <<>> /\ position # currentPlayPos /\ currentPlayPos' = position
      /\ UNCHANGED <<items, allowPainters>>
      /\ currentPlayPos < position =>
           /\ tasks' = RunForward(from, to, allowPainters)
           /\ canvas' = Forward(from, to, allowPainters)
      /\ ~ (currentPlayPos < position) =>
           /\ tasks' = RunBackward(from, to, allowPainters)
           /\ canvas' = Backward(from, to, allowPainters)
  BY DEF PlaybackOnCanvas, PlaybackTo, Paint
<1>2. /\ from \in Nat /\ to \in Nat /\ from <= Len(tasks) /\ to <= Len(tasks)
      /\ (currentPlayPos < position <=> from < to)
      /\ (~ (currentPlayPos < position) => to < from)
  BY <1>1, CanvasInvFacts
<1>3. \A k : /\ DisplayedTasks(k) = IF k[1] \in allowPainters THEN from ELSE 0
             /\ DisplayedTasks(k)' = IF k[1] \in allowPainters THEN to ELSE 0
  BY <1>1 DEF DisplayedTasks
<1> HIDE DEF from, to
<1>4. AddsFit(tasks) => \A k \in items : k[1] \in allowPainters => Shows(canvas[k], k, from)
  BY <1>3 DEF CanvasInv, PaintingShown
<1>5. Len(tasks') = Len(tasks) /\ Agree(tasks, tasks', Len(tasks))
  BY <1>1, <1>2, CanvasInvFacts, RunsAgree, RunTasks
<1>6. canvas' \in LoopCanvas(to, allowPainters)
  <2>1. CASE currentPlayPos < position
    BY <1>1, <1>2, <1>4, <2>1, CanvasInvFacts, ForwardShows
  <2>2. CASE ~ (currentPlayPos < position)
    BY <1>1, <1>2, <1>4, <2>2, CanvasInvFacts, BackwardShows
  <2> QED BY <2>1, <2>2
<1>7. \A k \in items :
        DisplayedTasks(k)' = IF k[1] \in allowPainters THEN to ELSE DisplayedTasks(k)
  BY <1>3
<1> QED BY <1>1, <1>2, <1>5, <1>6, <1>7, LoopedShows

(* The check box of a painter.                                              *)
LEMMA FilterShows ==
  ASSUME CanvasInv, NEW u \in Painter, NEW on \in BOOLEAN, FilterOnCanvas(u, on)
  PROVE  UnknownIsHidden' /\ PaintingShown'
<1> DEFINE p == currentPlayPos + 1
           i == IF on THEN p ELSE 0
<1>1. /\ on <=> u \notin allowPainters
      /\ UNCHANGED <<items, currentPlayPos>>
      /\ on => /\ allowPainters' = allowPainters \cup {u}
               /\ tasks' = RunForward(0, p, {u})
               /\ canvas' = Forward(0, p, {u})
      /\ ~ on => /\ allowPainters' = allowPainters \ {u}
                 /\ tasks' = RunBackward(p, 0, {u})
                 /\ canvas' = Backward(p, 0, {u})
  BY DEF FilterOnCanvas, SetAllowPainterToDraw, Paint
<1>2. p \in Int /\ p <= Len(tasks) /\ Len(tasks) \in Nat /\ i \in Int /\ i <= Len(tasks)
  BY CanvasInvFacts
<1>3. \A k : DisplayedTasks(k) = IF k[1] \in allowPainters THEN p ELSE 0
  BY DEF DisplayedTasks
<1>4. \A k : DisplayedTasks(k)' = IF k[1] \in allowPainters' THEN p ELSE 0
  BY <1>1 DEF DisplayedTasks
<1> HIDE DEF p
<1>5. Len(tasks') = Len(tasks) /\ Agree(tasks, tasks', Len(tasks))
  BY <1>1, <1>2, CanvasInvFacts, RunsAgree, RunTasks
<1>6. \A k \in items : DisplayedTasks(k)' = IF k[1] \in {u} THEN i ELSE DisplayedTasks(k)
  BY <1>1, <1>3, <1>4
<1>7. canvas' \in LoopCanvas(i, {u})
  <2>1. ASSUME AddsFit(tasks), NEW k \in items, k[1] \in {u}
        PROVE  Shows(canvas[k], k, IF on THEN 0 ELSE p)
    BY <1>1, <1>3, <2>1 DEF CanvasInv, PaintingShown
  <2>2. CASE p <= 0
    <3>1. Forward(0, p, {u}) = canvas /\ Backward(p, 0, {u}) = canvas
      BY <1>2, <2>2 DEF Forward, Backward
    <3>2. canvas' = canvas
      BY <1>1, <3>1
    <3>3. 1 .. p = {} /\ 1 .. 0 = {}
      BY <1>2, <2>2
    <3>4. ASSUME AddsFit(tasks), NEW k \in items, k[1] \in {u} PROVE Shows(canvas[k], k, i)
      BY <2>1, <3>3, <3>4, ShowsNothing DEF Shows
    <3> HIDE DEF i
    <3> QED BY <3>2, <3>4, CanvasInvFacts DEF LoopCanvas
  <2>3. CASE 0 < p
    <3>1. CASE on
      BY <1>1, <1>2, <2>1, <2>3, <3>1, CanvasInvFacts, ForwardShows
    <3>2. CASE ~ on
      BY <1>1, <1>2, <2>1, <2>3, <3>2, CanvasInvFacts, BackwardShows
    <3> QED BY <3>1, <3>2
  <2> QED BY <1>2, <2>2, <2>3
<1> HIDE DEF i
<1> QED BY <1>1, <1>2, <1>5, <1>6, <1>7, LoopedShows

(* The mouse wheel and the release of the mouse.                            *)
LEMMA ScaleShows ==
  ASSUME CanvasInv, NEW k \in Key, NEW z \in Scale, ScaleOnCanvas(k, z)
  PROVE  UnknownIsHidden' /\ PaintingShown'
<1>1. CanReach(k)
  BY CanvasInvFacts, ScaleFacts
<1>2. PICK b \in [Key -> GoodLook], prev \in Data, data \in Data : Scaled(k, z, b, prev, data)
  BY CanvasInvFacts, ScaleFacts
<1> DEFINE c == NewCommand("update", k, prev, data)
<1>3. c \in Command /\ c.kind = "update" /\ c.key = k
  BY NewCommandType DEF Kind, NewCommand
<1>4. /\ ExecuteTask(c, TRUE) /\ canvas' = Shown(b, c, items)
      /\ UNCHANGED <<items, allowPainters>> /\ k \in items /\ enabledPainter
      /\ canvas[k].graphics > 0
  BY <1>1, <1>2 DEF Scaled, UpdateItem, ExecuteCommand, CanReach, CanTouch
<1>5. /\ \A j \in Key : j # k => b[j] = canvas[j]
      /\ b[k].drawn = canvas[k].drawn /\ b[k].graphics = canvas[k].graphics
  BY <1>2 DEF Scaled
<1> HIDE DEF c
<1>6. AddsFit(tasks)' => Shows(canvas[c.key], c.key, DisplayedTasks(c.key))'
  BY <1>3, <1>4, <1>5, OwnEditShows
<1> QED BY <1>3, <1>4, <1>5, <1>6, RecordedShows

LEMMA ReleaseShows ==
  ASSUME CanvasInv, NEW k \in Key, Release(k)
  PROVE  UnknownIsHidden' /\ PaintingShown'
<1>1. /\ canvas[k].moving
      /\ \/ /\ canvas[k].drawn
            /\ \E b \in [Key -> GoodLook], prev, data \in Data : Released(k, b, prev, data)
         \/ /\ ~ canvas[k].drawn /\ canvas' \in [Key -> GoodLook] /\ LetGo(k)
  BY CanvasInvFacts, ReleaseFacts
<1>2. k \in items
  BY <1>1, HiddenLook DEF CanvasInv, UnknownIsHidden
<1>3. ASSUME canvas[k].drawn, NEW b \in [Key -> GoodLook], NEW prev \in Data, NEW data \in Data,
             Released(k, b, prev, data)
      PROVE  UnknownIsHidden' /\ PaintingShown'
  <2> DEFINE c == NewCommand("move", k, prev, data)
  <2>1. c \in Command /\ c.kind = "move" /\ c.key = k
    BY NewCommandType DEF Kind, NewCommand
  <2>2. /\ ExecuteTask(c, TRUE) /\ canvas' = Shown(b, c, items)
        /\ UNCHANGED <<items, allowPainters>> /\ enabledPainter
    BY <1>3 DEF Released, MoveItem, ExecuteCommand, CanTouch
  <2>3. /\ \A j \in Key : j # k => b[j] = canvas[j]
        /\ b[k].drawn = canvas[k].drawn /\ b[k].graphics = canvas[k].graphics
        /\ b[k].data.scale = canvas[k].data.scale
    BY <1>3 DEF Released
  <2>4. canvas[k].graphics > 0
    BY <1>3, CanvasInvFacts, LookFields
  <2> HIDE DEF c
  <2>5. AddsFit(tasks)' => Shows(canvas[c.key], c.key, DisplayedTasks(c.key))'
    BY <1>2, <2>1, <2>2, <2>3, <2>4, OwnEditShows
  <2> QED BY <1>2, <2>1, <2>2, <2>3, <2>5, RecordedShows
<1>4. CASE ~ canvas[k].drawn /\ LetGo(k)
  <2>1. UNCHANGED <<items, tasks, allowPainters, currentPlayPos>>
    BY <1>4 DEF LetGo, historyVars
  <2>2. \A j \in items : DisplayedTasks(j)' = DisplayedTasks(j)
    BY <2>1 DEF DisplayedTasks
  <2>3. \A j \in Key \ items : canvas'[j] = canvas[j]
    BY <1>2, <1>4 DEF LetGo
  <2>4. \A j \in items :
          \/ canvas'[j] = canvas[j]
          \/ /\ canvas'[j].data = canvas[j].data /\ canvas'[j].drawn = canvas[j].drawn
             /\ canvas'[j].graphics = canvas[j].graphics
             /\ canvas'[j].moving = TRUE \/ ~ canvas'[j].drawn
    BY <1>4, CanvasInvFacts DEF LetGo
  <2> QED BY <2>1, <2>2, <2>3, <2>4, UntouchedShows
<1> QED BY <1>1, <1>3, <1>4

LEMMA DragShows ==
  ASSUME CanvasInv, NEW k \in Key, NEW p \in Place, Drag(k, p)
  PROVE  UnknownIsHidden' /\ PaintingShown'
<1>1. /\ CanReach(k) /\ UNCHANGED <<historyVars, ghosts>>
      /\ \A j \in Key : j # k => canvas'[j] = canvas[j]
      /\ canvas'[k].data = canvas[k].data /\ canvas'[k].drawn = canvas[k].drawn
      /\ canvas'[k].graphics = canvas[k].graphics /\ canvas'[k].moving = TRUE
  BY CanvasInvFacts, DragFacts
<1>2. UNCHANGED <<items, tasks, allowPainters, currentPlayPos>> /\ k \in items
  BY <1>1 DEF historyVars, CanReach
<1>3. \A j \in items : DisplayedTasks(j)' = DisplayedTasks(j)
  BY <1>2 DEF DisplayedTasks
<1>4. \A j \in Key \ items : canvas'[j] = canvas[j]
  BY <1>1, <1>2
<1>5. \A j \in items :
        \/ canvas'[j] = canvas[j]
        \/ /\ canvas'[j].data = canvas[j].data /\ canvas'[j].drawn = canvas[j].drawn
           /\ canvas'[j].graphics = canvas[j].graphics
           /\ canvas'[j].moving = TRUE \/ ~ canvas'[j].drawn
  BY <1>1, CanvasInvFacts
<1> QED BY <1>2, <1>3, <1>4, <1>5, UntouchedShows

(* What a peer brings beside tasks: an item that he created, a painter who  *)
(* joins, of whom there is no task yet.                                     *)
LEMMA CreatedShows ==
  ASSUME CanvasInv, NEW k \in Key, PeerCreatesItem(k), canvas' = canvas
  PROVE  UnknownIsHidden' /\ PaintingShown'
<1>1. /\ k \notin items /\ items' = items \cup {k}
      /\ UNCHANGED <<tasks, currentPlayPos, allowPainters>>
  BY DEF PeerCreatesItem
<1>2. \A j : DisplayedTasks(j)' = DisplayedTasks(j)
  BY <1>1 DEF DisplayedTasks
<1>3. Shows(canvas[k], k, DisplayedTasks(k))
  <2>1. canvas[k] = Hidden /\ OnlyMoved(tasks, items)
    BY <1>1 DEF CanvasInv, UnknownIsHidden, StrangersOnlyMoved
  <2> QED BY <1>1, <2>1, CanvasInvFacts, HiddenShows DEF Shows
<1>4. UnknownIsHidden'
  BY <1>1 DEF CanvasInv, UnknownIsHidden
<1>5. ASSUME AddsFit(tasks), NEW j \in items' PROVE Shows(canvas[j], j, DisplayedTasks(j))
  BY <1>1, <1>3, <1>5 DEF CanvasInv, PaintingShown
<1>6. PaintingShown'
  BY <1>1, <1>2, <1>5 DEF PaintingShown, Shows
<1> QED BY <1>4, <1>6

LEMMA AnnouncedShows ==
  ASSUME LateAnnounce = FALSE, CanvasInv, NEW u \in Painter, AnnouncePainter(u),
         canvas' = canvas
  PROVE  UnknownIsHidden' /\ PaintingShown'
<1>1. /\ \A i \in 1 .. Len(tasks) : tasks[i].key[1] # u
      /\ allowPainters' = allowPainters \cup {u}
      /\ UNCHANGED <<items, tasks, currentPlayPos>>
  BY DEF AnnouncePainter
<1>2. \A k : k[1] # u => DisplayedTasks(k)' = DisplayedTasks(k)
  BY <1>1 DEF DisplayedTasks
<1>3. \A k : DisplayedTasks(k)' \in Int /\ DisplayedTasks(k)' <= Len(tasks)
  BY <1>1, CanvasInvFacts DEF DisplayedTasks
<1>4. ASSUME AddsFit(tasks), NEW k \in items
      PROVE  Shows(canvas[k], k, DisplayedTasks(k)')
  <2>1. Shows(canvas[k], k, DisplayedTasks(k))
    BY <1>4 DEF CanvasInv, PaintingShown
  <2>2. CASE k[1] # u
    BY <1>2, <2>1, <2>2
  <2>3. CASE k[1] = u
    <3> DEFINE m == DisplayedTasks(k)
               n == DisplayedTasks(k)'
    <3>1. m \in Int /\ m <= Len(tasks) /\ n \in Int /\ n <= Len(tasks) /\ Len(tasks) \in Nat
      BY <1>3, CanvasInvFacts
    <3> HIDE DEF m, n
    <3>2. \A i \in 1 .. m : i \in 1 .. Len(tasks)
      BY <3>1
    <3>3. \A i \in 1 .. n : i \in 1 .. Len(tasks)
      BY <3>1
    <3>4. /\ \A i \in 1 .. m : tasks[i].key # k
          /\ \A i \in 1 .. n : tasks[i].key # k
      BY <1>1, <2>3, <3>2, <3>3
    <3>5. Shows(canvas[k], k, m)
      BY <2>1 DEF m
    <3>6. Shows(canvas[k], k, n)
      BY <3>4, <3>5, ShowsNothing DEF Shows
    <3> QED BY <3>6 DEF n
  <2> QED BY <2>2, <2>3
<1>5. UnknownIsHidden'
  BY <1>1 DEF CanvasInv, UnknownIsHidden
<1>6. PaintingShown'
  BY <1>1, <1>4 DEF PaintingShown, Shows
<1> QED BY <1>5, <1>6

LEMMA PaintingStep ==
  ASSUME Stale = FALSE, LateAnnounce = FALSE, CanvasInv, [CanvasNext]_vars
  PROVE  UnknownIsHidden' /\ PaintingShown'
<1>1. ASSUME NEW c \in Command, NEW sendData \in BOOLEAN, Plain(c, sendData)
      PROVE  UnknownIsHidden' /\ PaintingShown'
  BY <1>1, CanvasInvFacts, RecordedShows DEF Plain
<1>2. CASE AddOnCanvas
  <2>1. PICK c \in Command :
          /\ ExecuteTask(c, TRUE) /\ items' = items \cup {c.key}
          /\ canvas' = Shown(canvas, c, items') /\ allowPainters' = allowPainters
    BY <1>2, CanvasInvFacts, AddFacts
  <2> QED BY <2>1, CanvasInvFacts, RecordedShows
<1>3. CASE ClearCanvas
  <2>1. /\ items' = {} /\ canvas' = [k \in Key |-> Hidden]
    BY <1>3 DEF ClearCanvas, ClearScreen
  <2> QED BY <2>1 DEF UnknownIsHidden, PaintingShown
<1>4. CASE UNCHANGED <<items, tasks, currentPlayPos, allowPainters, canvas>>
  <2>1. \A k : DisplayedTasks(k)' = DisplayedTasks(k)
    BY <1>4 DEF DisplayedTasks
  <2> QED BY <1>4, <2>1, UntouchedShows
<1>5. CASE CanvasEdit
  BY <1>1, <1>2, <1>5, CanvasInvFacts, PlainFacts, ScaleShows, ReleaseShows, DragShows
     DEF CanvasEdit
<1>6. CASE CanvasView
  BY <1>3, <1>6, PlaybackShows, FilterShows DEF CanvasView
<1>7. CASE CanvasSession
  <2>1. CASE \E k \in Key : PeerCreatesItem(k) /\ UNCHANGED <<canvas, ghosts>>
    BY <2>1, CreatedShows
  <2>2. CASE \E kind \in PeerKind, k \in Key, prev, data \in Data :
               PeerTaskOnCanvas(kind, k, prev, data)
    BY <1>1, <2>2, CanvasInvFacts, PlainFacts
  <2>3. CASE \E u \in Painter : AnnouncePainter(u) /\ UNCHANGED <<canvas, ghosts>>
    BY <2>3, AnnouncedShows
  <2>4. CASE \E on \in BOOLEAN : SessionEnables(on) /\ UNCHANGED <<canvas, ghosts>>
    BY <1>4, <2>4 DEF SessionEnables
  <2> QED BY <1>7, <2>1, <2>2, <2>3, <2>4 DEF CanvasSession
<1>8. CASE UNCHANGED vars
  BY <1>4, <1>8 DEF vars, historyVars
<1> QED BY <1>5, <1>6, <1>7, <1>8 DEF CanvasNext

LEMMA CanvasInvInit == CanvasInit => CanvasInv
<1> SUFFICES ASSUME CanvasInit PROVE CanvasInv
  OBVIOUS
<1>1. /\ items = {} /\ tasks = <<>> /\ commandList = <<>> /\ redoCommandList = <<>>
      /\ canvas = [k \in Key |-> Hidden]
  BY DEF CanvasInit, Init
<1>2. StrangersOnlyMoved
  <2>1. Len(<<>>) = 0
    OBVIOUS
  <2> QED BY <1>1, <2>1 DEF StrangersOnlyMoved, OnlyMoved
<1>3. UnknownIsHidden /\ PaintingShown
  BY <1>1 DEF UnknownIsHidden, PaintingShown
<1> QED BY <1>2, <1>3, CanvasTypeInit DEF CanvasInv

LEMMA CanvasInvStep ==
  ASSUME Stale = FALSE, LateAnnounce = FALSE, CanvasInv, [CanvasNext]_vars
  PROVE  CanvasInv'
<1>1. CanvasTypes'
  BY CanvasTypeStep DEF CanvasInv
<1>2. StrangersOnlyMoved'
  BY CanvasInvFacts, CanvasIsHistory, StrangersStep DEF CanvasInv
<1>3. UnknownIsHidden' /\ PaintingShown'
  BY PaintingStep
<1> QED BY <1>1, <1>2, <1>3 DEF CanvasInv

(* Whatever the user and his peers draw, remove, scale and move, and        *)
(* however the slider and the check boxes of the painters are used: when    *)
(* the history is consistent the canvas shows the painting of its tasks up  *)
(* to the play position, of the painters that are not hidden.  Peers' tasks *)
(* are taken to name known items, and painters to be announced before their *)
(* tasks come; without either TLC finds the canvas wrong.                   *)
THEOREM PlaybackTheorem ==
  ASSUME Stale = FALSE, LateAnnounce = FALSE
  PROVE  CanvasSpec => []PlaybackShowsPrefix
<1>1. CanvasInv => PlaybackShowsPrefix
  <2> SUFFICES ASSUME CanvasInv, Consistent, NEW k \in items
               PROVE  LET look == canvas[k]
                          n == DisplayedTasks(k)
                      IN  /\ look.drawn = VisibleAfter(tasks, k, n)
                          /\ look.data = DataAfter(tasks, k, n)
                          /\ look.drawn /\ ~look.moving => look.at = look.data.pos
    BY DEF PlaybackShowsPrefix, ShowsPrefix
  <2>1. AddsFit(tasks) /\ EditsFit(tasks)
    BY ConsistentParts
  <2>2. Shows(canvas[k], k, DisplayedTasks(k))
    BY <2>1 DEF CanvasInv, PaintingShown
  <2> QED BY <2>1, <2>2 DEF Shows, ShowsVisible, ShowsData
<1> QED BY <1>1, CanvasInvInit, CanvasInvStep, PTL DEF CanvasSpec

-----------------------------------------------------------------------------
(* The plan: what is on the undo stack, and above it what could be redone.  *)

Planned ==
  [i \in 1 .. Len(commandList) + Len(redoCommandList) |->
     IF i <= Len(commandList) THEN commandList[i]
     ELSE redoCommandList[Len(commandList) + Len(redoCommandList) + 1 - i]]

(* Adding and removing fit in the history and in the plan, and the history  *)
(* has come to where the undo stack ends.                                   *)
PlanFits ==
  /\ AddsFit(tasks)
  /\ \A i \in 1 .. Len(commandList) + Len(redoCommandList) : AddFits(Planned, i)
  /\ \A k \in Key :
       VisibleAfter(tasks, k, Len(tasks)) = VisibleAfter(commandList, k, Len(commandList))

(* What a task does to who is there at the end of a history s, of which r   *)
(* is s with the task.                                                      *)
LEMMA GrownVisible ==
  ASSUME NEW s, NEW r, NEW n \in Nat, Agree(s, r, n), NEW k
  PROVE  VisibleAfter(r, k, n + 1) =
           IF r[n + 1].key = k /\ r[n + 1].kind \in {"add", "remove"}
           THEN r[n + 1].kind = "add" ELSE VisibleAfter(s, k, n)
BY VisibleStep, SamePainting

LEMMA AddFitsAgree ==
  ASSUME NEW s, NEW r, NEW n \in Int, Agree(s, r, n), NEW i \in 1 .. n
  PROVE  AddFits(r, i) <=> AddFits(s, i)
<1> DEFINE m == i - 1
<1>1. m \in Int /\ Agree(s, r, m) /\ r[i].kind = s[i].kind /\ r[i].key = s[i].key
  BY DEF Agree
<1>2. \A k : VisibleAfter(r, k, m) = VisibleAfter(s, k, m)
  BY <1>1, SamePainting
<1> QED BY <1>1, <1>2 DEF AddFits

LEMMA PlanFacts ==
  ASSUME TypeOK
  PROVE  /\ Len(commandList) \in Nat /\ Len(redoCommandList) \in Nat /\ Len(tasks) \in Nat
         /\ \A i \in 1 .. Len(commandList) : Planned[i] = commandList[i]
         /\ Agree(commandList, Planned, Len(commandList))
<1>1. Len(commandList) \in Nat /\ Len(redoCommandList) \in Nat /\ Len(tasks) \in Nat
  BY DEF TypeOK
<1>2. \A i \in 1 .. Len(commandList) : Planned[i] = commandList[i]
  BY <1>1 DEF Planned
<1>3. Agree(commandList, Planned, Len(commandList))
  BY <1>2 DEF Agree
<1> QED BY <1>1, <1>2, <1>3

(* A task that fits is recorded.                                            *)
LEMMA RecordFits ==
  ASSUME TypeOK, NEW c \in Command, NEW sendData \in BOOLEAN, ExecuteTask(c, sendData),
         AddsFit(tasks),
         c.kind = "add" => VisibleAfter(tasks, c.key, Len(tasks)) = FALSE,
         c.kind = "remove" => VisibleAfter(tasks, c.key, Len(tasks)) = TRUE
  PROVE  /\ AddsFit(tasks')
         /\ \A k : VisibleAfter(tasks', k, Len(tasks')) =
                     IF c.key = k /\ c.kind \in {"add", "remove"}
                     THEN c.kind = "add" ELSE VisibleAfter(tasks, k, Len(tasks))
<1> DEFINE N == Len(tasks)
<1>1. /\ N \in Nat /\ Len(tasks') = N + 1 /\ Agree(tasks, tasks', N)
      /\ tasks'[N + 1].kind = c.kind /\ tasks'[N + 1].key = c.key
  BY RecordAgrees
<1> HIDE DEF N
<1>2. \A k : VisibleAfter(tasks', k, N + 1) =
               IF c.key = k /\ c.kind \in {"add", "remove"}
               THEN c.kind = "add" ELSE VisibleAfter(tasks, k, N)
  BY <1>1, GrownVisible
<1>3. AddFits(tasks', N + 1)
  <2>1. VisibleAfter(tasks', c.key, N) = VisibleAfter(tasks, c.key, N)
    BY <1>1, SamePainting
  <2>2. (N + 1) - 1 = N
    BY <1>1
  <2> QED BY <1>1, <2>1, <2>2 DEF AddFits, N
<1>4. \A i \in 1 .. N : AddFits(tasks', i)
  BY <1>1, AddFitsAgree DEF AddsFit, N
<1>5. \A i \in 1 .. N + 1 : i \in 1 .. N \/ i = N + 1
  BY <1>1
<1>6. AddsFit(tasks')
  BY <1>1, <1>3, <1>4, <1>5 DEF AddsFit
<1> QED BY <1>1, <1>2, <1>6 DEF N

(* A new command makes its task, and gives up what could be redone.         *)
LEMMA CommandPlanned ==
  ASSUME TypeOK, PlanFits, NEW c \in Command, ExecuteCommand(c),
         c.kind = "add" => VisibleAfter(tasks, c.key, Len(tasks)) = FALSE,
         c.kind = "remove" => VisibleAfter(tasks, c.key, Len(tasks)) = TRUE
  PROVE  PlanFits'
<1> DEFINE L == Len(commandList)
<1>1. ExecuteTask(c, TRUE) /\ commandList' = Append(commandList, c) /\ redoCommandList' = <<>>
  BY DEF ExecuteCommand
<1>2. /\ AddsFit(tasks')
      /\ \A k : VisibleAfter(tasks', k, Len(tasks')) =
                  IF c.key = k /\ c.kind \in {"add", "remove"}
                  THEN c.kind = "add" ELSE VisibleAfter(tasks, k, Len(tasks))
  BY <1>1, RecordFits DEF PlanFits
<1>3. /\ L \in Nat /\ Len(commandList') = L + 1 /\ Len(redoCommandList') = 0
      /\ \A i \in 1 .. L : commandList'[i] = commandList[i]
      /\ commandList'[L + 1] = c
  BY <1>1, Pushed DEF TypeOK
<1>4. Agree(commandList, commandList', L) /\ Agree(commandList, Planned, L)
  BY <1>3, PlanFacts DEF Agree
<1>5. \A i \in 1 .. L + 1 : Planned'[i] = commandList'[i]
  BY <1>3 DEF Planned
<1>6. Agree(Planned, Planned', L) /\ Agree(commandList, Planned', L)
  BY <1>3, <1>5, PlanFacts DEF Agree
<1>7. \A k \in Key : VisibleAfter(tasks', k, Len(tasks'))
                       = VisibleAfter(commandList', k, Len(commandList'))
  BY <1>2, <1>3, <1>4, GrownVisible DEF PlanFits
<1>8. AddFits(Planned', L + 1)
  <2>1. Planned'[L + 1] = c
    BY <1>3, <1>5
  <2>2. VisibleAfter(Planned', c.key, L) = VisibleAfter(commandList, c.key, L)
    BY <1>3, <1>6, SamePainting
  <2>3. VisibleAfter(commandList, c.key, L) = VisibleAfter(tasks, c.key, Len(tasks))
    BY DEF PlanFits, Command
  <2>4. (L + 1) - 1 = L
    BY <1>3
  <2> HIDE DEF L
  <2> QED BY <2>1, <2>2, <2>3, <2>4 DEF AddFits
<1>9. \A i \in 1 .. L : AddFits(Planned', i)
  BY <1>3, <1>6, AddFitsAgree, PlanFacts DEF PlanFits
<1>10. \A i \in 1 .. Len(commandList') + Len(redoCommandList') : AddFits(Planned', i)
  <2>1. \A i \in 1 .. Len(commandList') + Len(redoCommandList') : i \in 1 .. L \/ i = L + 1
    BY <1>3
  <2> QED BY <1>8, <1>9, <2>1
<1> QED BY <1>2, <1>7, <1>10 DEF PlanFits

(* Undo and redo leave the plan, and move the end of the undo stack in it.  *)
LEMMA UndoInPlan ==
  ASSUME TypeOK, UndoCommand
  PROVE  LET L == Len(commandList)
             R == Len(redoCommandList)
             c == commandList[L]
         IN  /\ c \in Command /\ UndoTask(c) \in Command /\ ExecuteTask(UndoTask(c), TRUE)
             /\ L \in Nat /\ R \in Nat /\ L # 0
             /\ Len(commandList') = L - 1 /\ Len(redoCommandList') = R + 1
             /\ \A i \in 1 .. L - 1 : commandList'[i] = commandList[i]
             /\ Planned' = Planned
<1> DEFINE L == Len(commandList)
           R == Len(redoCommandList)
           c == commandList[L]
           u == UndoTask(c)
<1>1. /\ commandList \in Seq(Command) /\ commandList # <<>> /\ redoCommandList \in Seq(Command)
      /\ ExecuteTask(u, TRUE) /\ redoCommandList' = Append(redoCommandList, c)
      /\ commandList' = SubSeq(commandList, 1, L - 1)
  BY DEF TypeOK, UndoCommand
<1>2. c \in Command /\ u \in Command
  BY <1>1, StackTypes
<1>3. /\ L \in Nat /\ R \in Nat /\ L # 0 /\ Len(commandList') = L - 1 /\ Len(redoCommandList') = R + 1
      /\ \A i \in 1 .. L - 1 : commandList'[i] = commandList[i]
      /\ \A i \in 1 .. R : redoCommandList'[i] = redoCommandList[i]
      /\ redoCommandList'[R + 1] = c
  BY <1>1, <1>2, Popped, Pushed
<1>4. Planned' = Planned
  <2>1. (L - 1) + (R + 1) = L + R
    BY <1>3
  <2>2. ASSUME NEW i \in 1 .. L + R
        PROVE  Planned[i] = IF i <= L - 1 THEN commandList'[i]
                            ELSE redoCommandList'[(L + R) + 1 - i]
    <3>1. Planned[i] = IF i <= L THEN commandList[i] ELSE redoCommandList[L + R + 1 - i]
      BY DEF Planned
    <3>2. CASE i <= L - 1
      <4>1. i <= L /\ i \in 1 .. L - 1
        BY <1>3, <3>2
      <4> QED BY <1>3, <3>1, <3>2, <4>1
    <3>3. CASE i = L
      <4>1. ~ (i <= L - 1) /\ i <= L /\ (L + R) + 1 - i = R + 1
        BY <1>3, <3>3
      <4> QED BY <1>3, <3>1, <3>3, <4>1
    <3>4. CASE i > L
      <4>1. ~ (i <= L - 1) /\ ~ (i <= L) /\ (L + R) + 1 - i \in 1 .. R
        BY <1>3, <3>4
      <4> QED BY <1>3, <3>1, <4>1
    <3> QED BY <1>3, <3>2, <3>3, <3>4
  <2>3. Planned' = [i \in 1 .. L + R |-> IF i <= L - 1 THEN commandList'[i]
                                         ELSE redoCommandList'[(L + R) + 1 - i]]
    BY <1>3, <2>1 DEF Planned
  <2>4. Planned = [i \in 1 .. L + R |-> Planned[i]]
    BY DEF Planned
  <2> QED BY <2>2, <2>3, <2>4
<1> QED BY <1>1, <1>2, <1>3, <1>4

LEMMA UndoPlanned ==
  ASSUME TypeOK, PlanFits, UndoCommand
  PROVE  PlanFits'
<1> DEFINE L == Len(commandList)
           R == Len(redoCommandList)
           c == commandList[L]
           u == UndoTask(c)
<1>1. /\ c \in Command /\ u \in Command /\ ExecuteTask(u, TRUE)
      /\ L \in Nat /\ R \in Nat /\ L # 0
      /\ Len(commandList') = L - 1 /\ Len(redoCommandList') = R + 1
      /\ \A i \in 1 .. L - 1 : commandList'[i] = commandList[i]
      /\ Planned' = Planned
  BY UndoInPlan
<1>2. /\ u.key = c.key
      /\ c.kind = "add" <=> u.kind = "remove"
      /\ c.kind = "remove" <=> u.kind = "add"
  BY <1>1 DEF UndoTask, Command, Kind
<1> HIDE DEF u
<1>3. \A k : VisibleAfter(commandList, k, L) =
               IF c.key = k /\ c.kind \in {"add", "remove"}
               THEN c.kind = "add" ELSE VisibleAfter(commandList, k, L - 1)
  <2> DEFINE n == L - 1
  <2>1. n \in Nat /\ n + 1 = L
    BY <1>1
  <2>2. c = commandList[n + 1]
    BY <2>1
  <2> HIDE DEF n, c
  <2>3. \A k : VisibleAfter(commandList, k, n + 1) =
                 IF c.key = k /\ c.kind \in {"add", "remove"}
                 THEN c.kind = "add" ELSE VisibleAfter(commandList, k, n)
    BY <2>1, <2>2, VisibleStep
  <2> QED BY <2>1, <2>3 DEF n
<1>4. \A k : VisibleAfter(commandList', k, L - 1) = VisibleAfter(commandList, k, L - 1)
  <2> DEFINE n == L - 1
  <2>1. n \in Int /\ Agree(commandList, commandList', n)
    BY <1>1 DEF Agree
  <2> HIDE DEF n
  <2>2. \A k : VisibleAfter(commandList', k, n) = VisibleAfter(commandList, k, n)
    BY <2>1, SamePainting
  <2> QED BY <2>2 DEF n
<1>5. /\ c.kind = "add" => VisibleAfter(commandList, c.key, L - 1) = FALSE
      /\ c.kind = "remove" => VisibleAfter(commandList, c.key, L - 1) = TRUE
  <2>1. L \in 1 .. L + R /\ L \in 1 .. L /\ Planned[L] = c
    BY <1>1, PlanFacts
  <2>2. AddFits(Planned, L)
    BY <2>1 DEF PlanFits
  <2>3. AddFits(commandList, L)
    BY <1>1, <2>1, <2>2, PlanFacts, AddFitsAgree
  <2> QED BY <2>3, VisibleIsBoolean DEF AddFits
<1>6. c.key \in Key
  BY <1>1 DEF Command
<1>7. VisibleAfter(tasks, c.key, Len(tasks)) = VisibleAfter(commandList, c.key, L)
  BY <1>6 DEF PlanFits
<1>8. /\ AddsFit(tasks')
       /\ \A k : VisibleAfter(tasks', k, Len(tasks')) =
                   IF u.key = k /\ u.kind \in {"add", "remove"}
                   THEN u.kind = "add" ELSE VisibleAfter(tasks, k, Len(tasks))
  <2>1. u.kind = "add" => VisibleAfter(tasks, u.key, Len(tasks)) = FALSE
    BY <1>2, <1>3, <1>7
  <2>2. u.kind = "remove" => VisibleAfter(tasks, u.key, Len(tasks)) = TRUE
    BY <1>2, <1>3, <1>7
  <2> QED BY <1>1, <2>1, <2>2, RecordFits DEF PlanFits
<1>9. ASSUME NEW k \in Key
       PROVE  VisibleAfter(tasks', k, Len(tasks'))
                = VisibleAfter(commandList', k, Len(commandList'))
  <2>1. VisibleAfter(tasks, k, Len(tasks)) = VisibleAfter(commandList, k, L)
    BY DEF PlanFits
  <2>2. VisibleAfter(commandList', k, Len(commandList')) = VisibleAfter(commandList, k, L - 1)
    BY <1>1, <1>4
  <2> HIDE DEF c, L
  <2>3. CASE c.key = k /\ c.kind = "add"
    BY <1>2, <1>5, <1>8, <2>2, <2>3
  <2>4. CASE c.key = k /\ c.kind = "remove"
    BY <1>2, <1>5, <1>8, <2>2, <2>4
  <2>5. CASE ~ (c.key = k /\ c.kind \in {"add", "remove"})
    BY <1>2, <1>3, <1>8, <2>1, <2>2, <2>5
  <2> QED BY <2>3, <2>4, <2>5
<1>10. \A i \in 1 .. Len(commandList') + Len(redoCommandList') : AddFits(Planned', i)
  BY <1>1 DEF PlanFits
<1> QED BY <1>8, <1>9, <1>10 DEF PlanFits

LEMMA RedoInPlan ==
  ASSUME TypeOK, RedoCommand
  PROVE  LET L == Len(commandList)
             R == Len(redoCommandList)
             c == redoCommandList[R]
         IN  /\ c \in Command /\ ExecuteTask(c, TRUE)
             /\ L \in Nat /\ R \in Nat /\ R # 0
             /\ Len(commandList') = L + 1 /\ Len(redoCommandList') = R - 1
             /\ \A i \in 1 .. L : commandList'[i] = commandList[i]
             /\ commandList'[L + 1] = c
             /\ Planned[L + 1] = c /\ Planned' = Planned
<1> DEFINE L == Len(commandList)
           R == Len(redoCommandList)
           c == redoCommandList[R]
<1>1. /\ commandList \in Seq(Command) /\ redoCommandList \in Seq(Command) /\ redoCommandList # <<>>
      /\ ExecuteTask(c, TRUE) /\ commandList' = Append(commandList, c)
      /\ redoCommandList' = SubSeq(redoCommandList, 1, R - 1)
  BY DEF TypeOK, RedoCommand
<1>2. c \in Command
  BY <1>1, StackTypes
<1>3. /\ L \in Nat /\ R \in Nat /\ R # 0 /\ Len(commandList') = L + 1 /\ Len(redoCommandList') = R - 1
      /\ \A i \in 1 .. L : commandList'[i] = commandList[i]
      /\ commandList'[L + 1] = c
      /\ \A i \in 1 .. R - 1 : redoCommandList'[i] = redoCommandList[i]
  BY <1>1, <1>2, Popped, Pushed
<1>4. Planned[L + 1] = c
  <2>1. L + 1 \in 1 .. L + R /\ ~ (L + 1 <= L) /\ L + R + 1 - (L + 1) = R
    BY <1>3
  <2> QED BY <2>1 DEF Planned
<1>5. Planned' = Planned
  <2>1. (L + 1) + (R - 1) = L + R
    BY <1>3
  <2>2. ASSUME NEW i \in 1 .. L + R
        PROVE  Planned[i] = IF i <= L + 1 THEN commandList'[i]
                            ELSE redoCommandList'[(L + R) + 1 - i]
    <3>1. Planned[i] = IF i <= L THEN commandList[i] ELSE redoCommandList[L + R + 1 - i]
      BY DEF Planned
    <3>2. CASE i <= L
      <4>1. i <= L + 1 /\ i \in 1 .. L
        BY <1>3, <3>2
      <4> QED BY <1>3, <3>1, <3>2, <4>1
    <3>3. CASE i = L + 1
      BY <1>3, <1>4, <3>3
    <3>4. CASE i > L + 1
      <4>1. ~ (i <= L + 1) /\ ~ (i <= L) /\ (L + R) + 1 - i \in 1 .. R - 1
        BY <1>3, <3>4
      <4> QED BY <1>3, <3>1, <4>1
    <3> QED BY <1>3, <3>2, <3>3, <3>4
  <2>3. Planned' = [i \in 1 .. L + R |-> IF i <= L + 1 THEN commandList'[i]
                                         ELSE redoCommandList'[(L + R) + 1 - i]]
    BY <1>3, <2>1 DEF Planned
  <2>4. Planned = [i \in 1 .. L + R |-> Planned[i]]
    BY DEF Planned
  <2> QED BY <2>2, <2>3, <2>4
<1> QED BY <1>1, <1>2, <1>3, <1>4, <1>5

LEMMA RedoPlanned ==
  ASSUME TypeOK, PlanFits, RedoCommand
  PROVE  PlanFits'
<1> DEFINE L == Len(commandList)
           R == Len(redoCommandList)
           c == redoCommandList[R]
<1>1. /\ c \in Command /\ ExecuteTask(c, TRUE)
      /\ L \in Nat /\ R \in Nat /\ R # 0
      /\ Len(commandList') = L + 1 /\ Len(redoCommandList') = R - 1
      /\ \A i \in 1 .. L : commandList'[i] = commandList[i]
      /\ commandList'[L + 1] = c
      /\ Planned[L + 1] = c /\ Planned' = Planned
  BY RedoInPlan
<1> HIDE DEF c
<1>2. \A k : VisibleAfter(commandList', k, L + 1) =
               IF c.key = k /\ c.kind \in {"add", "remove"}
               THEN c.kind = "add" ELSE VisibleAfter(commandList, k, L)
  <2>1. Agree(commandList, commandList', L) /\ L \in Nat /\ commandList'[L + 1] = c
    BY <1>1 DEF Agree
  <2> HIDE DEF L
  <2>2. \A k : VisibleAfter(commandList', k, L + 1) =
                 IF commandList'[L + 1].key = k /\ commandList'[L + 1].kind \in {"add", "remove"}
                 THEN commandList'[L + 1].kind = "add" ELSE VisibleAfter(commandList, k, L)
    BY <2>1, GrownVisible
  <2> QED BY <2>1, <2>2
<1>3. c.key \in Key
  BY <1>1 DEF Command
<1>4. \A k \in Key : VisibleAfter(tasks, k, Len(tasks)) = VisibleAfter(commandList, k, L)
  BY DEF PlanFits
<1>5. /\ c.kind = "add" => VisibleAfter(commandList, c.key, L) = FALSE
      /\ c.kind = "remove" => VisibleAfter(commandList, c.key, L) = TRUE
  <2>1. L + 1 \in 1 .. L + R /\ (L + 1) - 1 = L
    BY <1>1
  <2>2. AddFits(Planned, L + 1)
    BY <2>1 DEF PlanFits
  <2>3. VisibleAfter(Planned, c.key, L) = VisibleAfter(commandList, c.key, L)
    BY <1>1, PlanFacts, SamePainting
  <2> HIDE DEF L
  <2> QED BY <1>1, <2>1, <2>2, <2>3, VisibleIsBoolean DEF AddFits
<1>6. /\ AddsFit(tasks')
       /\ \A k : VisibleAfter(tasks', k, Len(tasks')) =
                   IF c.key = k /\ c.kind \in {"add", "remove"}
                   THEN c.kind = "add" ELSE VisibleAfter(tasks, k, Len(tasks))
  BY <1>1, <1>3, <1>4, <1>5, RecordFits DEF PlanFits
<1>7. \A k \in Key : VisibleAfter(tasks', k, Len(tasks'))
                       = VisibleAfter(commandList', k, Len(commandList'))
  BY <1>1, <1>2, <1>4, <1>6
<1>8. \A i \in 1 .. Len(commandList') + Len(redoCommandList') : AddFits(Planned', i)
  BY <1>1 DEF PlanFits
<1> QED BY <1>6, <1>7, <1>8 DEF PlanFits

LEMMA PlanStep ==
  ASSUME Stale = FALSE, PeerKind \cap {"add", "remove"} = {},
         CanvasInv, OwnIdsCounted, PlanFits, [CanvasNext]_vars
  PROVE  PlanFits'
<1>1. /\ TypeOK /\ tasks \in Seq(Task) /\ items \subseteq Key /\ Len(tasks) \in Nat
      /\ AddsFit(tasks) /\ OnlyMoved(tasks, items)
  BY CanvasInvFacts DEF PlanFits, CanvasInv, StrangersOnlyMoved
<1>2. ASSUME NEW c \in Command, ExecuteCommand(c), c.kind \in {"update", "move"}
      PROVE  PlanFits'
  BY <1>1, <1>2, CommandPlanned
<1>3. CASE AddOnCanvas
  <2>1. PICK c \in Command :
          /\ c.kind = "add" /\ c.key = <<Me, NextId>> /\ ExecuteTask(c, TRUE)
          /\ commandList' = Append(commandList, c) /\ redoCommandList' = <<>>
    BY <1>1, <1>3, AddFacts
  <2>2. c.key \notin items
    BY <1>1, <2>1, CountedIsFree DEF GeneratedIdIsFree
  <2>3. VisibleAfter(tasks, c.key, Len(tasks)) = FALSE
    <3>1. ShowsVisible(Hidden, tasks, c.key, Len(tasks))
      BY <1>1, <2>2, HiddenShows
    <3> QED BY <3>1 DEF ShowsVisible, Hidden
  <2>4. ExecuteCommand(c)
    BY <2>1 DEF ExecuteCommand
  <2> QED BY <1>1, <2>1, <2>3, <2>4, CommandPlanned
<1>4. ASSUME NEW k \in Key, RemoveOnCanvas(k) PROVE PlanFits'
  <2> DEFINE c == NewCommand("remove", k, NoData, NoData)
  <2>1. c \in Command /\ c.kind = "remove" /\ c.key = k
    BY NewCommandType, NoDataType, PaintHistoryAssumption DEF Kind, NewCommand
  <2>2. ExecuteCommand(c) /\ k \in items /\ enabledPainter /\ canvas[k].graphics > 0
    BY <1>4 DEF RemoveOnCanvas, RemoveItem, CanReach, CanTouch
  <2>3. VisibleAfter(tasks, k, Len(tasks)) = TRUE
    BY <1>1, <2>2, ReachedItem
  <2> HIDE DEF c
  <2> QED BY <1>1, <2>1, <2>2, <2>3, CommandPlanned
<1>5. ASSUME NEW k \in Key, NEW z \in Scale, ScaleOnCanvas(k, z) PROVE PlanFits'
  <2>1. PICK prev \in Data, data \in Data : UpdateItem(k, prev, data)
    BY <1>5, CanvasInvFacts, ScaleFacts DEF Scaled
  <2>2. /\ NewCommand("update", k, prev, data) \in Command
        /\ NewCommand("update", k, prev, data).kind = "update"
    BY NewCommandType DEF Kind, NewCommand
  <2> QED BY <1>2, <2>1, <2>2 DEF UpdateItem
<1>6. ASSUME NEW k \in Key, NEW prev \in Data, NEW data \in Data, MoveItem(k, prev, data)
      PROVE  PlanFits'
  <2>1. /\ NewCommand("move", k, prev, data) \in Command
        /\ NewCommand("move", k, prev, data).kind = "move"
    BY NewCommandType DEF Kind, NewCommand
  <2> QED BY <1>2, <1>6, <2>1 DEF MoveItem
<1>7. CASE UNCHANGED <<commandList, redoCommandList>> /\ AddsFit(tasks')
           /\ \A k : VisibleAfter(tasks', k, Len(tasks')) = VisibleAfter(tasks, k, Len(tasks))
  <2>1. Planned' = Planned
    BY <1>7 DEF Planned
  <2> QED BY <1>7, <2>1 DEF PlanFits
<1>8. CASE UNCHANGED <<tasks, commandList, redoCommandList>>
  BY <1>1, <1>7, <1>8
<1>9. ASSUME NEW k \in Key, Release(k) PROVE PlanFits'
  <2>1. (\E prev, data \in Data : MoveItem(k, prev, data)) \/ UNCHANGED historyVars
    BY <1>9, CanvasInvFacts, ReleaseFacts DEF Released, LetGo
  <2> QED BY <1>6, <1>8, <2>1 DEF historyVars, stacks
<1>10. ASSUME NEW g \in ghosts, ReleaseGhost(g) PROVE PlanFits'
  <2>1. g.key \in Key /\ g.pos \in Place /\ g.at \in Place
    BY CanvasInvFacts DEF Ghost
  <2>2. At(g.pos) \in Data /\ At(g.at) \in Data
    BY <2>1, PlacedAt
  <2> QED BY <1>6, <1>10, <2>1, <2>2 DEF ReleaseGhost
<1>11. ASSUME NEW from \in Int, NEW to \in Int, NEW who,
              tasks' = RunForward(from, to, who) \/ tasks' = RunBackward(from, to, who),
              UNCHANGED <<commandList, redoCommandList>>
       PROVE  PlanFits'
  <2>1. Agree(tasks, tasks', Len(tasks)) /\ Len(tasks') = Len(tasks)
    BY <1>1, <1>11, RunsAgree, RunTasks
  <2>2. AddsFit(tasks')
    BY <1>1, <2>1, FitsAgree
  <2>3. \A k : VisibleAfter(tasks', k, Len(tasks')) = VisibleAfter(tasks, k, Len(tasks))
    BY <1>1, <2>1, SamePainting
  <2> QED BY <1>7, <1>11, <2>2, <2>3
<1>12. ASSUME NEW position \in -1 .. Len(tasks) - 1, PlaybackOnCanvas(position)
       PROVE  PlanFits'
  <2>1. UNCHANGED <<commandList, redoCommandList>>
    BY <1>12 DEF PlaybackOnCanvas, PlaybackTo, stacks
  <2>2. currentPlayPos + 1 \in Int /\ position + 1 \in Int
    BY CanvasInvFacts
  <2>3. \/ tasks' = RunForward(currentPlayPos + 1, position + 1, allowPainters)
        \/ tasks' = RunBackward(currentPlayPos + 1, position + 1, allowPainters)
    BY <1>12 DEF PlaybackOnCanvas, PlaybackTo
  <2> QED BY <1>11, <2>1, <2>2, <2>3
<1>13. ASSUME NEW u \in Painter, NEW on \in BOOLEAN, FilterOnCanvas(u, on) PROVE PlanFits'
  <2>1. UNCHANGED <<commandList, redoCommandList>>
    BY <1>13 DEF FilterOnCanvas, SetAllowPainterToDraw, stacks
  <2>2. currentPlayPos + 1 \in Int /\ 0 \in Int
    BY CanvasInvFacts
  <2>3. \/ tasks' = RunForward(0, currentPlayPos + 1, {u})
        \/ tasks' = RunBackward(currentPlayPos + 1, 0, {u})
    BY <1>13 DEF FilterOnCanvas, SetAllowPainterToDraw
  <2> QED BY <1>11, <2>1, <2>2, <2>3
<1>14. CASE ClearCanvas
  <2>1. tasks' = <<>> /\ commandList' = <<>> /\ redoCommandList' = <<>>
    BY <1>14 DEF ClearCanvas, ClearScreen, ClearHistoryCommand
  <2>2. Len(<<>>) = 0
    OBVIOUS
  <2> QED BY <2>1, <2>2 DEF PlanFits, AddsFit, Planned
<1>15. ASSUME NEW kind \in PeerKind, NEW k \in Key, NEW prev \in Data, NEW data \in Data,
              PeerTaskOnCanvas(kind, k, prev, data)
       PROVE  PlanFits'
  <2> DEFINE c == NewCommand(kind, k, prev, data)
  <2>1. c \in Command /\ c.kind \notin {"add", "remove"}
    BY NewCommandType, PaintHistoryAssumption DEF NewCommand
  <2>2. ExecuteTask(c, FALSE) /\ UNCHANGED <<commandList, redoCommandList>>
    BY <1>15 DEF PeerTaskOnCanvas, PeerTask, stacks
  <2> HIDE DEF c
  <2>3. /\ AddsFit(tasks')
        /\ \A j : VisibleAfter(tasks', j, Len(tasks')) = VisibleAfter(tasks, j, Len(tasks))
    BY <1>1, <2>1, <2>2, RecordFits
  <2> QED BY <1>7, <2>2, <2>3
<1>16. CASE CanvasEdit
  <2>1. CASE UndoOnCanvas
    BY <1>1, <2>1, UndoPlanned DEF UndoOnCanvas
  <2>2. CASE RedoOnCanvas
    BY <1>1, <2>2, RedoPlanned DEF RedoOnCanvas
  <2>3. CASE \E k \in Key, p \in Place : Drag(k, p)
    BY <1>8, <2>3 DEF Drag, historyVars, stacks
  <2> QED BY <1>3, <1>4, <1>5, <1>9, <1>10, <1>16, <2>1, <2>2, <2>3 DEF CanvasEdit
<1>17. CASE CanvasView
  BY <1>12, <1>13, <1>14, <1>17 DEF CanvasView
<1>18. CASE CanvasSession
  <2>1. \/ \E kind \in PeerKind, k \in Key, prev, data \in Data :
             PeerTaskOnCanvas(kind, k, prev, data)
        \/ UNCHANGED <<tasks, commandList, redoCommandList>>
    BY <1>18 DEF CanvasSession, PeerCreatesItem, AnnouncePainter, SessionEnables, stacks
  <2> QED BY <1>8, <1>15, <2>1
<1>19. CASE UNCHANGED vars
  BY <1>8, <1>19 DEF vars, historyVars, stacks
<1> QED BY <1>16, <1>17, <1>18, <1>19 DEF CanvasNext

OwnInv == CanvasInv /\ OwnIdsCounted /\ PlanFits

LEMMA OwnInvInit == CanvasInit => OwnInv
<1> SUFFICES ASSUME CanvasInit PROVE OwnInv
  OBVIOUS
<1>1. items = {} /\ tasks = <<>> /\ commandList = <<>> /\ redoCommandList = <<>>
  BY DEF CanvasInit, Init
<1>2. Len(<<>>) = 0
  OBVIOUS
<1>3. OwnIdsCounted
  BY <1>1 DEF OwnIdsCounted
<1>4. PlanFits
  BY <1>1, <1>2 DEF PlanFits, AddsFit, Planned
<1> QED BY <1>3, <1>4, CanvasInvInit DEF OwnInv

LEMMA OwnInvStep ==
  ASSUME Stale = FALSE, LateAnnounce = FALSE, PeerKind \cap {"add", "remove"} = {},
         OwnInv, [CanvasNext]_vars
  PROVE  OwnInv'
<1>1. CanvasInv'
  BY CanvasInvStep DEF OwnInv
<1>2. OwnIdsCounted'
  BY CanvasInvFacts, CanvasIsHistory, OwnIdsStep DEF OwnInv
<1>3. PlanFits'
  BY PlanStep DEF OwnInv
<1> QED BY <1>1, <1>2, <1>3 DEF OwnInv

(* Where adding and removing fit, no graphic outlives its item's memory.    *)
LEMMA FitsLeavesNone ==
  ASSUME CanvasInv, AddsFit(tasks)
  PROVE  NoOrphanGraphics
<1> SUFFICES ASSUME NEW k \in Key PROVE Forgotten(k) = 0
  BY DEF NoOrphanGraphics
<1>1. canvas[k].graphics = IF canvas[k].drawn THEN 1 ELSE 0
  <2>1. CASE k \in items
    BY <2>1 DEF CanvasInv, PaintingShown, Shows, ShowsVisible
  <2>2. CASE k \notin items
    BY <2>2 DEF CanvasInv, UnknownIsHidden, Hidden
  <2> QED BY <2>1, <2>2
<1> QED BY <1>1 DEF Forgotten

(* A user who adds, removes, updates and moves items, undoes and redoes,    *)
(* before, during and after playback and with painters hidden, leaves no    *)
(* graphic in the scene that its item forgot, as long as the peers who join *)
(* in only update and move: draw and remove alternate for every item.       *)
THEOREM NoOrphansTheorem ==
  ASSUME Stale = FALSE, LateAnnounce = FALSE, PeerKind \cap {"add", "remove"} = {}
  PROVE  CanvasSpec => []NoOrphanGraphics
<1>1. OwnInv => NoOrphanGraphics
  BY FitsLeavesNone DEF OwnInv, PlanFits
<1> QED BY <1>1, OwnInvInit, OwnInvStep, PTL DEF CanvasSpec

-----------------------------------------------------------------------------
(* A user who works alone and only adds and removes.                        *)

AddedOrRemoved(s) == \A i \in 1 .. Len(s) : s[i].kind \in {"add", "remove"}

OnlyAddedOrRemoved ==
  AddedOrRemoved(tasks) /\ AddedOrRemoved(commandList) /\ AddedOrRemoved(redoCommandList)

LEMMA AddedOrRemovedStack ==
  ASSUME NEW s \in Seq(Command), AddedOrRemoved(s)
  PROVE  /\ \A c \in Command : c.kind \in {"add", "remove"} => AddedOrRemoved(Append(s, c))
         /\ s # <<>> => /\ s[Len(s)].kind \in {"add", "remove"}
                        /\ AddedOrRemoved(SubSeq(s, 1, Len(s) - 1))
<1>1. ASSUME NEW c \in Command, c.kind \in {"add", "remove"}
      PROVE  AddedOrRemoved(Append(s, c))
  <2>1. \A i \in 1 .. Len(s) + 1 : i \in 1 .. Len(s) \/ i = Len(s) + 1
    BY Pushed
  <2> QED BY <1>1, <2>1, Pushed DEF AddedOrRemoved
<1>2. ASSUME s # <<>>
      PROVE  s[Len(s)].kind \in {"add", "remove"} /\ AddedOrRemoved(SubSeq(s, 1, Len(s) - 1))
  <2> DEFINE t == SubSeq(s, 1, Len(s) - 1)
  <2>1. Len(t) = Len(s) - 1 /\ Len(t) \in Nat /\ \A i \in 1 .. Len(t) : t[i] = s[i]
    BY <1>2, Popped
  <2> HIDE DEF t
  <2>2. Len(s) \in 1 .. Len(s) /\ \A i \in 1 .. Len(t) : i \in 1 .. Len(s)
    BY <2>1
  <2> QED BY <2>1, <2>2 DEF AddedOrRemoved, t
<1> QED BY <1>1, <1>2

LEMMA AddedOrRemovedRecord ==
  ASSUME TypeOK, AddedOrRemoved(tasks), NEW c \in Command, NEW sendData \in BOOLEAN,
         ExecuteTask(c, sendData), c.kind \in {"add", "remove"}
  PROVE  AddedOrRemoved(tasks')
<1>1. /\ Len(tasks) \in Nat /\ Len(tasks') = Len(tasks) + 1 /\ Agree(tasks, tasks', Len(tasks))
      /\ tasks'[Len(tasks) + 1].kind = c.kind
  BY RecordAgrees
<1>2. \A i \in 1 .. Len(tasks) + 1 : i \in 1 .. Len(tasks) \/ i = Len(tasks) + 1
  BY <1>1
<1> QED BY <1>1, <1>2 DEF Agree, AddedOrRemoved

LEMMA AddedOrRemovedStep ==
  ASSUME Gesture \subseteq {"add", "remove", "undo"}, PeerKind = {},
         TypeOK, OnlyAddedOrRemoved, [Next]_historyVars
  PROVE  OnlyAddedOrRemoved'
<1>1. /\ commandList \in Seq(Command) /\ redoCommandList \in Seq(Command)
      /\ tasks \in Seq(Task) /\ currentPlayPos \in Int
      /\ AddedOrRemoved(tasks) /\ AddedOrRemoved(commandList) /\ AddedOrRemoved(redoCommandList)
      /\ AddedOrRemoved(<<>>)
  BY DEF TypeOK, OnlyAddedOrRemoved, AddedOrRemoved
<1>2. ASSUME NEW c \in Command, ExecuteCommand(c), c.kind \in {"add", "remove"}
      PROVE  OnlyAddedOrRemoved'
  BY <1>1, <1>2, AddedOrRemovedRecord, AddedOrRemovedStack
     DEF ExecuteCommand, OnlyAddedOrRemoved
<1>3. CASE AddItem
  <2> DEFINE k == <<Me, NextId>>
             c == NewCommand("add", k, NoData, NoData)
  <2>1. k \in Key
    <3>1. Cardinality(items) \in Nat
      BY FiniteKeys, FS_CardinalityType DEF TypeOK
    <3> QED BY <1>3, <3>1, PaintHistoryAssumption DEF AddItem, NextId, Key
  <2>2. c \in Command /\ c.kind = "add"
    BY <2>1, NewCommandType, NoDataType, PaintHistoryAssumption DEF Kind, NewCommand
  <2> QED BY <1>2, <1>3, <2>2 DEF AddItem
<1>4. ASSUME NEW k \in Key, RemoveItem(k) PROVE OnlyAddedOrRemoved'
  <2> DEFINE c == NewCommand("remove", k, NoData, NoData)
  <2>1. c \in Command /\ c.kind = "remove"
    BY NewCommandType, NoDataType, PaintHistoryAssumption DEF Kind, NewCommand
  <2> QED BY <1>2, <1>4, <2>1 DEF RemoveItem
<1>5. CASE UndoCommand
  <2> DEFINE c == commandList[Len(commandList)]
  <2>1. /\ commandList # <<>> /\ ExecuteTask(UndoTask(c), TRUE)
        /\ redoCommandList' = Append(redoCommandList, c)
        /\ commandList' = SubSeq(commandList, 1, Len(commandList) - 1)
    BY <1>5 DEF UndoCommand
  <2>2. c \in Command /\ UndoTask(c) \in Command
    BY <1>1, <2>1, StackTypes
  <2>3. c.kind \in {"add", "remove"} /\ AddedOrRemoved(commandList')
    BY <1>1, <2>1, AddedOrRemovedStack
  <2> HIDE DEF c
  <2>4. UndoTask(c).kind \in {"add", "remove"}
    BY <2>2, <2>3 DEF UndoTask, Command
  <2>5. AddedOrRemoved(redoCommandList')
    BY <1>1, <2>1, <2>2, <2>3, AddedOrRemovedStack
  <2>6. AddedOrRemoved(tasks')
    BY <1>1, <2>1, <2>2, <2>4, AddedOrRemovedRecord
  <2> QED BY <2>3, <2>5, <2>6 DEF OnlyAddedOrRemoved
<1>6. CASE RedoCommand
  <2> DEFINE c == redoCommandList[Len(redoCommandList)]
  <2>1. /\ redoCommandList # <<>> /\ ExecuteTask(c, TRUE)
        /\ commandList' = Append(commandList, c)
        /\ redoCommandList' = SubSeq(redoCommandList, 1, Len(redoCommandList) - 1)
    BY <1>6 DEF RedoCommand
  <2>2. c \in Command
    BY <1>1, <2>1, StackTypes
  <2>3. c.kind \in {"add", "remove"} /\ AddedOrRemoved(redoCommandList')
    BY <1>1, <2>1, AddedOrRemovedStack
  <2> HIDE DEF c
  <2>4. AddedOrRemoved(commandList')
    BY <1>1, <2>1, <2>2, <2>3, AddedOrRemovedStack
  <2>5. AddedOrRemoved(tasks')
    BY <1>1, <2>1, <2>2, <2>3, AddedOrRemovedRecord
  <2> QED BY <2>3, <2>4, <2>5 DEF OnlyAddedOrRemoved
<1>7. CASE ClearScreen
  BY <1>1, <1>7 DEF ClearScreen, ClearHistoryCommand, OnlyAddedOrRemoved
<1>8. ASSUME NEW from \in Int, NEW to \in Int, NEW who,
             tasks' = RunForward(from, to, who) \/ tasks' = RunBackward(from, to, who),
             UNCHANGED <<commandList, redoCommandList>>
      PROVE  OnlyAddedOrRemoved'
  <2>1. Agree(tasks, tasks', Len(tasks)) /\ Len(tasks') = Len(tasks)
    BY <1>1, <1>8, RunsAgree, RunTasks
  <2>2. AddedOrRemoved(tasks')
    BY <1>1, <2>1 DEF Agree, AddedOrRemoved
  <2> QED BY <1>1, <1>8, <2>2 DEF OnlyAddedOrRemoved
<1>9. ASSUME NEW position \in -1 .. Len(tasks) - 1, PlaybackTo(position)
      PROVE  OnlyAddedOrRemoved'
  <2>1. UNCHANGED <<commandList, redoCommandList>>
    BY <1>9 DEF PlaybackTo, stacks
  <2>2. currentPlayPos + 1 \in Int /\ position + 1 \in Int
    BY <1>1
  <2>3. \/ tasks' = RunForward(currentPlayPos + 1, position + 1, allowPainters)
        \/ tasks' = RunBackward(currentPlayPos + 1, position + 1, allowPainters)
    BY <1>9 DEF PlaybackTo
  <2> QED BY <1>8, <2>1, <2>2, <2>3
<1>10. ASSUME NEW u \in Painter, NEW on \in BOOLEAN, SetAllowPainterToDraw(u, on)
       PROVE  OnlyAddedOrRemoved'
  <2>1. UNCHANGED <<commandList, redoCommandList>>
    BY <1>10 DEF SetAllowPainterToDraw, stacks
  <2>2. currentPlayPos + 1 \in Int /\ 0 \in Int
    BY <1>1
  <2>3. \/ tasks' = RunForward(0, currentPlayPos + 1, {u})
        \/ tasks' = RunBackward(currentPlayPos + 1, 0, {u})
    BY <1>10 DEF SetAllowPainterToDraw
  <2> QED BY <1>8, <2>1, <2>2, <2>3
<1>11. CASE UNCHANGED <<tasks, commandList, redoCommandList>>
  BY <1>1, <1>11 DEF OnlyAddedOrRemoved
<1>12. CASE Edit
  BY <1>3, <1>4, <1>5, <1>6, <1>12 DEF Edit, UpdateItem, MoveItem
<1>13. CASE View
  BY <1>7, <1>9, <1>10, <1>13 DEF View
<1>14. CASE Session
  <2>1. UNCHANGED <<tasks, commandList, redoCommandList>>
    BY <1>14 DEF Session, PeerTask, PeerCreatesItem, AnnouncePainter, SessionEnables, stacks
  <2> QED BY <1>11, <2>1
<1>15. CASE UNCHANGED historyVars
  BY <1>11, <1>15 DEF historyVars, stacks
<1> QED BY <1>12, <1>13, <1>14, <1>15 DEF Next

AloneInv == OwnInv /\ OnlyAddedOrRemoved

LEMMA AloneInvInit == CanvasInit => AloneInv
<1> SUFFICES ASSUME CanvasInit PROVE OnlyAddedOrRemoved
  BY OwnInvInit DEF AloneInv
<1>1. tasks = <<>> /\ commandList = <<>> /\ redoCommandList = <<>>
  BY DEF CanvasInit, Init
<1> QED BY <1>1 DEF OnlyAddedOrRemoved, AddedOrRemoved

LEMMA AloneInvStep ==
  ASSUME Stale = FALSE, LateAnnounce = FALSE, PeerKind = {},
         Gesture \subseteq {"add", "remove", "undo"}, AloneInv, [CanvasNext]_vars
  PROVE  AloneInv'
<1>1. OwnInv'
  BY OwnInvStep DEF AloneInv
<1>2. OnlyAddedOrRemoved'
  BY CanvasInvFacts, CanvasIsHistory, AddedOrRemovedStep DEF AloneInv, OwnInv
<1> QED BY <1>1, <1>2 DEF AloneInv

(* The history of such a user is consistent ...                             *)
LEMMA AloneIsConsistent == AloneInv => Consistent
<1> SUFFICES ASSUME AloneInv PROVE AddsFit(tasks) /\ EditsFit(tasks)
  BY ConsistentParts
<1> QED BY DEF AloneInv, OwnInv, PlanFits, OnlyAddedOrRemoved, AddedOrRemoved, EditsFit, EditFits

(* ... and played to its end it shows what is on the undo stack.            *)
LEMMA AloneShowsCommands == AloneInv => ShowsCommands
<1> SUFFICES ASSUME AloneInv, ~ IsPlaybackMode, allowPainters = Painter, NEW k \in items
             PROVE  /\ canvas[k].drawn = VisibleAfter(commandList, k, Len(commandList))
                    /\ canvas[k].data = DataAfter(commandList, k, Len(commandList))
  BY DEF ShowsCommands
<1> DEFINE d == DisplayedTasks(k)
<1>1. /\ CanvasInv /\ AddsFit(tasks) /\ EditsFit(tasks) /\ k \in Key
  <2>1. CanvasInv
    BY DEF AloneInv, OwnInv
  <2> QED BY <2>1, AloneIsConsistent, ConsistentParts, CanvasInvFacts
<1>2. canvas[k].drawn = VisibleAfter(tasks, k, d) /\ canvas[k].data = DataAfter(tasks, k, d)
  BY <1>1 DEF CanvasInv, PaintingShown, Shows, ShowsVisible, ShowsData
<1>3. \A s, n : AddedOrRemoved(s) /\ n <= Len(s) /\ n \in Int => DataAfter(s, k, n) = Fresh
  BY DEF AddedOrRemoved, DataAfter, EditsOf, Fresh
<1>4. /\ canvas[k].data = Fresh
      /\ DataAfter(commandList, k, Len(commandList)) = Fresh
  <2>1. d \in Int /\ d <= Len(tasks)
    BY <1>1, CanvasInvFacts
  <2>2. Len(commandList) \in Int /\ Len(commandList) <= Len(commandList)
    BY <1>1, CanvasInvFacts DEF TypeOK
  <2>3. AddedOrRemoved(tasks) /\ AddedOrRemoved(commandList)
    BY DEF AloneInv, OnlyAddedOrRemoved
  <2> QED BY <1>2, <1>3, <2>1, <2>2, <2>3
<1>5. VisibleAfter(tasks, k, d) = VisibleAfter(tasks, k, Len(tasks))
  <2>1. k[1] \in allowPainters
    BY <1>1 DEF Key
  <2>2. d = currentPlayPos + 1
    BY <2>1 DEF DisplayedTasks
  <2>3. \/ currentPlayPos = Len(tasks) - 1
        \/ currentPlayPos = -2 /\ Len(tasks) = 0
    <3>1. tasks = <<>> => Len(tasks) = 0
      OBVIOUS
    <3> QED BY <1>1, <3>1, CanvasInvFacts DEF IsPlaybackMode, DEFAULT_INIT_PLAYBACK_POS
  <2>4. CASE currentPlayPos = Len(tasks) - 1
    BY <1>1, <2>2, <2>4, CanvasInvFacts
  <2>5. CASE currentPlayPos = -2 /\ Len(tasks) = 0
    <3>1. d = -1
      BY <2>2, <2>5
    <3> HIDE DEF d
    <3>2. 1 .. d = {} /\ 1 .. Len(tasks) = {}
      BY <2>5, <3>1
    <3> QED BY <3>2, NothingPainted, VisibleIsBoolean
  <2> QED BY <2>3, <2>4, <2>5
<1>6. VisibleAfter(tasks, k, Len(tasks)) = VisibleAfter(commandList, k, Len(commandList))
  BY <1>1 DEF AloneInv, OwnInv, PlanFits
<1> QED BY <1>2, <1>4, <1>5, <1>6

(* A user who works alone, adding and removing items, undoing and redoing,  *)
(* playing back and hiding himself, makes a consistent history: what his    *)
(* gestures record always fits what was recorded before, also when it is    *)
(* not carried out at the time.                                             *)
THEOREM OwnHistoryTheorem ==
  ASSUME Stale = FALSE, LateAnnounce = FALSE, PeerKind = {},
         Gesture \subseteq {"add", "remove", "undo"}
  PROVE  CanvasSpec => []OwnHistoryIsConsistent
<1>1. AloneInv => OwnHistoryIsConsistent
  BY AloneIsConsistent DEF OwnHistoryIsConsistent
<1> QED BY <1>1, AloneInvInit, AloneInvStep, PTL DEF CanvasSpec

(* What he then sees at the end of the history is what the commands on the  *)
(* undo stack, and no others, have made.  With updates or moves it is not   *)
(* so: undoing one of them does it again (UndoTask).                        *)
THEOREM ShowsCommandsTheorem ==
  ASSUME Stale = FALSE, LateAnnounce = FALSE, PeerKind = {},
         Gesture \subseteq {"add", "remove", "undo"}
  PROVE  CanvasSpec => []ShowsCommands
BY AloneShowsCommands, AloneInvInit, AloneInvStep, PTL DEF CanvasSpec
=============================================================================
