------------------------ MODULE PaintDocumentProofs -------------------------
(***************************************************************************)
(* Proofs about PaintDocument: the painting of a user who works alone is a *)
(* document with undo and redo.  The plan of PaintCanvasProofs, what is on *)
(* the undo stack and above it what could be redone, is the sequence of    *)
(* all the edits of that document; undo and redo only move in it.          *)
(***************************************************************************)
EXTENDS PaintDocument, PaintCanvasProofs

-----------------------------------------------------------------------------
(* Sequences that differ in their last element.                             *)

LEMMA OneLonger ==
  ASSUME NEW S, NEW n \in Nat, NEW f \in [1 .. n -> S], NEW g \in [1 .. n + 1 -> S],
         \A i \in 1 .. n : g[i] = f[i]
  PROVE  g = Append(f, g[n + 1])
<1>1. f \in Seq(S) /\ Len(f) = n /\ g[n + 1] \in S
  BY LenProperties
<1>2. Append(f, g[n + 1]) \in [1 .. n + 1 -> S]
  <2>1. Append(f, g[n + 1]) \in Seq(S) /\ Len(Append(f, g[n + 1])) = n + 1
    BY <1>1, AppendProperties
  <2> QED BY <2>1, LenProperties
<1>3. \A i \in 1 .. n + 1 : Append(f, g[n + 1])[i] = g[i]
  BY <1>1, AppendProperties
<1> QED BY <1>2, <1>3

LEMMA OneShorter ==
  ASSUME NEW S, NEW n \in Nat, NEW f \in [1 .. n + 1 -> S], NEW g \in [1 .. n -> S],
         \A i \in 1 .. n : g[i] = f[i]
  PROVE  /\ f # <<>> /\ Len(f) = n + 1
         /\ g = SubSeq(f, 1, Len(f) - 1)
<1>1. f \in Seq(S) /\ Len(f) = n + 1 /\ g \in Seq(S) /\ Len(g) = n
  BY LenProperties
<1>2. f # <<>>
  BY <1>1
<1>3. Len(f) - 1 = n
  BY <1>1
<1>4. SubSeq(f, 1, n) \in [1 .. n -> S] /\ \A i \in 1 .. n : SubSeq(f, 1, n)[i] = f[i]
  <2>1. /\ SubSeq(f, 1, n) \in Seq(S)
        /\ Len(SubSeq(f, 1, n)) = n
        /\ \A i \in 1 .. n : SubSeq(f, 1, n)[i] = f[i]
    OBVIOUS
  <2> QED BY <2>1, LenProperties
<1>5. g = SubSeq(f, 1, n)
  BY <1>4
<1> QED BY <1>1, <1>2, <1>3, <1>5

-----------------------------------------------------------------------------
(* The document after the first n edits of the plan.                        *)

Drawing(n) == {k \in Key : VisibleAfter(Planned, k, n)}

Present == Drawing(Len(commandList))

Before == [n \in 1 .. Len(commandList) |-> Drawing(n - 1)]

Ahead == [j \in 1 .. Len(redoCommandList) |->
            Drawing(Len(commandList) + Len(redoCommandList) + 1 - j)]

LEMMA DrawingGrows ==
  ASSUME AloneInv, NEW n \in Nat, n < Len(commandList) + Len(redoCommandList)
  PROVE  Done(Planned[n + 1], Drawing(n)) = Drawing(n + 1)
<1> DEFINE L == Len(commandList)
           R == Len(redoCommandList)
           c == Planned[n + 1]
<1>1. /\ commandList \in Seq(Command) /\ redoCommandList \in Seq(Command)
      /\ L \in Nat /\ R \in Nat
      /\ AddedOrRemoved(commandList) /\ AddedOrRemoved(redoCommandList)
  BY CanvasInvFacts DEF AloneInv, OwnInv, OnlyAddedOrRemoved, TypeOK
<1>2. c.kind \in {"add", "remove"} /\ c \in Command
  <2>1. CASE n + 1 <= L
    <3>1. n + 1 \in 1 .. L /\ n + 1 \in 1 .. L + R /\ c = commandList[n + 1]
      BY <1>1, <2>1 DEF Planned
    <3> QED BY <1>1, <3>1 DEF AddedOrRemoved
  <2>2. CASE ~ (n + 1 <= L)
    <3> DEFINE j == L + R + 1 - (n + 1)
    <3>1. j \in 1 .. R /\ n + 1 \in 1 .. L + R
      BY <1>1, <2>2
    <3>2. c = redoCommandList[j]
      BY <2>2, <3>1 DEF Planned
    <3> HIDE DEF j
    <3> QED BY <1>1, <3>1, <3>2 DEF AddedOrRemoved
  <2> QED BY <2>1, <2>2
<1>3. c.key \in Key
  BY <1>2 DEF Command
<1>4. \A k : VisibleAfter(Planned, k, n + 1) =
               IF c.key = k THEN c.kind = "add" ELSE VisibleAfter(Planned, k, n)
  BY <1>2, VisibleStep
<1> HIDE DEF c
<1>5. ASSUME c.kind = "add" PROVE Done(c, Drawing(n)) = Drawing(n + 1)
  <2>1. \A k : VisibleAfter(Planned, k, n + 1) <=> k = c.key \/ VisibleAfter(Planned, k, n)
    BY <1>4, <1>5
  <2>2. Done(c, Drawing(n)) = Drawing(n) \cup {c.key}
    BY <1>5 DEF Done
  <2>3. \A k : k \in Drawing(n + 1) <=> k \in Drawing(n) \/ k = c.key
    BY <1>3, <2>1 DEF Drawing
  <2> QED BY <2>2, <2>3
<1>6. ASSUME c.kind = "remove" PROVE Done(c, Drawing(n)) = Drawing(n + 1)
  <2>1. c.kind # "add"
    BY <1>6
  <2>2. \A k : VisibleAfter(Planned, k, n + 1) <=> k # c.key /\ VisibleAfter(Planned, k, n)
    BY <1>4, <2>1
  <2>3. Done(c, Drawing(n)) = Drawing(n) \ {c.key}
    BY <2>1 DEF Done
  <2>4. \A k : k \in Drawing(n + 1) <=> k \in Drawing(n) /\ k # c.key
    BY <2>2 DEF Drawing
  <2> QED BY <2>3, <2>4
<1> QED BY <1>2, <1>5, <1>6 DEF c

(* Nothing is drawn before the first edit, and the three parts of the       *)
(* document are what the edits of the plan make of it.                      *)
LEMMA DrawingStarts == Drawing(0) = {}
<1>1. \A i \in 1 .. 0 : FALSE
  OBVIOUS
<1>2. \A k : ~ VisibleAfter(Planned, k, 0)
  BY <1>1, NothingPainted
<1> QED BY <1>2 DEF Drawing

LEMMA PaintingIsPresent == AloneInv => Painting = Present
<1> SUFFICES ASSUME AloneInv PROVE Painting = Present
  OBVIOUS
<1> DEFINE L == Len(commandList)
<1>1. L \in Nat /\ Agree(commandList, Planned, L)
  BY CanvasInvFacts, PlanFacts DEF AloneInv, OwnInv
<1>2. \A k : VisibleAfter(Planned, k, L) = VisibleAfter(commandList, k, L)
  BY <1>1, SamePainting
<1>3. \A k \in Key : VisibleAfter(tasks, k, Len(tasks)) = VisibleAfter(commandList, k, L)
  BY DEF AloneInv, OwnInv, PlanFits
<1> QED BY <1>2, <1>3 DEF Painting, Present, Drawing

LEMMA AfterIsDrawing ==
  ASSUME AloneInv, NEW n \in 0 .. Len(commandList)
  PROVE  After[n] = Drawing(n)
<1> DEFINE L == Len(commandList)
           Chain(f) == f = [m \in 0 .. L |-> IF m = 0 THEN {} ELSE Done(commandList[m], f[m - 1])]
           w == [m \in 0 .. L |-> Drawing(m)]
<1>1. /\ L \in Nat /\ Len(redoCommandList) \in Nat
      /\ \A i \in 1 .. L : Planned[i] = commandList[i]
  BY CanvasInvFacts, PlanFacts DEF AloneInv, OwnInv
<1>2. ASSUME NEW m \in 1 .. L PROVE Done(commandList[m], Drawing(m - 1)) = Drawing(m)
  <2> DEFINE q == m - 1
  <2>1. q \in Nat /\ q + 1 = m /\ q < L + Len(redoCommandList)
    BY <1>1
  <2> HIDE DEF q
  <2>2. Done(Planned[q + 1], Drawing(q)) = Drawing(q + 1)
    BY <2>1, DrawingGrows
  <2>3. Planned[m] = commandList[m]
    BY <1>1
  <2> QED BY <2>1, <2>2, <2>3 DEF q
<1>3. Chain(w)
  <2>1. ASSUME NEW m \in 0 .. L
        PROVE  Drawing(m) = IF m = 0 THEN {} ELSE Done(commandList[m], w[m - 1])
    <3>1. CASE m = 0
      BY <3>1, DrawingStarts
    <3>2. CASE m # 0
      <4>1. m \in 1 .. L /\ m - 1 \in 0 .. L
        BY <1>1, <3>2
      <4>2. w[m - 1] = Drawing(m - 1)
        BY <4>1
      <4> QED BY <1>2, <3>2, <4>1, <4>2
    <3> QED BY <3>1, <3>2
  <2> QED BY <2>1
<1> HIDE DEF w
<1>4. After = CHOOSE f : Chain(f)
  BY DEF After
<1>5. Chain(After)
  BY <1>3, <1>4
<1>6. After[0] = {} /\ \A m \in 1 .. L : After[m] = Done(commandList[m], After[m - 1])
  <2>1. 0 \in 0 .. L /\ \A m \in 1 .. L : m \in 0 .. L /\ m # 0
    BY <1>1
  <2> QED BY <1>5, <2>1
<1> DEFINE T == {m \in Nat : m <= L => After[m] = Drawing(m)}
<1>7. 0 \in T
  BY <1>6, DrawingStarts
<1>8. ASSUME NEW m \in T PROVE m + 1 \in T
  <2>1. SUFFICES ASSUME m + 1 <= L PROVE After[m + 1] = Drawing(m + 1)
    OBVIOUS
  <2>2. m + 1 \in 1 .. L /\ (m + 1) - 1 = m /\ m <= L
    BY <1>1, <2>1
  <2>3. After[m + 1] = Done(commandList[m + 1], After[m])
    BY <1>6, <2>2
  <2>4. Done(commandList[m + 1], Drawing(m)) = Drawing(m + 1)
    BY <1>2, <2>2
  <2> QED BY <2>2, <2>3, <2>4
<1>9. T = Nat
  <2> HIDE DEF T
  <2> QED BY <1>7, <1>8, SetInduction DEF T
<1>10. n \in Nat /\ n <= L
  BY <1>1
<1> QED BY <1>9, <1>10

LEMMA AgainIsDrawing ==
  ASSUME AloneInv, NEW j \in 1 .. Len(redoCommandList)
  PROVE  Again[j] = Drawing(Len(commandList) + Len(redoCommandList) + 1 - j)
<1> DEFINE L == Len(commandList)
           R == Len(redoCommandList)
           Chain(f) == f = [i \in 1 .. R |->
                              Done(redoCommandList[i], IF i = R THEN After[L] ELSE f[i + 1])]
           w == [i \in 1 .. R |-> Drawing(L + R + 1 - i)]
<1>1. L \in Nat /\ R \in Nat
  BY CanvasInvFacts, PlanFacts DEF AloneInv, OwnInv
<1>2. ASSUME NEW i \in 1 .. R
      PROVE  Done(redoCommandList[i], Drawing(L + R - i)) = Drawing(L + R + 1 - i)
  <2> DEFINE q == L + R - i
  <2>1. q \in Nat /\ q + 1 = L + R + 1 - i /\ q < L + R
    BY <1>1
  <2>2. Planned[q + 1] = redoCommandList[i]
    <3>1. q + 1 \in 1 .. L + R /\ ~ (q + 1 <= L) /\ L + R + 1 - (q + 1) = i
      BY <1>1
    <3> HIDE DEF q
    <3> QED BY <3>1 DEF Planned
  <2> HIDE DEF q
  <2>3. Done(Planned[q + 1], Drawing(q)) = Drawing(q + 1)
    BY <2>1, DrawingGrows
  <2> QED BY <2>1, <2>2, <2>3 DEF q
<1>3. After[L] = Drawing(L)
  BY <1>1, AfterIsDrawing
<1>4. Chain(w)
  <2>1. ASSUME NEW i \in 1 .. R
        PROVE  Drawing(L + R + 1 - i)
                 = Done(redoCommandList[i], IF i = R THEN After[L] ELSE w[i + 1])
    <3>1. CASE i = R
      <4>1. L + R - i = L
        BY <1>1, <3>1
      <4> QED BY <1>2, <1>3, <3>1, <4>1
    <3>2. CASE i # R
      <4>1. i + 1 \in 1 .. R /\ L + R + 1 - (i + 1) = L + R - i
        BY <1>1, <3>2
      <4>2. w[i + 1] = Drawing(L + R - i)
        BY <4>1
      <4> QED BY <1>2, <3>2, <4>2
    <3> QED BY <3>1, <3>2
  <2> QED BY <2>1
<1> HIDE DEF w
<1>5. Again = CHOOSE f : Chain(f)
  BY DEF Again
<1>6. Chain(Again)
  BY <1>4, <1>5
<1>7. \A i \in 1 .. R :
        Again[i] = Done(redoCommandList[i], IF i = R THEN After[L] ELSE Again[i + 1])
  BY <1>6
<1> DEFINE T == {m \in Nat : m < R => Again[R - m] = Drawing(L + m + 1)}
<1>8. 0 \in T
  <2>1. SUFFICES ASSUME 0 < R PROVE Again[R] = Drawing(L + 1)
    BY <1>1
  <2>2. R \in 1 .. R /\ L + R - R = L /\ L + R + 1 - R = L + 1
    BY <1>1, <2>1
  <2>3. Again[R] = Done(redoCommandList[R], Drawing(L))
    BY <1>3, <1>7, <2>2
  <2>4. Done(redoCommandList[R], Drawing(L)) = Drawing(L + 1)
    BY <1>2, <2>2
  <2> QED BY <2>3, <2>4
<1>9. ASSUME NEW m \in T PROVE m + 1 \in T
  <2>1. SUFFICES ASSUME m + 1 < R PROVE Again[R - (m + 1)] = Drawing(L + (m + 1) + 1)
    OBVIOUS
  <2> DEFINE i == R - (m + 1)
  <2>2. /\ m < R /\ i \in 1 .. R /\ i # R /\ i + 1 = R - m
        /\ L + R - i = L + m + 1 /\ L + R + 1 - i = L + (m + 1) + 1
    BY <1>1, <2>1
  <2> HIDE DEF i
  <2>3. Again[i] = Done(redoCommandList[i], Again[R - m])
    BY <1>7, <2>2
  <2>4. Again[R - m] = Drawing(L + m + 1)
    BY <2>2
  <2>5. Done(redoCommandList[i], Drawing(L + m + 1)) = Drawing(L + (m + 1) + 1)
    BY <1>2, <2>2
  <2> QED BY <2>3, <2>4, <2>5 DEF i
<1>10. T = Nat
  <2> HIDE DEF T
  <2> QED BY <1>8, <1>9, SetInduction DEF T
<1>11. R - j \in Nat /\ R - j < R /\ R - (R - j) = j /\ L + (R - j) + 1 = L + R + 1 - j
  BY <1>1
<1> QED
  <2> DEFINE m == R - j
  <2> HIDE DEF m
  <2>1. m \in Nat /\ m < R /\ R - m = j /\ L + m + 1 = L + R + 1 - j
    BY <1>11 DEF m
  <2>2. Again[R - m] = Drawing(L + m + 1)
    BY <1>10, <2>1
  <2> QED BY <2>1, <2>2

(* The state of UndoableDocument, as drawings of the plan.                  *)
Mapped ==
  /\ Painting = Present
  /\ [n \in 1 .. Len(commandList) |-> After[n - 1]] = Before
  /\ [j \in 1 .. Len(redoCommandList) |-> Again[j]] = Ahead

LEMMA AloneIsMapped == AloneInv => Mapped
<1> SUFFICES ASSUME AloneInv PROVE Mapped
  OBVIOUS
<1>1. Len(commandList) \in Nat
  BY CanvasInvFacts, PlanFacts DEF AloneInv, OwnInv
<1>2. ASSUME NEW n \in 1 .. Len(commandList) PROVE After[n - 1] = Drawing(n - 1)
  <2>1. n - 1 \in 0 .. Len(commandList)
    BY <1>1
  <2> QED BY <2>1, AfterIsDrawing
<1>3. [n \in 1 .. Len(commandList) |-> After[n - 1]] = Before
  BY <1>2 DEF Before
<1>4. [j \in 1 .. Len(redoCommandList) |-> Again[j]] = Ahead
  BY AgainIsDrawing DEF Ahead
<1> QED BY <1>3, <1>4, PaintingIsPresent DEF Mapped

-----------------------------------------------------------------------------
(* Steps.  The drawings of the plan before and after one.                   *)

LEMMA DrawingTypes ==
  ASSUME AloneInv
  PROVE  /\ Len(commandList) \in Nat /\ Len(redoCommandList) \in Nat
         /\ Present \in SUBSET Key
         /\ Before \in [1 .. Len(commandList) -> SUBSET Key]
         /\ Ahead \in [1 .. Len(redoCommandList) -> SUBSET Key]
<1>1. Len(commandList) \in Nat /\ Len(redoCommandList) \in Nat
  BY CanvasInvFacts, PlanFacts DEF AloneInv, OwnInv
<1>2. \A n : Drawing(n) \in SUBSET Key
  BY DEF Drawing
<1> QED BY <1>1, <1>2 DEF Present, Before, Ahead

SameDocument == UNCHANGED <<Present, Before, Ahead>>

Edits == Present' \in SUBSET Key /\ Before' = Append(Before, Present) /\ Ahead' = <<>>

Undoes ==
  /\ Before # <<>>
  /\ Present' = Before[Len(Before)]
  /\ Before' = SubSeq(Before, 1, Len(Before) - 1)
  /\ Ahead' = Append(Ahead, Present)

Redoes ==
  /\ Ahead # <<>>
  /\ Present' = Ahead[Len(Ahead)]
  /\ Before' = Append(Before, Present)
  /\ Ahead' = SubSeq(Ahead, 1, Len(Ahead) - 1)

Clears == Present' = {} /\ Before' = <<>> /\ Ahead' = <<>>

LEMMA UndoStep ==
  ASSUME AloneInv, UndoCommand
  PROVE  Undoes
<1> DEFINE L == Len(commandList)
           R == Len(redoCommandList)
<1>1. /\ L \in Nat /\ R \in Nat /\ L # 0 /\ Len(commandList') = L - 1
      /\ Len(redoCommandList') = R + 1 /\ Planned' = Planned
  BY CanvasInvFacts, UndoInPlan DEF AloneInv, OwnInv
<1>2. \A n : Drawing(n)' = Drawing(n)
  BY <1>1 DEF Drawing
<1>3. \A n : Drawing(n) \in SUBSET Key
  BY DEF Drawing
<1>4. /\ Present = Drawing(L) /\ Present' = Drawing(L - 1)
      /\ Before = [n \in 1 .. L |-> Drawing(n - 1)]
      /\ Before' = [n \in 1 .. L - 1 |-> Drawing(n - 1)]
      /\ Ahead = [j \in 1 .. R |-> Drawing(L + R + 1 - j)]
      /\ Ahead' = [j \in 1 .. R + 1 |-> Drawing((L - 1) + (R + 1) + 1 - j)]
  BY <1>1, <1>2 DEF Present, Before, Ahead
<1> HIDE DEF L, R
<1>5. /\ Before # <<>> /\ Len(Before) = L /\ Before' = SubSeq(Before, 1, Len(Before) - 1)
  <2> DEFINE n == L - 1
  <2>1. n \in Nat /\ n + 1 = L
    BY <1>1
  <2> HIDE DEF n
  <2>2. Before \in [1 .. n + 1 -> SUBSET Key]
    BY <1>3, <1>4, <2>1
  <2>3. Before' \in [1 .. n -> SUBSET Key] /\ \A i \in 1 .. n : Before'[i] = Before[i]
    BY <1>3, <1>4, <2>1 DEF n
  <2> QED BY <2>1, <2>2, <2>3, OneShorter
<1>6. Present' = Before[L]
  BY <1>1, <1>4
<1>7. Ahead' = Append(Ahead, Present)
  <2>1. Ahead \in [1 .. R -> SUBSET Key] /\ Ahead' \in [1 .. R + 1 -> SUBSET Key]
    BY <1>3, <1>4
  <2>2. ASSUME NEW j \in 1 .. R PROVE Ahead'[j] = Ahead[j]
    <3>1. j \in 1 .. R + 1 /\ (L - 1) + (R + 1) + 1 - j = L + R + 1 - j
      BY <1>1
    <3> QED BY <1>4, <3>1
  <2>3. Ahead'[R + 1] = Present
    <3>1. R + 1 \in 1 .. R + 1 /\ (L - 1) + (R + 1) + 1 - (R + 1) = L
      BY <1>1
    <3> QED BY <1>4, <3>1
  <2> QED BY <1>1, <2>1, <2>2, <2>3, OneLonger
<1> QED BY <1>5, <1>6, <1>7 DEF Undoes

LEMMA RedoStep ==
  ASSUME AloneInv, RedoCommand
  PROVE  Redoes
<1> DEFINE L == Len(commandList)
           R == Len(redoCommandList)
<1>1. /\ L \in Nat /\ R \in Nat /\ R # 0 /\ Len(commandList') = L + 1
      /\ Len(redoCommandList') = R - 1 /\ Planned' = Planned
  BY CanvasInvFacts, RedoInPlan DEF AloneInv, OwnInv
<1>2. \A n : Drawing(n)' = Drawing(n)
  BY <1>1 DEF Drawing
<1>3. \A n : Drawing(n) \in SUBSET Key
  BY DEF Drawing
<1>4. /\ Present = Drawing(L) /\ Present' = Drawing(L + 1)
      /\ Before = [n \in 1 .. L |-> Drawing(n - 1)]
      /\ Before' = [n \in 1 .. L + 1 |-> Drawing(n - 1)]
      /\ Ahead = [j \in 1 .. R |-> Drawing(L + R + 1 - j)]
      /\ Ahead' = [j \in 1 .. R - 1 |-> Drawing((L + 1) + (R - 1) + 1 - j)]
  BY <1>1, <1>2 DEF Present, Before, Ahead
<1> HIDE DEF L, R
<1>5. Ahead # <<>> /\ Len(Ahead) = R /\ Ahead' = SubSeq(Ahead, 1, Len(Ahead) - 1)
  <2> DEFINE n == R - 1
  <2>1. n \in Nat /\ n + 1 = R
    BY <1>1
  <2> HIDE DEF n
  <2>2. Ahead \in [1 .. n + 1 -> SUBSET Key] /\ Ahead' \in [1 .. n -> SUBSET Key]
    BY <1>3, <1>4, <2>1 DEF n
  <2>3. ASSUME NEW j \in 1 .. n PROVE Ahead'[j] = Ahead[j]
    <3>1. j \in 1 .. R /\ j \in 1 .. R - 1 /\ (L + 1) + (R - 1) + 1 - j = L + R + 1 - j
      BY <1>1, <2>1
    <3> QED BY <1>4, <3>1
  <2> QED BY <2>1, <2>2, <2>3, OneShorter
<1>6. Present' = Ahead[R]
  <2>1. R \in 1 .. R /\ L + R + 1 - R = L + 1
    BY <1>1
  <2> QED BY <1>4, <2>1
<1>7. Before' = Append(Before, Present)
  <2>1. Before \in [1 .. L -> SUBSET Key] /\ Before' \in [1 .. L + 1 -> SUBSET Key]
    BY <1>3, <1>4
  <2>2. \A i \in 1 .. L : Before'[i] = Before[i]
    BY <1>1, <1>4
  <2>3. Before'[L + 1] = Present
    <3>1. L + 1 \in 1 .. L + 1 /\ (L + 1) - 1 = L
      BY <1>1
    <3> QED BY <1>4, <3>1
  <2> QED BY <1>1, <2>1, <2>2, <2>3, OneLonger
<1> QED BY <1>5, <1>6, <1>7 DEF Redoes

LEMMA CommandStep ==
  ASSUME AloneInv, NEW c \in Command, ExecuteCommand(c)
  PROVE  Edits
<1>1. PICK L \in Nat : L = Len(commandList)
  BY CanvasInvFacts, PlanFacts DEF AloneInv, OwnInv
<1>2. /\ Len(commandList') = L + 1 /\ Len(redoCommandList') = 0
      /\ \A i \in 1 .. L : commandList'[i] = commandList[i]
      /\ Agree(commandList, Planned, L)
  <2>1. commandList' = Append(commandList, c) /\ redoCommandList' = <<>>
    BY DEF ExecuteCommand
  <2>2. TypeOK
    BY CanvasInvFacts DEF AloneInv, OwnInv
  <2> QED BY <1>1, <2>1, <2>2, Pushed, PlanFacts DEF TypeOK
<1>3. \A i \in 1 .. L : Planned'[i] = commandList'[i]
  BY <1>2 DEF Planned
<1>4. Agree(Planned, Planned', L)
  BY <1>2, <1>3 DEF Agree
<1>5. ASSUME NEW n \in 0 .. L PROVE Drawing(n)' = Drawing(n)
  <2>1. n \in Int /\ Agree(Planned, Planned', n)
    BY <1>2, <1>4 DEF Agree
  <2>2. \A k : VisibleAfter(Planned', k, n) = VisibleAfter(Planned, k, n)
    BY <2>1, SamePainting
  <2> QED BY <2>2 DEF Drawing
<1>6. \A n : Drawing(n) \in SUBSET Key /\ Drawing(n)' \in SUBSET Key
  BY DEF Drawing
<1>7. /\ Present = Drawing(L) /\ Present' = Drawing(L + 1)'
      /\ Before = [n \in 1 .. L |-> Drawing(n - 1)]
      /\ Before' = [n \in 1 .. L + 1 |-> Drawing(n - 1)']
      /\ Ahead' = [j \in 1 .. 0 |-> Drawing((L + 1) + 0 + 1 - j)']
  BY <1>1, <1>2 DEF Present, Before, Ahead, Drawing
<1>8. Before' = Append(Before, Present)
  <2>1. Before \in [1 .. L -> SUBSET Key] /\ Before' \in [1 .. L + 1 -> SUBSET Key]
    BY <1>6, <1>7
  <2>2. ASSUME NEW i \in 1 .. L PROVE Before'[i] = Before[i]
    <3>1. i \in 1 .. L + 1 /\ i - 1 \in 0 .. L
      BY <1>2
    <3> QED BY <1>5, <1>7, <3>1
  <2>3. Before'[L + 1] = Present
    <3>1. L + 1 \in 1 .. L + 1 /\ (L + 1) - 1 = L /\ L \in 0 .. L
      BY <1>2
    <3> QED BY <1>5, <1>7, <3>1
  <2> QED BY <1>2, <2>1, <2>2, <2>3, OneLonger
<1>9. Ahead' = <<>>
  BY <1>7
<1> QED BY <1>6, <1>7, <1>8, <1>9 DEF Edits

LEMMA ClearStep ==
  ASSUME ClearScreen
  PROVE  Clears
<1>1. commandList' = <<>> /\ redoCommandList' = <<>>
  BY DEF ClearScreen, ClearHistoryCommand
<1>2. Len(<<>>) = 0
  OBVIOUS
<1>3. Drawing(0)' = {}
  <2>1. \A i \in 1 .. 0 : FALSE
    OBVIOUS
  <2>2. \A k : ~ VisibleAfter(Planned', k, 0)
    BY <2>1, NothingPainted
  <2> QED BY <2>2 DEF Drawing
<1>4. Present' = {}
  BY <1>1, <1>2, <1>3 DEF Present, Drawing
<1>5. Before' = <<>> /\ Ahead' = <<>>
  BY <1>1, <1>2 DEF Before, Ahead
<1> QED BY <1>4, <1>5 DEF Clears

LEMMA OtherStep ==
  ASSUME UNCHANGED stacks
  PROVE  SameDocument
BY DEF stacks, SameDocument, Present, Before, Ahead, Drawing, Planned

(* Every step edits, undoes, redoes or clears the document, or leaves it.   *)
LEMMA DocumentStep ==
  ASSUME AloneInv, [CanvasNext]_vars
  PROVE  Edits \/ Undoes \/ Redoes \/ Clears \/ SameDocument
<1>1. /\ TypeOK /\ [Next]_historyVars
  BY CanvasInvFacts, CanvasIsHistory DEF AloneInv, OwnInv
<1>2. CASE AddItem
  <2> DEFINE c == NewCommand("add", <<Me, NextId>>, NoData, NoData)
  <2>1. <<Me, NextId>> \in Key
    <3>1. Cardinality(items) \in Nat
      BY <1>1, FiniteKeys, FS_CardinalityType DEF TypeOK
    <3> QED BY <1>2, <3>1, PaintHistoryAssumption DEF AddItem, NextId, Key
  <2>2. c \in Command
    BY <2>1, NewCommandType, NoDataType, PaintHistoryAssumption DEF Kind
  <2> QED BY <1>2, <2>2, CommandStep DEF AddItem
<1>3. ASSUME NEW k \in Key, RemoveItem(k) PROVE Edits
  <2>1. NewCommand("remove", k, NoData, NoData) \in Command
    BY NewCommandType, NoDataType, PaintHistoryAssumption DEF Kind
  <2> QED BY <1>3, <2>1, CommandStep DEF RemoveItem
<1>4. ASSUME NEW k \in Key, NEW prev \in Data, NEW data \in Data,
             UpdateItem(k, prev, data) \/ MoveItem(k, prev, data)
      PROVE  FALSE
  BY <1>4, WorksAlone DEF UpdateItem, MoveItem
<1>5. CASE Edit
  BY <1>2, <1>3, <1>4, <1>5, UndoStep, RedoStep DEF Edit
<1>6. CASE View
  <2>1. ClearScreen \/ UNCHANGED stacks
    BY <1>6 DEF View, PlaybackTo, SetAllowPainterToDraw
  <2> QED BY <2>1, ClearStep, OtherStep
<1>7. CASE Session
  <2>1. UNCHANGED stacks
    BY <1>7 DEF Session, PeerTask, PeerCreatesItem, AnnouncePainter, SessionEnables
  <2> QED BY <2>1, OtherStep
<1>8. CASE UNCHANGED historyVars
  BY <1>8, OtherStep DEF historyVars
<1> QED BY <1>1, <1>5, <1>6, <1>7, <1>8 DEF Next

-----------------------------------------------------------------------------
(* The painting of a user who works alone, adding and removing items, with  *)
(* undo, redo, clear, playback and the painter filter in any order, is a    *)
(* document with undo and redo: for any number of item ids and histories of *)
(* any length.                                                              *)
THEOREM DocumentTheorem ==
  ASSUME Stale = FALSE, LateAnnounce = FALSE
  PROVE  CanvasSpec => ImplementsUndoableDocument
<1>1. AloneInv /\ [CanvasNext]_vars => AloneInv'
  BY AloneInvStep, WorksAlone
<1>2. CanvasInit => Undoable!DocInit
  <2> SUFFICES ASSUME CanvasInit PROVE Undoable!DocInit
    OBVIOUS
  <2>1. Mapped
    BY AloneInvInit, AloneIsMapped
  <2>2. commandList = <<>> /\ redoCommandList = <<>> /\ Len(<<>>) = 0
    BY DEF CanvasInit, Init
  <2>3. Present = {} /\ Before = <<>> /\ Ahead = <<>>
    BY <2>2, DrawingStarts DEF Present, Before, Ahead
  <2> QED BY <2>1, <2>3 DEF Mapped, Undoable!DocInit
<1>3. AloneInv /\ Mapped /\ Mapped' /\ [CanvasNext]_vars
        => [Undoable!DocNext]_(Undoable!docVars)
  <2> SUFFICES ASSUME AloneInv, Mapped, Mapped', [CanvasNext]_vars
               PROVE  [Undoable!DocNext]_(Undoable!docVars)
    OBVIOUS
  <2>1. CASE Edits
    BY <2>1 DEF Edits, Mapped, Undoable!DocNext, Undoable!DocEdit
  <2>2. CASE Undoes
    BY <2>2 DEF Undoes, Mapped, Undoable!DocNext, Undoable!DocUndo
  <2>3. CASE Redoes
    BY <2>3 DEF Redoes, Mapped, Undoable!DocNext, Undoable!DocRedo
  <2>4. CASE Clears
    BY <2>4 DEF Clears, Mapped, Undoable!DocNext, Undoable!DocClear
  <2>5. CASE SameDocument
    BY <2>5 DEF SameDocument, Mapped, Undoable!docVars
  <2> QED BY <2>1, <2>2, <2>3, <2>4, <2>5, DocumentStep
<1>4. CanvasSpec => []AloneInv
  BY <1>1, AloneInvInit, PTL DEF CanvasSpec
<1>5. AloneInv => Mapped
  BY AloneIsMapped
<1> QED BY <1>2, <1>3, <1>4, <1>5, PTL DEF CanvasSpec, ImplementsUndoableDocument, Undoable!DocSpec
=============================================================================
