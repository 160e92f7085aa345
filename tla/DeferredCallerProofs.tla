------------------------ MODULE DeferredCallerProofs ------------------------
(***************************************************************************)
(* Proofs about module DeferredCaller, for any threads and any numbers of  *)
(* calls, timers and dialogs.                                              *)
(***************************************************************************)
EXTENDS DeferredCaller, FiniteSetTheorems, TLAPS

-----------------------------------------------------------------------------
(* Sequences.                                                               *)

LEMMA Appended ==
  ASSUME NEW S, NEW q \in Seq(S), NEW e \in S
  PROVE  /\ Append(q, e) \in Seq(S)
         /\ Len(Append(q, e)) = Len(q) + 1 /\ Append(q, e)[Len(q) + 1] = e
         /\ \A k \in 1 .. Len(q) : Append(q, e)[k] = q[k]
  OBVIOUS

LEMMA Cut ==
  ASSUME NEW S, NEW q \in Seq(S), NEW m \in Nat \ {0}, NEW n \in Nat, m <= n + 1, n <= Len(q)
  PROVE  /\ SubSeq(q, m, n) \in Seq(S) /\ Len(SubSeq(q, m, n)) = (n + 1) - m
         /\ \A k \in 1 .. (n + 1) - m : SubSeq(q, m, n)[k] = q[m + k - 1]
  OBVIOUS

LEMMA Joined ==
  ASSUME NEW S, NEW q \in Seq(S), NEW e \in S
  PROVE  /\ q \o <<e>> \in Seq(S) /\ Len(q \o <<e>>) = Len(q) + 1
         /\ (q \o <<e>>)[Len(q) + 1] = e
         /\ \A k \in 1 .. Len(q) : (q \o <<e>>)[k] = q[k]
  OBVIOUS

LEMMA NotEmpty ==
  ASSUME NEW S, NEW q \in Seq(S), q # <<>>
  PROVE  Len(q) \in Nat \ {0} /\ Last(q) = q[Len(q)] /\ Last(q) \in S
<1>1. Len(q) \in Nat \ {0}
  OBVIOUS
<1> QED BY <1>1 DEF Last

LEMMA Shortened ==
  ASSUME NEW S, NEW q \in Seq(S), q # <<>>
  PROVE  /\ Front(q) \in Seq(S) /\ Len(Front(q)) = Len(q) - 1
         /\ \A k \in 1 .. Len(q) - 1 : Front(q)[k] = q[k]
<1> DEFINE n == Len(q) - 1
<1>1. n \in Nat /\ n <= Len(q) /\ Front(q) = SubSeq(q, 1, n)
  BY NotEmpty DEF Front
<1> HIDE DEF n
<1>2. /\ SubSeq(q, 1, n) \in Seq(S) /\ Len(SubSeq(q, 1, n)) = n
      /\ \A k \in 1 .. n : SubSeq(q, 1, n)[k] = q[k]
  BY <1>1, Cut
<1> QED BY <1>1, <1>2 DEF n

LEMMA Replaced ==
  ASSUME NEW S, NEW q \in Seq(S), q # <<>>, NEW e \in S
  PROVE  /\ Front(q) \o <<e>> \in Seq(S)
         /\ Len(Front(q) \o <<e>>) = Len(q) /\ (Front(q) \o <<e>>)[Len(q)] = e
         /\ \A k \in 1 .. Len(q) - 1 : (Front(q) \o <<e>>)[k] = q[k]
<1>1. /\ Front(q) \in Seq(S) /\ Len(Front(q)) = Len(q) - 1
      /\ \A k \in 1 .. Len(q) - 1 : Front(q)[k] = q[k]
  BY Shortened
<1>2. Len(q) \in Nat \ {0}
  BY NotEmpty
<1> QED BY <1>1, <1>2, Joined

-----------------------------------------------------------------------------
(* The stack of frames.                                                     *)

depth == Len(frames)

LEMMA TopFacts ==
  ASSUME TypeOK, Step # "idle"
  PROVE  /\ depth \in Nat \ {0} /\ depth \in 1 .. depth
         /\ Top = frames[depth] /\ Top \in Frame /\ Step = Top.step
         /\ Top.at \in 0 .. Len(Top.methods)
<1>1. frames \in Seq(Frame) /\ frames # <<>>
  BY DEF TypeOK, Step
<1>2. depth \in Nat \ {0} /\ Top = frames[depth] /\ Top \in Frame
  BY <1>1, NotEmpty DEF Top, depth
<1>3. Top.at \in 0 .. Len(Top.methods)
  BY <1>2 DEF TypeOK, depth
<1> QED BY <1>1, <1>2, <1>3 DEF Step

LEMMA StepOfFrame == \A g \in Frame : g.step \in {"copy", "run", "dialog", "trim"}
  BY DEF Frame

LEMMA FrameHasFields == \A g \in Frame : g.methods \in Seq(Call) /\ g.at \in Nat
  BY DEF Frame

LEMMA Idle == TypeOK => (Step = "idle" <=> depth = 0) /\ depth \in Nat
<1> SUFFICES ASSUME TypeOK PROVE (Step = "idle" <=> depth = 0) /\ depth \in Nat
  OBVIOUS
<1>1. frames \in Seq(Frame) /\ depth \in Nat
  BY DEF TypeOK, depth
<1>2. CASE frames = <<>>
  BY <1>2 DEF Step, depth
<1>3. CASE frames # <<>>
  <2>1. Top \in Frame /\ depth # 0
    BY <1>1, <1>3, NotEmpty DEF Top, depth
  <2>2. Top.step # "idle"
    BY <2>1, StepOfFrame
  <2>3. Step = Top.step
    BY <1>3 DEF Step
  <2> QED BY <1>1, <2>1, <2>2, <2>3
<1> QED BY <1>1, <1>2, <1>3

(* The frames below the top are those of activations that wait for a dialog.*)
LEMMA BelowTop ==
  ASSUME TypeOK, NEW k \in 1 .. depth - 1
  PROVE  k \in 1 .. depth /\ frames[k] \in Frame /\ frames[k].step = "dialog"
<1>1. depth \in Nat /\ k \in 1 .. depth /\ k # depth
  BY DEF TypeOK, depth
<1> QED BY <1>1 DEF TypeOK, depth

LEMMA FrameType ==
  ASSUME TypeOK, NEW k \in 1 .. depth
  PROVE  frames[k] \in Frame /\ frames[k].at \in 0 .. Len(frames[k].methods)
  BY DEF TypeOK, depth

(* What a frame becomes when it copies the queue, and when its call opens a *)
(* dialog.                                                                  *)
Copied(g, m, t) == [g EXCEPT !.methods = m, !.timers = t, !.at = 0, !.step = "run"]

LEMMA CopiedFrame ==
  ASSUME NEW g \in Frame, NEW m \in Seq(Call), NEW t \in Nat
  PROVE  /\ Copied(g, m, t) \in Frame /\ Copied(g, m, t).methods = m
         /\ Copied(g, m, t).at = 0 /\ Copied(g, m, t).dialog = g.dialog
         /\ Copied(g, m, t).step = "run"
  BY DEF Copied, Frame

InDialog(g, a) == [g EXCEPT !.at = a, !.dialog = TRUE, !.step = "dialog"]

LEMMA DialogFrame ==
  ASSUME NEW g \in Frame, NEW a \in Nat
  PROVE  /\ InDialog(g, a) \in Frame /\ InDialog(g, a).methods = g.methods
         /\ InDialog(g, a).at = a /\ InDialog(g, a).dialog = TRUE
         /\ InDialog(g, a).step = "dialog"
  BY DEF InDialog, Frame

(* The top is replaced by f.                                                *)
LEMMA TopSet ==
  ASSUME TypeOK, Step # "idle", NEW f \in Frame, SetTop(f)
  PROVE  /\ frames' \in Seq(Frame) /\ depth' = depth /\ frames'[depth] = f
         /\ \A k \in 1 .. depth - 1 : frames'[k] = frames[k]
<1>1. frames \in Seq(Frame) /\ frames # <<>>
  BY DEF TypeOK, Step
<1> QED BY <1>1, Replaced DEF SetTop, depth

LEMMA TopPushed ==
  ASSUME TypeOK, frames' = Append(frames, NewFrame)
  PROVE  /\ frames' \in Seq(Frame) /\ depth \in Nat /\ depth' = depth + 1 /\ frames'[depth + 1] = NewFrame
         /\ \A k \in 1 .. depth : frames'[k] = frames[k]
<1>1. frames \in Seq(Frame) /\ NewFrame \in Frame
  BY DEF TypeOK, NewFrame, Frame
<1> QED BY <1>1, Appended DEF depth

LEMMA TopPopped ==
  ASSUME TypeOK, Step # "idle", frames' = Front(frames)
  PROVE  /\ frames' \in Seq(Frame) /\ depth' = depth - 1
         /\ \A k \in 1 .. depth - 1 : frames'[k] = frames[k]
<1>1. frames \in Seq(Frame) /\ frames # <<>>
  BY DEF TypeOK, Step
<1> QED BY <1>1, Shortened DEF depth
-----------------------------------------------------------------------------
(* Types.                                                                   *)

FramesType ==
  /\ frames \in Seq(Frame)
  /\ \A i \in 1 .. Len(frames) :
       /\ frames[i].at \in 0 .. Len(frames[i].methods)
       /\ (frames[i].step = "dialog") \/ (i = Len(frames))

(* The timers that wait are finitely many.                                  *)
LEMMA TimersFinite == TypeOK => Cardinality(deferredMethodsForTimer) \in Nat
<1>1. IsFiniteSet(Timer)
  BY DeferredCallerAssumption, FS_Interval DEF Timer
<1> QED BY <1>1, FS_Subset, FS_CardinalityType DEF TypeOK

LEMMA TopSetType ==
  ASSUME TypeOK, Step # "idle", NEW f \in Frame, f.at \in 0 .. Len(f.methods), SetTop(f)
  PROVE  FramesType'
<1>1. /\ frames' \in Seq(Frame) /\ depth' = depth /\ frames'[depth] = f
      /\ \A k \in 1 .. depth - 1 : frames'[k] = frames[k]
  BY TopSet
<1>2. depth \in Nat
  BY TopFacts
<1> SUFFICES ASSUME NEW i \in 1 .. depth
             PROVE  /\ frames'[i].at \in 0 .. Len(frames'[i].methods)
                    /\ (frames'[i].step = "dialog") \/ (i = depth)
  BY <1>1 DEF FramesType, depth
<1>3. CASE i \in 1 .. depth - 1
  BY <1>1, <1>3, BelowTop, FrameType
<1> QED BY <1>1, <1>2, <1>3

(* A thread's push, of a call or of a call with a delay.                    *)
LEMMA PushType ==
  ASSUME TypeOK, Push \/ PushTimer, posting' \subseteq Thread, events' \in Nat
  PROVE  TypeOK'
<1>1. CASE Push
  <2>1. deferred \in Nat /\ deferred + 1 \in Call /\ deferred' = deferred + 1
        /\ deferred' \in 0 .. MaxCall
    BY <1>1, DeferredCallerAssumption DEF TypeOK, Push, Call
  <2>2. deferredMethods' \in Seq(Call)
    BY <1>1, <2>1, Appended DEF TypeOK, Push, Pushed
  <2>3. behindDialog' \subseteq Call
    BY <1>1, <2>1 DEF TypeOK, Push
  <2> QED BY <1>1, <2>1, <2>2, <2>3 DEF TypeOK, Push
<1>2. CASE PushTimer
  <2>1. delayed \in Nat /\ delayed + 1 \in Timer /\ delayed' = delayed + 1
        /\ delayed' \in 0 .. MaxTimer
    BY <1>2, DeferredCallerAssumption DEF TypeOK, PushTimer, Timer
  <2> QED BY <1>2, <2>1 DEF TypeOK, PushTimer
<1> QED BY <1>1, <1>2

LEMMA CopyFacts ==
  ASSUME TypeOK, Copy
  PROVE  /\ Step = "copy"
         /\ \E f \in Frame :
              /\ f.at = 0 /\ 0 \in 0 .. Len(f.methods) /\ SetTop(f) /\ f.step = "run"
              /\ f.methods = deferredMethods /\ f.dialog = Top.dialog
<1> DEFINE t == Cardinality(deferredMethodsForTimer)
           f == Copied(Top, deferredMethods, t)
<1>1. Step = "copy" /\ SetTop(f)
  BY DEF Copy, Copied
<1>2. Top \in Frame /\ deferredMethods \in Seq(Call) /\ Len(deferredMethods) \in Nat /\ t \in Nat
  BY <1>1, TopFacts, TimersFinite DEF TypeOK
<1> HIDE DEF t
<1>3. /\ f \in Frame /\ f.methods = deferredMethods /\ f.at = 0
      /\ f.dialog = Top.dialog /\ f.step = "run"
  BY <1>2, CopiedFrame
<1> QED BY <1>1, <1>2, <1>3

(* Call c is made, for the first time or again.                             *)
Called(c) ==
  \/ c \notin Range(firstRuns) /\ firstRuns' = Append(firstRuns, c) /\ again' = again
  \/ c \in Range(firstRuns) /\ firstRuns' = firstRuns /\ again' = again \cup {c}

(* A call is made: which one, and what becomes of the frame.                *)
LEMMA RunCallFacts ==
  ASSUME TypeOK, RunCall
  PROVE  /\ Step = "run" /\ Top.at + 1 \in 1 .. Len(Top.methods)
         /\ Top.methods[Top.at + 1] \in Call
         /\ Called(Top.methods[Top.at + 1])
         /\ \E f \in Frame :
              /\ f.at \in 0 .. Len(f.methods) /\ SetTop(f)
              /\ f.methods = Top.methods /\ f.at = Top.at + 1
              /\ \/ f.step = "run" /\ f.dialog = Top.dialog /\ UNCHANGED <<dialogs, disturbed>>
                 \/ /\ f.step = "dialog" /\ f.dialog = TRUE
                    /\ dialogs < MaxDialog /\ dialogs' = dialogs + 1
                    /\ disturbed' = disturbed \cup Range(Top.methods)
<1>1. Step = "run" /\ Top.at < Len(Top.methods)
  BY DEF RunCall
<1>2. /\ Top \in Frame /\ Top.at \in 0 .. Len(Top.methods)
      /\ Top.methods \in Seq(Call) /\ Len(Top.methods) \in Nat
  BY <1>1, TopFacts DEF Frame
<1>3. Top.at + 1 \in 1 .. Len(Top.methods)
  BY <1>1, <1>2
<1>4. Top.methods[Top.at + 1] \in Call
  BY <1>2, <1>3
<1>5. ASSUME SetTop([Top EXCEPT !.at = @ + 1]), UNCHANGED <<dialogs, disturbed>>
      PROVE  \E f \in Frame :
               /\ f.at \in 0 .. Len(f.methods) /\ SetTop(f)
               /\ f.methods = Top.methods /\ f.at = Top.at + 1
               /\ f.step = "run" /\ f.dialog = Top.dialog /\ UNCHANGED <<dialogs, disturbed>>
  <2> DEFINE f == [Top EXCEPT !.at = @ + 1]
  <2>1. /\ f \in Frame /\ f.at \in 0 .. Len(f.methods) /\ f.methods = Top.methods
        /\ f.at = Top.at + 1 /\ f.step = "run" /\ f.dialog = Top.dialog
    BY <1>1, <1>2, <1>3, TopFacts DEF Frame
  <2> QED BY <1>5, <2>1
<1>6. ASSUME SetTop([Top EXCEPT !.at = @ + 1, !.dialog = TRUE, !.step = "dialog"])
      PROVE  \E f \in Frame :
               /\ f.at \in 0 .. Len(f.methods) /\ SetTop(f)
               /\ f.methods = Top.methods /\ f.at = Top.at + 1
               /\ f.step = "dialog" /\ f.dialog = TRUE
  <2> DEFINE f == InDialog(Top, Top.at + 1)
  <2>1. SetTop(f)
    BY <1>6 DEF InDialog
  <2>2. /\ f \in Frame /\ f.methods = Top.methods /\ f.at = Top.at + 1
        /\ f.dialog = TRUE /\ f.step = "dialog"
    <3>1. Top.at + 1 \in Nat /\ Top \in Frame
      BY <1>2
    <3> QED BY <3>1, DialogFrame
  <2> QED BY <1>2, <1>3, <2>1, <2>2
<1>7. Called(Top.methods[Top.at + 1])
  BY DEF RunCall, Called
<1> QED BY <1>1, <1>3, <1>4, <1>5, <1>6, <1>7 DEF RunCall

(* The top frame is at another step, the same otherwise.                    *)
StepSet(step) ==
  \E f \in Frame :
    /\ f.at \in 0 .. Len(f.methods) /\ SetTop(f) /\ f.step = step
    /\ f.methods = Top.methods /\ f.at = Top.at /\ f.dialog = Top.dialog

LEMMA StepChanged ==
  ASSUME TypeOK, Step # "idle", NEW step \in {"copy", "run", "dialog", "trim"},
         SetTop([Top EXCEPT !.step = step])
  PROVE  StepSet(step)
<1> DEFINE f == [Top EXCEPT !.step = step]
<1>1. Top \in Frame /\ Top.at \in 0 .. Len(Top.methods)
  BY TopFacts
<1>2. /\ f \in Frame /\ f.step = step /\ f.methods = Top.methods
      /\ f.at = Top.at /\ f.dialog = Top.dialog
  BY <1>1 DEF Frame
<1> QED BY <1>1, <1>2 DEF StepSet

(* What is left of a queue is its end.                                      *)
LEMMA TrimmedFacts ==
  ASSUME NEW q \in Seq(Call), NEW m \in Seq(Call)
  PROVE  /\ Trimmed(q, m) \in Seq(Call)
         /\ Len(m) \in Nat /\ Len(q) \in Nat
         /\ Len(Trimmed(q, m)) = IF Len(m) < Len(q) THEN Len(q) - Len(m) ELSE 0
         /\ \A i \in 1 .. Len(Trimmed(q, m)) :
              Trimmed(q, m)[i] = q[Len(m) + i] /\ Len(m) + i \in 1 .. Len(q)
<1>1. Len(m) \in Nat /\ Len(q) \in Nat
  OBVIOUS
<1>2. CASE Len(m) < Len(q)
  <2>1. Len(m) + 1 \in Nat \ {0} /\ Len(m) + 1 <= Len(q) + 1 /\ Trimmed(q, m) = SubSeq(q, Len(m) + 1, Len(q))
    BY <1>1, <1>2 DEF Trimmed
  <2>2. /\ SubSeq(q, Len(m) + 1, Len(q)) \in Seq(Call)
        /\ Len(SubSeq(q, Len(m) + 1, Len(q))) = (Len(q) + 1) - (Len(m) + 1)
        /\ \A k \in 1 .. (Len(q) + 1) - (Len(m) + 1) :
             SubSeq(q, Len(m) + 1, Len(q))[k] = q[Len(m) + 1 + k - 1]
    BY <1>1, <2>1, Cut
  <2> QED BY <1>1, <1>2, <2>1, <2>2
<1>3. CASE ~(Len(m) < Len(q))
  BY <1>1, <1>3 DEF Trimmed
<1> QED BY <1>2, <1>3

(* An activation tidies the queue, and then starts over or returns.         *)
LEMMA TrimFacts ==
  ASSUME TypeOK, Trim
  PROVE  /\ Step = "trim"
         /\ deferredMethods' = Trimmed(deferredMethods, Top.methods)
         /\ deferredMethods' \in Seq(Call)
         /\ StepSet("copy") \/ frames' = Front(frames)
<1>1. Step = "trim"
  BY DEF Trim
<1>2. Top \in Frame
  BY <1>1, TopFacts
<1>3. deferredMethods' = Trimmed(deferredMethods, Top.methods) /\ deferredMethods' \in Seq(Call)
  BY <1>2, TrimmedFacts DEF Trim, TypeOK, Frame
<1>4. StepSet("copy") \/ frames' = Front(frames)
  BY <1>1, StepChanged DEF Trim
<1> QED BY <1>1, <1>3, <1>4

LEMMA StepSetType ==
  ASSUME TypeOK, Step # "idle", NEW step, StepSet(step)
  PROVE  FramesType'
  BY TopSetType DEF StepSet

LEMMA TypeNext == TypeOK /\ [Next]_vars => TypeOK'
<1> SUFFICES ASSUME TypeOK, [Next]_vars PROVE TypeOK'
  OBVIOUS
<1>1. ASSUME NEW t \in Thread, Defer(t) PROVE TypeOK'
  BY <1>1, PushType DEF Defer, TypeOK
<1>2. ASSUME NEW t \in Thread, Post(t) PROVE TypeOK'
  BY <1>2 DEF Post, TypeOK, queue
<1>3. CASE MainDefers
  BY <1>3, PushType DEF MainDefers, TypeOK
<1>4. CASE CloseDialog
  <2>1. FramesType'
    BY <1>4, StepChanged, StepSetType DEF CloseDialog
  <2> QED BY <1>4, <2>1 DEF CloseDialog, TypeOK, FramesType, queue
<1>5. CASE CustomEvent
  <2>1. FramesType'
    <3>1. /\ frames' \in Seq(Frame) /\ depth \in Nat /\ depth' = depth + 1
          /\ frames'[depth + 1] = NewFrame /\ \A k \in 1 .. depth : frames'[k] = frames[k]
      BY <1>5, TopPushed DEF CustomEvent
    <3>2. NewFrame.at \in 0 .. Len(NewFrame.methods)
      BY DEF NewFrame
    <3>3. ASSUME NEW k \in 1 .. depth PROVE frames[k].step = "dialog"
      <4>1. CASE k \in 1 .. depth - 1
        BY <4>1, BelowTop
      <4>2. CASE k = depth
        <5>1. Step # "idle"
          BY <3>1, <4>2, Idle
        <5> QED BY <1>5, <4>2, <5>1, TopFacts DEF CustomEvent, EventLoop
      <4> QED BY <3>1, <4>1, <4>2
    <3> QED BY <3>1, <3>2, <3>3, FrameType DEF FramesType, depth
  <2>2. events' \in Nat
    BY <1>5 DEF CustomEvent, TypeOK
  <2> QED BY <1>5, <2>1, <2>2 DEF CustomEvent, TypeOK, FramesType, queue
<1>6. CASE Copy
  <2>1. FramesType'
    BY <1>6, CopyFacts, TopSetType
  <2> QED BY <1>6, <2>1 DEF Copy, Started, TypeOK, FramesType
<1>7. CASE RunCall
  <2>1. FramesType' /\ dialogs' \in 0 .. MaxDialog /\ disturbed' \subseteq Call
    <3>1. PICK f \in Frame :
            /\ f.at \in 0 .. Len(f.methods) /\ SetTop(f)
            /\ \/ UNCHANGED <<dialogs, disturbed>>
               \/ /\ dialogs < MaxDialog /\ dialogs' = dialogs + 1
                  /\ disturbed' = disturbed \cup Range(Top.methods)
      BY <1>7, RunCallFacts
    <3>2. Step # "idle"
      BY <1>7 DEF RunCall
    <3>3. Range(Top.methods) \subseteq Call
      BY <3>2, TopFacts DEF Frame, Range
    <3>4. FramesType'
      BY <3>1, <3>2, TopSetType
    <3>5. dialogs \in Nat /\ dialogs <= MaxDialog /\ MaxDialog \in Nat /\ disturbed \subseteq Call
      BY DeferredCallerAssumption DEF TypeOK
    <3>6. CASE UNCHANGED <<dialogs, disturbed>>
      BY <3>4, <3>5, <3>6
    <3>7. CASE /\ dialogs < MaxDialog /\ dialogs' = dialogs + 1
               /\ disturbed' = disturbed \cup Range(Top.methods)
      BY <3>3, <3>4, <3>5, <3>7
    <3> QED BY <3>1, <3>6, <3>7
  <2>2. firstRuns' \in Seq(Call) /\ again' \subseteq Call
    <3> DEFINE c == Top.methods[Top.at + 1]
    <3>1. c \in Call /\ Called(c)
      BY <1>7, RunCallFacts
    <3> HIDE DEF c
    <3>2. firstRuns \in Seq(Call) /\ again \subseteq Call
      BY DEF TypeOK
    <3>3. Append(firstRuns, c) \in Seq(Call)
      BY <3>1, <3>2, Appended
    <3> QED BY <3>1, <3>2, <3>3 DEF Called
  <2> QED BY <1>7, <2>1, <2>2 DEF RunCall, TypeOK, FramesType, queue
<1>8. CASE CompareTimers
  <2>1. Step # "idle"
    BY <1>8 DEF CompareTimers
  <2>2. FramesType'
    BY <1>8, <2>1, StepChanged, StepSetType DEF CompareTimers
  <2>3. disturbed' \subseteq Call
    <3>1. Range(Top.methods) \subseteq Call
      BY <2>1, TopFacts DEF Frame, Range
    <3>2. disturbed' = disturbed \cup Range(Top.methods) \/ disturbed' = disturbed
      BY <1>8 DEF CompareTimers
    <3> QED BY <3>1, <3>2 DEF TypeOK
  <2> QED BY <1>8, <2>2, <2>3 DEF CompareTimers, TypeOK, FramesType, queue
<1>9. CASE Trim
  <2>1. FramesType'
    <3>1. CASE StepSet("copy")
      BY <1>9, <3>1, TrimFacts, StepSetType
    <3>2. CASE frames' = Front(frames)
      <4>1. /\ frames' \in Seq(Frame) /\ depth' = depth - 1 /\ depth \in Nat \ {0}
            /\ \A k \in 1 .. depth - 1 : frames'[k] = frames[k]
        BY <1>9, <3>2, TrimFacts, TopPopped, TopFacts
      <4> QED BY <4>1, BelowTop, FrameType DEF FramesType, depth
    <3> QED BY <1>9, <3>1, <3>2, TrimFacts
  <2> QED BY <1>9, <2>1, TrimFacts DEF Trim, TypeOK, FramesType
<1>10. ASSUME NEW t \in Timer, TimerEvent(t) PROVE TypeOK'
  BY <1>10 DEF TimerEvent, TypeOK
<1>11. CASE UNCHANGED vars
  BY <1>11 DEF vars, queue, TypeOK
<1> QED BY <1>1, <1>2, <1>3, <1>4, <1>5, <1>6, <1>7, <1>8, <1>9, <1>10, <1>11 DEF Next, Main

LEMMA InitType == Init => TypeOK
  BY DeferredCallerAssumption DEF Init, TypeOK

(* Every variable of the queue and of the activations keeps its type; only  *)
(* the innermost activation is at another place than in a dialog.           *)
THEOREM CallerTypeCorrect == Spec => []TypeOK
  BY InitType, TypeNext, PTL DEF Spec

-----------------------------------------------------------------------------
(* The order of first runs.                                                 *)

Sorted(s) == \A i, j \in 1 .. Len(s) : i < j => s[i] < s[j]

Queue == Range(deferredMethods)
Run == Range(firstRuns)

(* The calls of an activation's copy, those made, and those still to make.  *)
All(f) == Range(f.methods)
Done(f) == {f.methods[i] : i \in 1 .. f.at}
Left(f) == {f.methods[i] : i \in f.at + 1 .. Len(f.methods)}

(* What is queued or ran has been deferred.                                 *)
Numbered == \A c \in Queue \cup Run : c <= deferred

(* The queue and the copies of it are in the order of deferral; an          *)
(* activation that copies or tidies has made all calls of its copy.         *)
Ordered ==
  /\ Sorted(deferredMethods)
  /\ \A k \in 1 .. depth :
       /\ Sorted(frames[k].methods)
       /\ frames[k].step \in {"copy", "trim"} => frames[k].at = Len(frames[k].methods)

(* What an activation still has to run for the first time is queued.        *)
LeftIsQueued == \A k \in 1 .. depth : Left(frames[k]) \ Run \subseteq Queue

(* It is among what the activations inside its dialogs have still to run.   *)
Nested ==
  \A k, j \in 1 .. depth :
    k < j /\ frames[j].step # "copy" => Left(frames[k]) \ Run \subseteq Left(frames[j])

(* Whatever else waits for its first run was deferred later.                *)
LeftFirst ==
  \A k \in 1 .. depth :
    frames[k].step # "copy" =>
      \A e \in Queue \ Run, x \in Left(frames[k]) \ Run : e \in Left(frames[k]) \/ x < e

(* What ran was deferred before what waits for its first run.               *)
RunBefore == \A d \in Run, e \in Queue \ Run : d < e

OrderInv ==
  Numbered /\ Ordered /\ LeftIsQueued /\ Nested /\ LeftFirst /\ RunBefore /\ FirstRunsInOrder

LEMMA RangeAppended ==
  ASSUME NEW S, NEW q \in Seq(S), NEW e \in S
  PROVE  Range(Append(q, e)) = Range(q) \cup {e}
<1>1. /\ Append(q, e) \in Seq(S) /\ Len(Append(q, e)) = Len(q) + 1 /\ Append(q, e)[Len(q) + 1] = e
      /\ \A k \in 1 .. Len(q) : Append(q, e)[k] = q[k]
  BY Appended
<1>2. Range(q) = {q[i] : i \in 1 .. Len(q)} /\ Len(q) \in Nat
  BY DEF Range
<1>3. Range(Append(q, e)) = {Append(q, e)[i] : i \in 1 .. Len(q) + 1}
  BY <1>1 DEF Range
<1> QED BY <1>1, <1>2, <1>3

LEMMA CallsAreNumbers ==
  TypeOK => Queue \subseteq Nat /\ Run \subseteq Nat /\ Queue \subseteq Call /\ Run \subseteq Call
<1>1. Call \subseteq Nat
  BY DEF Call
<1>2. TypeOK => Queue \subseteq Call /\ Run \subseteq Call
  BY DEF TypeOK, Queue, Run, Range
<1> QED BY <1>1, <1>2

(* Neither the queue nor the stack grows, nor does anything run.            *)
LEMMA OrderKept ==
  ASSUME OrderInv, UNCHANGED <<deferred, firstRuns>>,
         Queue' \subseteq Queue, Sorted(deferredMethods'),
         depth \in Nat, depth' \in 0 .. depth,
         \A k \in 1 .. depth' :
           /\ frames'[k].methods = frames[k].methods /\ frames'[k].at = frames[k].at
           /\ frames'[k].step # "copy" => frames[k].step # "copy"
           /\ frames'[k].step \in {"copy", "trim"} => frames[k].at = Len(frames[k].methods),
         Queue' = Queue \/ \A k \in 1 .. depth' : Left(frames[k]) \subseteq Run
  PROVE  OrderInv'
<1>1. Run' = Run /\ FirstRunsInOrder'
  BY DEF Run, OrderInv, FirstRunsInOrder
<1>2. \A k \in 1 .. depth' : k \in 1 .. depth /\ Left(frames'[k]) = Left(frames[k])
  BY DEF Left
<1>3. Numbered' /\ RunBefore'
  BY <1>1 DEF OrderInv, Numbered, RunBefore
<1>4. Ordered'
  BY <1>2 DEF OrderInv, Ordered, Sorted
<1>5. LeftIsQueued'
  BY <1>1, <1>2 DEF OrderInv, LeftIsQueued
<1>6. Nested'
  BY <1>1, <1>2 DEF OrderInv, Nested
<1>7. LeftFirst'
  BY <1>1, <1>2 DEF OrderInv, LeftFirst
<1> QED BY <1>1, <1>3, <1>4, <1>5, <1>6, <1>7 DEF OrderInv

LEMMA OrderPush ==
  ASSUME TypeOK, OrderInv, Push
  PROVE  OrderInv'
<1>1. /\ deferred \in Nat /\ deferred + 1 \in Call /\ deferred' = deferred + 1
      /\ deferredMethods \in Seq(Call) /\ deferredMethods' = Append(deferredMethods, deferred + 1)
      /\ UNCHANGED <<frames, firstRuns>>
  BY DeferredCallerAssumption DEF TypeOK, Push, Pushed, Call
<1>2. Queue' = Queue \cup {deferred + 1} /\ Queue \subseteq Nat
  BY <1>1, RangeAppended, CallsAreNumbers DEF Queue
<1>3. Run' = Run /\ depth' = depth /\ FirstRunsInOrder' /\ Run \subseteq Nat
  BY <1>1, CallsAreNumbers DEF Run, depth, OrderInv, FirstRunsInOrder
<1>4. \A k \in 1 .. depth : Left(frames'[k]) = Left(frames[k])
  BY <1>1 DEF Left
<1>5. Numbered' /\ RunBefore'
  BY <1>1, <1>2, <1>3 DEF OrderInv, Numbered, RunBefore
<1>6. Ordered'
  <2>1. Sorted(deferredMethods')
    <3>1. /\ Len(deferredMethods') = Len(deferredMethods) + 1
          /\ deferredMethods'[Len(deferredMethods) + 1] = deferred + 1
          /\ \A k \in 1 .. Len(deferredMethods) : deferredMethods'[k] = deferredMethods[k]
          /\ Len(deferredMethods) \in Nat
      BY <1>1, Appended
    <3>2. \A k \in 1 .. Len(deferredMethods) : deferredMethods[k] \in Nat /\ deferredMethods[k] <= deferred
      BY <1>1, <1>2 DEF OrderInv, Numbered, Queue, Range
    <3>3. Sorted(deferredMethods) /\ deferred \in Nat
      BY <1>1 DEF OrderInv, Ordered
    <3>4. ASSUME NEW i \in 1 .. Len(deferredMethods'), NEW j \in 1 .. Len(deferredMethods'), i < j
          PROVE  deferredMethods'[i] < deferredMethods'[j]
      <4>1. i \in 1 .. Len(deferredMethods)
        BY <3>1, <3>4
      <4>2. CASE j \in 1 .. Len(deferredMethods)
        BY <3>1, <3>3, <3>4, <4>1, <4>2 DEF Sorted
      <4>3. CASE j = Len(deferredMethods) + 1
        <5>1. deferredMethods'[i] \in Nat /\ deferredMethods'[i] <= deferred
          BY <3>1, <3>2, <4>1
        <5> QED BY <3>1, <3>3, <4>3, <5>1
      <4> QED BY <3>1, <4>2, <4>3
    <3> QED BY <3>4 DEF Sorted
  <2> QED BY <1>1, <1>3, <2>1 DEF OrderInv, Ordered
<1>7. LeftIsQueued' /\ Nested'
  BY <1>1, <1>2, <1>3, <1>4 DEF OrderInv, LeftIsQueued, Nested
<1>8. LeftFirst'
  <2> SUFFICES ASSUME NEW k \in 1 .. depth, frames[k].step # "copy",
                      NEW e \in Queue' \ Run, NEW x \in Left(frames[k]) \ Run
               PROVE  e \in Left(frames[k]) \/ x < e
    BY <1>1, <1>3, <1>4 DEF LeftFirst
  <2>1. x \in Queue /\ x \in Nat /\ x <= deferred
    BY <1>2 DEF OrderInv, LeftIsQueued, Numbered
  <2> QED BY <1>1, <1>2, <2>1 DEF OrderInv, LeftFirst
<1> QED BY <1>3, <1>5, <1>6, <1>7, <1>8 DEF OrderInv

LEMMA OrderCustomEvent ==
  ASSUME TypeOK, OrderInv, CustomEvent
  PROVE  OrderInv'
<1>1. /\ depth \in Nat /\ depth' = depth + 1 /\ frames'[depth + 1] = NewFrame
      /\ \A k \in 1 .. depth : frames'[k] = frames[k]
      /\ UNCHANGED <<deferredMethods, deferred, firstRuns>>
  BY TopPushed DEF CustomEvent, queue
<1>2. NewFrame.step = "copy" /\ NewFrame.methods = <<>> /\ NewFrame.at = 0 /\ Left(NewFrame) = {}
  BY DEF NewFrame, Left
<1>3. Queue' = Queue /\ Run' = Run /\ FirstRunsInOrder'
  BY <1>1 DEF Queue, Run, OrderInv, FirstRunsInOrder
<1>4. Numbered' /\ RunBefore'
  BY <1>1, <1>3 DEF OrderInv, Numbered, RunBefore
<1>5. Ordered'
  BY <1>1, <1>2 DEF OrderInv, Ordered, Sorted
<1>6. LeftIsQueued' /\ Nested' /\ LeftFirst'
  BY <1>1, <1>2, <1>3 DEF OrderInv, LeftIsQueued, Nested, LeftFirst
<1> QED BY <1>3, <1>4, <1>5, <1>6 DEF OrderInv

LEMMA OrderCopy ==
  ASSUME TypeOK, OrderInv, Copy
  PROVE  OrderInv'
<1>1. PICK f \in Frame :
        /\ f.at = 0 /\ 0 \in 0 .. Len(f.methods) /\ SetTop(f) /\ f.step = "run"
        /\ f.methods = deferredMethods
  BY CopyFacts
<1>2. Step # "idle"
  BY DEF Copy
<1>3. /\ depth \in Nat \ {0} /\ depth' = depth /\ frames'[depth] = f
      /\ \A k \in 1 .. depth - 1 : frames'[k] = frames[k]
      /\ UNCHANGED <<deferredMethods, deferred, firstRuns>>
  BY <1>1, <1>2, TopFacts, TopSet DEF Copy
<1>4. Queue' = Queue /\ Run' = Run /\ FirstRunsInOrder'
  BY <1>3 DEF Queue, Run, OrderInv, FirstRunsInOrder
<1>5. Left(f) = Queue
  BY <1>1 DEF Left, Queue, Range, TypeOK
<1>6. Numbered' /\ RunBefore'
  BY <1>3, <1>4 DEF OrderInv, Numbered, RunBefore
<1>7. Ordered'
  <2>1. Sorted(deferredMethods') /\ Sorted(f.methods)
    BY <1>1, <1>3 DEF OrderInv, Ordered
  <2> SUFFICES ASSUME NEW k \in 1 .. depth
               PROVE  /\ Sorted(frames'[k].methods)
                      /\ frames'[k].step \in {"copy", "trim"} => frames'[k].at = Len(frames'[k].methods)
    BY <1>3, <2>1 DEF Ordered
  <2>2. CASE k \in 1 .. depth - 1
    BY <1>3, <2>2 DEF OrderInv, Ordered
  <2>3. CASE k = depth
    BY <1>1, <1>3, <2>1, <2>3
  <2> QED BY <1>3, <2>2, <2>3
<1>8. LeftIsQueued' /\ Nested' /\ LeftFirst'
  <2>1. \A k \in 1 .. depth : k \in 1 .. depth - 1 \/ k = depth
    BY <1>3
  <2>2. LeftIsQueued'
    BY <1>3, <1>4, <1>5, <2>1 DEF OrderInv, LeftIsQueued
  <2>3. Nested'
    <3> SUFFICES ASSUME NEW k \in 1 .. depth, NEW j \in 1 .. depth, k < j, frames'[j].step # "copy"
                 PROVE  Left(frames'[k]) \ Run \subseteq Left(frames'[j])
      BY <1>3, <1>4 DEF Nested
    <3>1. k \in 1 .. depth - 1
      BY <1>3
    <3> QED BY <1>3, <1>5, <2>1, <3>1 DEF OrderInv, Nested, LeftIsQueued
  <2>4. LeftFirst'
    BY <1>3, <1>4, <1>5, <2>1 DEF OrderInv, LeftFirst
  <2> QED BY <2>2, <2>3, <2>4
<1> QED BY <1>4, <1>6, <1>7, <1>8 DEF OrderInv

(* A call is made: what was left to make was that call and later ones.      *)
LEMMA NextLeft ==
  ASSUME TypeOK, OrderInv, Step # "idle", Top.at + 1 \in 1 .. Len(Top.methods),
         NEW f, f.methods = Top.methods, f.at = Top.at + 1
  PROVE  /\ Left(Top) = Left(f) \cup {Top.methods[Top.at + 1]}
         /\ \A y \in Left(f) : Top.methods[Top.at + 1] < y
         /\ Done(f) = Done(Top) \cup {Top.methods[Top.at + 1]}
         /\ Left(Top) \subseteq Call
<1> DEFINE m == Top.methods
           a == Top.at
<1>1. m \in Seq(Call) /\ a \in 0 .. Len(m) /\ a + 1 \in 1 .. Len(m) /\ Len(m) \in Nat
  BY TopFacts, FrameHasFields
<1>2. Sorted(m)
  BY TopFacts DEF OrderInv, Ordered
<1>3. Left(Top) = {m[i] : i \in a + 1 .. Len(m)} /\ Left(f) = {m[i] : i \in a + 2 .. Len(m)}
  BY <1>1 DEF Left
<1>4. Done(Top) = {m[i] : i \in 1 .. a} /\ Done(f) = {m[i] : i \in 1 .. a + 1}
  BY DEF Done
<1> HIDE DEF m, a
<1>5. Left(Top) = Left(f) \cup {m[a + 1]}
  BY <1>1, <1>3
<1>6. Done(f) = Done(Top) \cup {m[a + 1]}
  BY <1>1, <1>4
<1>7. \A y \in Left(f) : m[a + 1] < y
  BY <1>1, <1>2, <1>3 DEF Sorted
<1>8. Left(Top) \subseteq Call
  BY <1>1, <1>3
<1> QED BY <1>5, <1>6, <1>7, <1>8 DEF m, a

(* The first run of a call: it was queued, and everything that ran was      *)
(* deferred before it.                                                      *)
LEMMA OrderRunCall ==
  ASSUME TypeOK, OrderInv, RunCall
  PROVE  OrderInv'
<1> DEFINE c == Top.methods[Top.at + 1]
<1>1. PICK f \in Frame :
        /\ f.at \in 0 .. Len(f.methods) /\ SetTop(f)
        /\ f.methods = Top.methods /\ f.at = Top.at + 1 /\ f.step \in {"run", "dialog"}
  BY RunCallFacts
<1>2. Step = "run" /\ Top.at + 1 \in 1 .. Len(Top.methods) /\ c \in Call /\ Called(c)
  BY RunCallFacts
<1>3. /\ depth \in Nat \ {0} /\ depth' = depth /\ frames'[depth] = f /\ Top = frames[depth]
      /\ \A k \in 1 .. depth - 1 : frames'[k] = frames[k]
      /\ UNCHANGED <<deferredMethods, deferred>> /\ frames[depth].step = "run"
  BY <1>1, <1>2, TopFacts, TopSet DEF RunCall, queue
<1>4. Left(Top) = Left(f) \cup {c} /\ (\A y \in Left(f) : c < y) /\ Left(Top) \subseteq Call
  BY <1>1, <1>2, NextLeft
<1>5. Sorted(Top.methods)
  BY <1>3 DEF OrderInv, Ordered
<1> HIDE DEF c
<1>6. Queue' = Queue /\ Run' = Run \cup {c} /\ firstRuns \in Seq(Call)
  <2>1. Queue' = Queue /\ firstRuns \in Seq(Call)
    BY <1>3 DEF Queue, TypeOK
  <2>2. CASE c \notin Run /\ firstRuns' = Append(firstRuns, c)
    BY <1>2, <2>1, <2>2, RangeAppended DEF Run
  <2>3. CASE c \in Run /\ firstRuns' = firstRuns
    BY <2>1, <2>3 DEF Run
  <2> QED BY <1>2, <2>1, <2>2, <2>3 DEF Called, Run
<1>7. c \in Run \/ (c \in Queue /\ \A d \in Run : d < c)
  <2>1. Left(frames[depth]) \ Run \subseteq Queue
    BY <1>3 DEF OrderInv, LeftIsQueued
  <2> QED BY <1>3, <1>4, <2>1 DEF OrderInv, RunBefore
<1>8. \A k \in 1 .. depth : k \in 1 .. depth - 1 \/ k = depth
  BY <1>3
<1>9. Numbered'
  BY <1>3, <1>6, <1>7 DEF OrderInv, Numbered
<1>10. Ordered'
  BY <1>1, <1>3, <1>5, <1>8 DEF OrderInv, Ordered
<1>11. LeftIsQueued'
  BY <1>3, <1>4, <1>6, <1>8 DEF OrderInv, LeftIsQueued
<1>12. Nested'
  <2> SUFFICES ASSUME NEW k \in 1 .. depth, NEW j \in 1 .. depth, k < j, frames'[j].step # "copy"
               PROVE  Left(frames'[k]) \ Run' \subseteq Left(frames'[j])
    BY <1>3 DEF Nested
  <2>1. k \in 1 .. depth - 1
    BY <1>3
  <2>2. Left(frames[k]) \ Run \subseteq Left(frames[j])
    BY <1>3, <1>8 DEF OrderInv, Nested
  <2> QED BY <1>3, <1>4, <1>6, <1>8, <2>1, <2>2
<1>13. LeftFirst'
  BY <1>3, <1>4, <1>6, <1>8 DEF OrderInv, LeftFirst
<1>14. RunBefore'
  <2> SUFFICES ASSUME NEW d \in Run \cup {c}, NEW e \in Queue \ (Run \cup {c})
               PROVE  d < e
    BY <1>6 DEF RunBefore
  <2>1. CASE d \in Run
    BY <2>1 DEF OrderInv, RunBefore
  <2>2. CASE d = c /\ c \notin Run
    BY <1>3, <1>4, <2>2 DEF OrderInv, LeftFirst
  <2> QED BY <2>1, <2>2
<1>15. FirstRunsInOrder'
  <2>1. CASE firstRuns' = firstRuns
    BY <2>1 DEF OrderInv, FirstRunsInOrder
  <2>2. CASE c \notin Run /\ firstRuns' = Append(firstRuns, c)
    <3>1. /\ Len(firstRuns') = Len(firstRuns) + 1 /\ firstRuns'[Len(firstRuns) + 1] = c
          /\ \A k \in 1 .. Len(firstRuns) : firstRuns'[k] = firstRuns[k] /\ firstRuns[k] \in Run
          /\ Len(firstRuns) \in Nat
      BY <1>2, <1>6, <2>2, Appended DEF Run, Range
    <3> QED BY <1>7, <2>2, <3>1 DEF OrderInv, FirstRunsInOrder
  <2> QED BY <1>2, <2>1, <2>2 DEF Called, Run
<1> QED BY <1>9, <1>10, <1>11, <1>12, <1>13, <1>14, <1>15 DEF OrderInv

(* A frame is at another step: neither copying nor, unless all calls were   *)
(* made, tidying.                                                           *)
LEMMA OrderStepSet ==
  ASSUME TypeOK, OrderInv, Step # "idle", Step # "copy", NEW step, StepSet(step),
         step \in {"copy", "trim"} => Top.at = Len(Top.methods),
         UNCHANGED <<deferred, firstRuns>>, Queue' \subseteq Queue, Sorted(deferredMethods'),
         Queue' = Queue \/ \A k \in 1 .. depth : Left(frames[k]) \subseteq Run
  PROVE  OrderInv'
<1>1. PICK f \in Frame :
        /\ SetTop(f) /\ f.step = step /\ f.methods = Top.methods /\ f.at = Top.at
  BY DEF StepSet
<1>2. /\ depth \in Nat \ {0} /\ depth' = depth /\ frames'[depth] = f /\ Top = frames[depth]
      /\ \A k \in 1 .. depth - 1 : frames'[k] = frames[k]
      /\ Top.step = Step
  BY <1>1, TopFacts, TopSet
<1>3. ASSUME NEW k \in 1 .. depth
      PROVE  /\ frames'[k].methods = frames[k].methods /\ frames'[k].at = frames[k].at
             /\ frames'[k].step # "copy" => frames[k].step # "copy"
             /\ frames'[k].step \in {"copy", "trim"} => frames[k].at = Len(frames[k].methods)
  <2>1. CASE k \in 1 .. depth - 1
    BY <1>2, <2>1 DEF OrderInv, Ordered
  <2>2. CASE k = depth
    BY <1>1, <1>2, <2>2
  <2> QED BY <1>2, <2>1, <2>2
<1> QED BY <1>2, <1>3, OrderKept

LEMMA OrderSame ==
  ASSUME TypeOK, OrderInv, UNCHANGED <<deferredMethods, frames, deferred, firstRuns>>
  PROVE  OrderInv'
<1>1. Queue' = Queue /\ Sorted(deferredMethods') /\ depth' = depth /\ depth \in Nat
  BY Idle DEF Queue, depth, OrderInv, Ordered
<1>2. \A k \in 1 .. depth :
        frames[k].step \in {"copy", "trim"} => frames[k].at = Len(frames[k].methods)
  BY DEF OrderInv, Ordered
<1> QED BY <1>1, <1>2, OrderKept

(* When an activation tidies the queue, no other has a first run to make.   *)
LEMMA NoneLeft ==
  ASSUME TypeOK, OrderInv, Step = "trim"
  PROVE  \A k \in 1 .. depth : Left(frames[k]) \subseteq Run
<1>1. /\ depth \in Nat \ {0} /\ depth \in 1 .. depth /\ frames[depth].step = "trim"
      /\ frames[depth] \in Frame
  BY TopFacts
<1>2. frames[depth].at = Len(frames[depth].methods) /\ Len(frames[depth].methods) \in Nat
  BY <1>1, FrameHasFields DEF OrderInv, Ordered
<1>3. Left(frames[depth]) = {}
  BY <1>2 DEF Left
<1>4. ASSUME NEW k \in 1 .. depth - 1 PROVE Left(frames[k]) \ Run \subseteq {}
  <2>1. k \in 1 .. depth /\ k < depth
    BY <1>1
  <2> QED BY <1>1, <1>3, <2>1 DEF OrderInv, Nested
<1>5. \A k \in 1 .. depth : k \in 1 .. depth - 1 \/ k = depth
  BY <1>1
<1> QED BY <1>3, <1>4, <1>5

LEMMA OrderTrim ==
  ASSUME TypeOK, OrderInv, Trim
  PROVE  OrderInv'
<1>1. /\ Step = "trim" /\ deferredMethods' = Trimmed(deferredMethods, Top.methods)
      /\ UNCHANGED <<deferred, firstRuns>>
  BY TrimFacts DEF Trim
<1>2. deferredMethods \in Seq(Call) /\ Top.methods \in Seq(Call)
  BY <1>1, TopFacts, FrameHasFields DEF TypeOK
<1>3. Queue' \subseteq Queue /\ Sorted(deferredMethods')
  <2> DEFINE l == Len(Top.methods)
             q == deferredMethods
  <2>1. /\ q' \in Seq(Call) /\ l \in Nat /\ Len(q) \in Nat /\ Len(q') \in Nat
        /\ \A i \in 1 .. Len(q') : q'[i] = q[l + i] /\ l + i \in 1 .. Len(q)
    BY <1>1, <1>2, TrimmedFacts
  <2> HIDE DEF l
  <2>2. Queue' \subseteq Queue
    BY <1>2, <2>1 DEF Queue, Range
  <2>3. \A i, j \in 1 .. Len(q) : i < j => q[i] < q[j]
    BY DEF OrderInv, Ordered, Sorted
  <2> QED BY <2>1, <2>2, <2>3 DEF Sorted
<1>4. \A k \in 1 .. depth : Left(frames[k]) \subseteq Run
  BY <1>1, NoneLeft
<1>5. Top.at = Len(Top.methods)
  BY <1>1, TopFacts DEF OrderInv, Ordered
<1>6. CASE StepSet("copy")
  BY <1>1, <1>3, <1>4, <1>5, <1>6, OrderStepSet
<1>7. CASE frames' = Front(frames)
  <2>1. /\ depth' = depth - 1 /\ depth \in Nat \ {0}
        /\ \A k \in 1 .. depth - 1 : frames'[k] = frames[k]
    BY <1>1, <1>7, TopPopped, TopFacts
  <2>2. \A k \in 1 .. depth - 1 : k \in 1 .. depth /\ frames[k].step = "dialog"
    BY BelowTop
  <2> QED BY <1>1, <1>3, <1>4, <2>1, <2>2, OrderKept
<1> QED BY <1>6, <1>7, TrimFacts

LEMMA OrderNext == TypeOK /\ OrderInv /\ [Next]_vars => OrderInv'
<1> SUFFICES ASSUME TypeOK, OrderInv, [Next]_vars PROVE OrderInv'
  OBVIOUS
<1>1. CASE Push
  BY <1>1, OrderPush
<1>2. CASE CustomEvent
  BY <1>2, OrderCustomEvent
<1>3. CASE Copy
  BY <1>3, OrderCopy
<1>4. CASE RunCall
  BY <1>4, OrderRunCall
<1>5. CASE Trim
  BY <1>5, OrderTrim
<1>6. CASE CloseDialog \/ CompareTimers
  <2>1. /\ Step # "idle" /\ Step # "copy" /\ UNCHANGED <<deferredMethods, deferred, firstRuns>>
    BY <1>6 DEF CloseDialog, CompareTimers, queue
  <2>2. Queue' = Queue /\ Sorted(deferredMethods')
    BY <2>1 DEF Queue, OrderInv, Ordered
  <2>3. CASE CloseDialog
    BY <2>1, <2>2, <2>3, StepChanged, OrderStepSet DEF CloseDialog
  <2>4. CASE CompareTimers
    BY <2>1, <2>2, <2>4, StepChanged, OrderStepSet DEF CompareTimers
  <2> QED BY <1>6, <2>3, <2>4
<1>7. CASE \/ \E t \in Thread : Post(t)
           \/ PushTimer \/ UNCHANGED vars \/ \E t \in Timer : TimerEvent(t)
  BY <1>7, OrderSame DEF Post, PushTimer, TimerEvent, vars, queue
<1> QED BY <1>1, <1>2, <1>3, <1>4, <1>5, <1>6, <1>7 DEF Next, Main, Defer, MainDefers

LEMMA InitOrder == Init => OrderInv
<1> SUFFICES ASSUME Init PROVE OrderInv
  OBVIOUS
<1>1. Queue = {} /\ Run = {} /\ depth = 0
  BY DEF Init, Queue, Run, Range, depth
<1> QED BY <1>1 DEF Init, OrderInv, Numbered, Ordered, Sorted, LeftIsQueued, Nested, LeftFirst,
           RunBefore, FirstRunsInOrder

(* Whatever threads defer meanwhile, however dialogs nest activations of    *)
(* customEvent and timers make them start over: calls run for the first     *)
(* time in the order in which they were deferred.                           *)
THEOREM FirstRunsTheorem == Spec => []FirstRunsInOrder
<1>1. OrderInv => FirstRunsInOrder
  BY DEF OrderInv
<1> QED BY <1>1, InitType, TypeNext, InitOrder, OrderNext, PTL DEF Spec

-----------------------------------------------------------------------------
(* Calls that run twice, and calls that never do.                           *)

Prefix(s, q) == Len(s) <= Len(q) /\ \A i \in 1 .. Len(s) : s[i] = q[i]

(* An activation that waits for a dialog has disturbed the calls of its     *)
(* copy; what it has made ran; its copy is the front of the queue, unless   *)
(* an activation inside a dialog of its own has tidied the queue: then all  *)
(* that still waits for its first run was deferred behind that dialog.      *)
FrameInv(g) ==
  /\ g.step = "dialog" => g.dialog /\ All(g) \subseteq disturbed
  /\ Done(g) \subseteq Run
  /\ g.step # "copy" =>
       \/ Prefix(g.methods, deferredMethods)
       \/ g.dialog /\ All(g) \subseteq disturbed /\ Queue \subseteq Run \cup behindDialog

FramesInv == \A k \in 1 .. depth : FrameInv(frames[k])

(* What an inner activation did not copy was deferred behind a dialog.      *)
BehindInner ==
  \A k \in 2 .. depth :
    frames[k].step # "copy" => Queue \subseteq All(frames[k]) \cup Run \cup behindDialog

(* The calls that are going to run again have been disturbed, and so have   *)
(* those that ran and are still queued when customEvent copies the queue.   *)
RunLeft == Step = "run" => Left(Top) \cap Run \subseteq disturbed
RunQueued ==
  Queue \cap Run \subseteq disturbed \cup (IF Step \in {"run", "trim"} THEN Done(Top) ELSE {})

RunInv ==
  FramesInv /\ BehindInner /\ RunLeft /\ RunQueued /\ TwiceOnlyIfDisturbed /\ LostOnlyBehindDialog

LEMMA TopAfter ==
  ASSUME TypeOK, Step # "idle", NEW f \in Frame, SetTop(f)
  PROVE  Top' = f /\ Step' = f.step
<1>1. /\ frames' \in Seq(Frame) /\ depth' = depth /\ frames'[depth] = f /\ depth \in Nat \ {0}
  BY TopSet, TopFacts
<1>2. frames' # <<>>
  BY <1>1 DEF depth
<1>3. Top' = f
  BY <1>1 DEF Top, Last, depth
<1> QED BY <1>2, <1>3 DEF Step

(* The queue stays, and the top frame becomes f.                            *)
LEMMA FramesKept ==
  ASSUME TypeOK, FramesInv, BehindInner, Step # "idle", NEW f \in Frame, SetTop(f),
         UNCHANGED <<deferredMethods, behindDialog>>,
         Run \subseteq Run', disturbed \subseteq disturbed',
         f.step = "dialog" => f.dialog /\ All(f) \subseteq disturbed',
         Done(f) \subseteq Run',
         f.step # "copy" =>
           \/ Prefix(f.methods, deferredMethods)
           \/ f.dialog /\ All(f) \subseteq disturbed' /\ Queue \subseteq Run' \cup behindDialog,
         f.step # "copy" /\ depth >= 2 => Queue \subseteq All(f) \cup Run' \cup behindDialog
  PROVE  FramesInv' /\ BehindInner'
<1>1. /\ depth \in Nat \ {0} /\ depth' = depth /\ frames'[depth] = f
      /\ \A k \in 1 .. depth - 1 : frames'[k] = frames[k]
  BY TopFacts, TopSet
<1>2. Queue' = Queue
  BY DEF Queue
<1>3. \A k \in 1 .. depth : k \in 1 .. depth - 1 \/ k = depth
  BY <1>1
<1>4. FramesInv'
  <2> SUFFICES ASSUME NEW k \in 1 .. depth PROVE FrameInv(frames[k])'
    BY <1>1 DEF FramesInv
  <2>1. CASE k \in 1 .. depth - 1
    <3>1. frames'[k] = frames[k] /\ FrameInv(frames[k])
      BY <1>1, <2>1 DEF FramesInv
    <3> QED BY <1>2, <3>1 DEF FrameInv, All, Done
  <2>2. CASE k = depth
    BY <1>1, <1>2, <2>2 DEF FrameInv, All, Done
  <2> QED BY <1>3, <2>1, <2>2
<1>5. BehindInner'
  <2> SUFFICES ASSUME NEW k \in 2 .. depth, frames'[k].step # "copy"
               PROVE  Queue \subseteq All(frames'[k]) \cup Run' \cup behindDialog
    BY <1>1, <1>2 DEF BehindInner, All
  <2>1. CASE k \in 1 .. depth - 1
    BY <1>1, <2>1 DEF BehindInner
  <2>2. CASE k = depth
    BY <1>1, <2>2
  <2> QED BY <1>3, <2>1, <2>2
<1> QED BY <1>4, <1>5

LEMMA RunSame ==
  ASSUME TypeOK, RunInv,
         UNCHANGED <<deferredMethods, frames, deferred, firstRuns, again, disturbed, behindDialog>>
  PROVE  RunInv'
<1>1. Queue' = Queue /\ Run' = Run /\ depth' = depth /\ Step' = Step /\ Top' = Top
  BY DEF Queue, Run, depth, Step, Top
<1>2. FramesInv' /\ BehindInner'
  BY <1>1 DEF RunInv, FramesInv, FrameInv, BehindInner, All, Done
<1>3. RunLeft' /\ RunQueued'
  BY <1>1 DEF RunInv, RunLeft, RunQueued, Left, Done
<1> QED BY <1>1, <1>2, <1>3 DEF RunInv, TwiceOnlyIfDisturbed, LostOnlyBehindDialog

LEMMA RunPush ==
  ASSUME TypeOK, OrderInv, RunInv, Push
  PROVE  RunInv'
<1> DEFINE d == deferred + 1
<1>1. /\ deferred \in Nat /\ d \in Call /\ deferred' = d
      /\ deferredMethods \in Seq(Call) /\ deferredMethods' = Append(deferredMethods, d)
      /\ behindDialog' = IF \E i \in 1 .. Len(frames) : frames[i].dialog
                         THEN behindDialog \cup {d} ELSE behindDialog
      /\ UNCHANGED <<frames, firstRuns, again, disturbed>>
  BY DeferredCallerAssumption DEF TypeOK, Push, Pushed, Call
<1>2. Queue' = Queue \cup {d} /\ Run' = Run /\ depth' = depth /\ Step' = Step /\ Top' = Top
  BY <1>1, RangeAppended DEF Queue, Run, depth, Step, Top
<1>3. behindDialog \subseteq behindDialog'
  BY <1>1
<1>4. \A k \in 1 .. depth : frames[k].dialog => d \in behindDialog'
  BY <1>1 DEF depth
<1>5. ASSUME NEW s, Prefix(s, deferredMethods), Len(s) \in Nat PROVE Prefix(s, deferredMethods')
  <2>1. /\ Len(deferredMethods') = Len(deferredMethods) + 1 /\ Len(deferredMethods) \in Nat
        /\ \A k \in 1 .. Len(deferredMethods) : deferredMethods'[k] = deferredMethods[k]
    BY <1>1, Appended
  <2> QED BY <1>5, <2>1 DEF Prefix
<1>6. d \notin Run
  BY <1>1 DEF OrderInv, Numbered
<1> HIDE DEF d
<1>7. FramesInv'
  <2> SUFFICES ASSUME NEW k \in 1 .. depth PROVE FrameInv(frames[k])'
    BY <1>2 DEF FramesInv
  <2>1. FrameInv(frames[k]) /\ frames'[k] = frames[k] /\ frames[k] \in Frame
    BY <1>1, FrameType DEF RunInv, FramesInv
  <2>2. Len(frames[k].methods) \in Nat
    BY <2>1, FrameHasFields
  <2> QED BY <1>1, <1>2, <1>3, <1>4, <1>5, <2>1, <2>2 DEF FrameInv, All, Done
<1>8. BehindInner'
  <2> SUFFICES ASSUME NEW k \in 2 .. depth, frames[k].step # "copy"
               PROVE  Queue' \subseteq All(frames[k]) \cup Run \cup behindDialog'
    BY <1>1, <1>2 DEF BehindInner, All
  <2>1. 1 \in 1 .. depth /\ 1 \in 1 .. depth - 1
    BY Idle
  <2>2. frames[1].dialog
    BY <2>1, BelowTop DEF RunInv, FramesInv, FrameInv
  <2> QED BY <1>2, <1>3, <1>4, <2>1, <2>2 DEF RunInv, BehindInner
<1>9. RunLeft' /\ RunQueued'
  BY <1>1, <1>2, <1>6 DEF RunInv, RunLeft, RunQueued, Left, Done
<1>10. LostOnlyBehindDialog'
  <2>1. \A c \in 1 .. d : c \in 1 .. deferred \/ c = d
    BY <1>1 DEF d
  <2> QED BY <1>1, <1>2, <1>3, <2>1 DEF RunInv, LostOnlyBehindDialog, Queue, Run
<1> QED BY <1>1, <1>7, <1>8, <1>9, <1>10 DEF RunInv, TwiceOnlyIfDisturbed

LEMMA RunCustomEvent ==
  ASSUME TypeOK, RunInv, CustomEvent
  PROVE  RunInv'
<1>1. /\ frames' \in Seq(Frame) /\ depth \in Nat /\ depth' = depth + 1
      /\ frames'[depth + 1] = NewFrame /\ \A k \in 1 .. depth : frames'[k] = frames[k]
      /\ UNCHANGED <<deferredMethods, deferred, firstRuns, again, disturbed, behindDialog>>
  BY TopPushed DEF CustomEvent, queue
<1>2. NewFrame.step = "copy" /\ Done(NewFrame) = {}
  BY DEF NewFrame, Done
<1>3. Queue' = Queue /\ Run' = Run
  BY <1>1 DEF Queue, Run
<1>4. Step' = "copy" /\ Step \in {"idle", "dialog"}
  <2>1. frames' # <<>> /\ Top' = NewFrame
    BY <1>1 DEF Top, Last, depth
  <2> QED BY <1>2, <2>1 DEF Step, CustomEvent, EventLoop
<1>5. \A k \in 1 .. depth + 1 : k \in 1 .. depth \/ k = depth + 1
  BY <1>1
<1>6. FramesInv'
  <2> SUFFICES ASSUME NEW k \in 1 .. depth + 1 PROVE FrameInv(frames[k])'
    BY <1>1 DEF FramesInv
  <2>1. CASE k \in 1 .. depth
    <3>1. frames'[k] = frames[k] /\ FrameInv(frames[k])
      BY <1>1, <2>1 DEF RunInv, FramesInv
    <3> QED BY <1>1, <1>3, <3>1 DEF FrameInv, All, Done
  <2>2. CASE k = depth + 1
    BY <1>1, <1>2, <2>2 DEF FrameInv, Done
  <2> QED BY <1>5, <2>1, <2>2
<1>7. BehindInner'
  BY <1>1, <1>2, <1>3, <1>5 DEF RunInv, BehindInner, All
<1>8. RunLeft' /\ RunQueued'
  BY <1>1, <1>3, <1>4 DEF RunInv, RunLeft, RunQueued
<1> QED BY <1>1, <1>3, <1>6, <1>7, <1>8 DEF RunInv, TwiceOnlyIfDisturbed, LostOnlyBehindDialog

LEMMA RunCopy ==
  ASSUME TypeOK, RunInv, Copy
  PROVE  RunInv'
<1>1. PICK f \in Frame :
        /\ f.at = 0 /\ 0 \in 0 .. Len(f.methods) /\ SetTop(f) /\ f.step = "run"
        /\ f.methods = deferredMethods
  BY CopyFacts
<1>2. /\ Step = "copy"
      /\ UNCHANGED <<deferredMethods, deferred, firstRuns, again, disturbed, behindDialog>>
  BY DEF Copy
<1>3. Queue' = Queue /\ Run' = Run /\ Top' = f /\ Step' = "run"
  BY <1>1, <1>2, TopAfter DEF Queue, Run
<1>4. All(f) = Queue /\ Done(f) = {} /\ Left(f) = Queue /\ Prefix(f.methods, deferredMethods)
  <2>1. Len(deferredMethods) \in Nat /\ DOMAIN deferredMethods = 1 .. Len(deferredMethods)
    BY DEF TypeOK
  <2> QED BY <1>1, <2>1 DEF All, Done, Left, Queue, Range, Prefix
<1>5. FramesInv' /\ BehindInner'
  BY <1>1, <1>2, <1>3, <1>4, FramesKept DEF RunInv
<1>6. RunLeft' /\ RunQueued'
  <2>1. Queue \cap Run \subseteq disturbed
    BY <1>2 DEF RunInv, RunQueued
  <2>2. Left(Top)' = Queue
    BY <1>3, <1>4 DEF Left
  <2> QED BY <1>2, <1>3, <2>1, <2>2 DEF RunLeft, RunQueued
<1> QED BY <1>2, <1>3, <1>5, <1>6 DEF RunInv, TwiceOnlyIfDisturbed, LostOnlyBehindDialog

LEMMA RunRunCall ==
  ASSUME TypeOK, OrderInv, RunInv, RunCall
  PROVE  RunInv'
<1> DEFINE c == Top.methods[Top.at + 1]
<1>1. PICK f \in Frame :
        /\ f.at \in 0 .. Len(f.methods) /\ SetTop(f)
        /\ f.methods = Top.methods /\ f.at = Top.at + 1
        /\ \/ f.step = "run" /\ f.dialog = Top.dialog /\ disturbed' = disturbed
           \/ /\ f.step = "dialog" /\ f.dialog = TRUE
              /\ disturbed' = disturbed \cup Range(Top.methods)
  BY RunCallFacts
<1>2. /\ Step = "run" /\ Top.at + 1 \in 1 .. Len(Top.methods) /\ c \in Call /\ Called(c)
      /\ UNCHANGED <<deferredMethods, deferred, behindDialog>>
  BY RunCallFacts DEF RunCall, queue
<1>3. /\ depth \in Nat \ {0} /\ depth \in 1 .. depth /\ Top = frames[depth]
      /\ Top.step = "run" /\ Top.methods \in Seq(Call)
  BY <1>2, TopFacts, FrameHasFields
<1>4. /\ Left(Top) = Left(f) \cup {c} /\ (\A y \in Left(f) : c < y) /\ Left(Top) \subseteq Call
      /\ Done(f) = Done(Top) \cup {c}
  BY <1>1, <1>2, NextLeft
<1>5. Top' = f /\ Step' = f.step /\ All(f) = All(Top) /\ All(Top) = Range(Top.methods)
  BY <1>1, <1>2, TopAfter DEF All
<1>6. Done(f) \subseteq All(f)
  BY <1>1, <1>2, <1>3 DEF Done, All, Range
<1> HIDE DEF c
<1>7. Queue' = Queue /\ Run' = Run \cup {c} /\ disturbed \subseteq disturbed'
  <2>1. Queue' = Queue /\ firstRuns \in Seq(Call) /\ disturbed \subseteq disturbed'
    BY <1>1, <1>2 DEF Queue, TypeOK
  <2>2. CASE c \notin Run /\ firstRuns' = Append(firstRuns, c)
    BY <1>2, <2>1, <2>2, RangeAppended DEF Run
  <2>3. CASE c \in Run /\ firstRuns' = firstRuns
    BY <2>1, <2>3 DEF Run
  <2> QED BY <1>2, <2>1, <2>2, <2>3 DEF Called, Run
<1>8. FrameInv(Top) /\ (depth >= 2 => Queue \subseteq All(Top) \cup Run \cup behindDialog)
  BY <1>3 DEF RunInv, FramesInv, BehindInner
<1>9. FramesInv' /\ BehindInner'
  <2>1. /\ f.step = "dialog" => f.dialog /\ All(f) \subseteq disturbed'
        /\ Done(f) \subseteq Run'
        /\ \/ Prefix(f.methods, deferredMethods)
           \/ f.dialog /\ All(f) \subseteq disturbed' /\ Queue \subseteq Run' \cup behindDialog
        /\ depth >= 2 => Queue \subseteq All(f) \cup Run' \cup behindDialog
    <3>1. f.step = "dialog" => f.dialog /\ All(f) \subseteq disturbed'
      BY <1>1, <1>5
    <3>2. Done(f) \subseteq Run'
      BY <1>4, <1>7, <1>8 DEF FrameInv
    <3>3. \/ Prefix(f.methods, deferredMethods)
          \/ f.dialog /\ All(f) \subseteq disturbed' /\ Queue \subseteq Run' \cup behindDialog
      BY <1>1, <1>3, <1>5, <1>7, <1>8 DEF FrameInv
    <3> QED BY <1>5, <1>7, <1>8, <3>1, <3>2, <3>3
  <2> QED BY <1>1, <1>2, <1>7, <2>1, FramesKept DEF RunInv
<1>10. Left(Top) \cap Run \subseteq disturbed
  BY <1>2 DEF RunInv, RunLeft
<1>11. RunLeft' /\ RunQueued'
  <2>1. c \notin Left(f)
    BY <1>2, <1>4 DEF Call
  <2>2. RunLeft'
    <3>1. f.step = "run" => Left(f) \cap (Run \cup {c}) \subseteq disturbed'
      BY <1>4, <1>7, <1>10, <2>1
    <3> QED BY <1>5, <1>7, <3>1 DEF RunLeft, Left
  <2>3. RunQueued'
    <3>1. Queue \cap Run \subseteq disturbed \cup Done(Top)
      BY <1>2 DEF RunInv, RunQueued
    <3>2. Queue \cap (Run \cup {c}) \subseteq disturbed \cup Done(f)
      BY <1>4, <3>1
    <3>3. CASE f.step = "run"
      BY <1>5, <1>7, <3>2, <3>3 DEF RunQueued, Done
    <3>4. CASE f.step = "dialog" /\ disturbed' = disturbed \cup Range(Top.methods)
      <4>1. Queue \cap (Run \cup {c}) \subseteq disturbed'
        BY <1>5, <1>6, <3>2, <3>4
      <4> QED BY <1>5, <1>7, <3>4, <4>1 DEF RunQueued
    <3> QED BY <1>1, <3>3, <3>4
  <2> QED BY <2>2, <2>3
<1>12. TwiceOnlyIfDisturbed'
  BY <1>2, <1>4, <1>7, <1>10 DEF Called, Run, RunInv, TwiceOnlyIfDisturbed
<1>13. LostOnlyBehindDialog'
  BY <1>2, <1>7 DEF RunInv, LostOnlyBehindDialog, Queue, Run
<1> QED BY <1>9, <1>11, <1>12, <1>13 DEF RunInv

(* The top frame is at another step: a dialog is closed, or all calls were  *)
(* made and the timers are compared.                                        *)
LEMMA RunStepSet ==
  ASSUME TypeOK, RunInv, Step # "idle", Step # "copy", NEW step, step # "dialog", StepSet(step),
         UNCHANGED <<deferredMethods, deferred, firstRuns, again, behindDialog>>,
         disturbed \subseteq disturbed',
         step = "run" => Left(Top) \cap Run \subseteq disturbed',
         Queue \cap Run \subseteq disturbed' \cup (IF step \in {"run", "trim"} THEN Done(Top) ELSE {})
  PROVE  RunInv'
<1>1. PICK f \in Frame :
        /\ f.at \in 0 .. Len(f.methods) /\ SetTop(f) /\ f.step = step
        /\ f.methods = Top.methods /\ f.at = Top.at /\ f.dialog = Top.dialog
  BY DEF StepSet
<1>2. /\ depth \in 1 .. depth /\ Top = frames[depth] /\ Top.step # "copy"
      /\ depth >= 2 => depth \in 2 .. depth
  BY TopFacts
<1>3. Top' = f /\ Step' = step
  BY <1>1, TopAfter
<1>4. Queue' = Queue /\ Run' = Run
  BY DEF Queue, Run
<1>5. All(f) = All(Top) /\ Done(f) = Done(Top) /\ Left(f) = Left(Top)
  BY <1>1 DEF All, Done, Left
<1>6. FrameInv(Top) /\ (depth >= 2 => Queue \subseteq All(Top) \cup Run \cup behindDialog)
  BY <1>2 DEF RunInv, FramesInv, BehindInner
<1>7. FramesInv' /\ BehindInner'
  <2>1. /\ Done(f) \subseteq Run'
        /\ \/ Prefix(f.methods, deferredMethods)
           \/ f.dialog /\ All(f) \subseteq disturbed' /\ Queue \subseteq Run' \cup behindDialog
        /\ depth >= 2 => Queue \subseteq All(f) \cup Run' \cup behindDialog
    BY <1>1, <1>2, <1>4, <1>5, <1>6 DEF FrameInv
  <2> QED BY <1>1, <1>4, <2>1, FramesKept DEF RunInv
<1>8. RunLeft' /\ RunQueued'
  <2>1. Left(Top)' = Left(Top) /\ Done(Top)' = Done(Top)
    BY <1>3, <1>5 DEF Left, Done
  <2> QED BY <1>3, <1>4, <2>1 DEF RunLeft, RunQueued
<1> QED BY <1>4, <1>7, <1>8 DEF RunInv, TwiceOnlyIfDisturbed, LostOnlyBehindDialog

(* What tidying takes from the queue ran or was deferred behind a dialog,   *)
(* and what it leaves has not run, or was disturbed.                        *)
LEMMA TrimTakes ==
  ASSUME TypeOK, OrderInv, RunInv, Trim
  PROVE  /\ Queue' \subseteq Queue
         /\ Queue \ Queue' \subseteq Run \cup behindDialog
         /\ Queue' \cap Run \subseteq disturbed
         /\ depth >= 2 => Queue \subseteq Run \cup behindDialog
<1> DEFINE m == Top.methods
           q == deferredMethods
<1>1. /\ Step = "trim" /\ q' = Trimmed(q, m)
      /\ depth \in 1 .. depth /\ Top = frames[depth] /\ Top.step = "trim" /\ Top \in Frame
      /\ depth >= 2 => depth \in 2 .. depth
  BY TrimFacts, TopFacts
<1>2. q \in Seq(Call) /\ m \in Seq(Call) /\ Len(m) \in Nat /\ Len(q) \in Nat /\ Top.at = Len(m)
  BY <1>1, FrameHasFields DEF TypeOK, OrderInv, Ordered
<1>3. /\ Len(q') = (IF Len(m) < Len(q) THEN Len(q) - Len(m) ELSE 0)
      /\ q' \in Seq(Call)
      /\ \A i \in 1 .. Len(q') : q'[i] = q[Len(m) + i] /\ Len(m) + i \in 1 .. Len(q)
  BY <1>1, <1>2, TrimmedFacts
<1>4. /\ Queue = {q[i] : i \in 1 .. Len(q)} /\ Queue' = {q'[i] : i \in 1 .. Len(q')}
      /\ All(Top) = {m[i] : i \in 1 .. Len(m)} /\ Done(Top) = {m[i] : i \in 1 .. Len(m)}
  BY <1>2, <1>3 DEF Queue, All, Done, Range
<1>5. All(Top) \subseteq Run /\ FrameInv(Top)
  BY <1>1, <1>4 DEF RunInv, FramesInv, FrameInv
<1>6. \A i, j \in 1 .. Len(q) : i < j => q[i] < q[j]
  BY DEF OrderInv, Ordered, Sorted
<1> HIDE DEF m
<1>7. Queue' \subseteq Queue
  BY <1>3, <1>4
<1>8. Queue \cap Run \subseteq disturbed \cup All(Top)
  BY <1>1, <1>4 DEF RunInv, RunQueued
<1>9. depth >= 2 => Queue \subseteq Run \cup behindDialog
  BY <1>1, <1>5 DEF RunInv, BehindInner
<1>10. CASE Prefix(m, q)
  <2>1. ASSUME NEW e \in Queue, e \notin Queue' PROVE e \in Run
    <3>1. PICK i \in 1 .. Len(q) : e = q[i]
      BY <1>4
    <3>2. CASE i <= Len(m)
      <4>1. e = m[i] /\ i \in 1 .. Len(m)
        BY <1>2, <1>10, <3>1, <3>2 DEF Prefix
      <4> QED BY <1>4, <1>5, <4>1
    <3>3. CASE ~(i <= Len(m))
      <4>1. i - Len(m) \in 1 .. Len(q') /\ Len(m) + (i - Len(m)) = i
        BY <1>2, <1>3, <3>3
      <4>2. q'[i - Len(m)] = e
        BY <1>3, <3>1, <4>1
      <4> QED BY <1>4, <2>1, <4>1, <4>2
    <3> QED BY <3>2, <3>3
  <2>2. ASSUME NEW e \in Queue', e \in All(Top) PROVE FALSE
    <3>1. PICK i \in 1 .. Len(q') : e = q[Len(m) + i] /\ Len(m) + i \in 1 .. Len(q)
      BY <1>3, <1>4
    <3>2. PICK j \in 1 .. Len(m) : e = q[j] /\ j \in 1 .. Len(q)
      BY <1>2, <1>4, <1>10, <2>2 DEF Prefix
    <3>3. j < Len(m) + i
      BY <1>2, <1>3, <3>1, <3>2
    <3>4. e < e
      BY <1>6, <3>1, <3>2, <3>3
    <3>5. e \in Nat
      BY <1>7, <2>2, CallsAreNumbers
    <3> QED BY <3>4, <3>5
  <2> QED BY <1>7, <1>8, <1>9, <2>1, <2>2
<1>11. CASE All(Top) \subseteq disturbed /\ Queue \subseteq Run \cup behindDialog
  BY <1>7, <1>8, <1>9, <1>11
<1> QED BY <1>1, <1>5, <1>10, <1>11 DEF FrameInv, m

LEMMA RunTrim ==
  ASSUME TypeOK, OrderInv, RunInv, Trim
  PROVE  RunInv'
<1>1. /\ Queue' \subseteq Queue /\ Queue \ Queue' \subseteq Run \cup behindDialog
      /\ Queue' \cap Run \subseteq disturbed
      /\ depth >= 2 => Queue \subseteq Run \cup behindDialog
  BY TrimTakes
<1>2. /\ Step = "trim" /\ UNCHANGED <<deferred, firstRuns, again, disturbed, behindDialog>>
      /\ depth \in Nat \ {0} /\ Top = frames[depth]
  BY TrimFacts, TopFacts DEF Trim
<1>3. Run' = Run
  BY <1>2 DEF Run
<1>4. /\ frames' \in Seq(Frame) /\ \A k \in 1 .. depth - 1 : frames'[k] = frames[k]
      /\ \/ depth' = depth /\ frames'[depth].step = "copy" /\ Step' = "copy"
            /\ Done(frames'[depth]) = Done(Top)
         \/ depth' = depth - 1 /\ Step' \in {"idle", "dialog"}
  <2>1. CASE StepSet("copy")
    <3>1. PICK f \in Frame : SetTop(f) /\ f.step = "copy" /\ f.methods = Top.methods /\ f.at = Top.at
      BY <2>1 DEF StepSet
    <3>2. /\ depth' = depth /\ frames'[depth] = f /\ frames' \in Seq(Frame)
          /\ \A k \in 1 .. depth - 1 : frames'[k] = frames[k]
      BY <1>2, <3>1, TopSet
    <3>3. Step' = "copy"
      BY <1>2, <3>1, TopAfter
    <3>4. Done(frames'[depth]) = Done(Top)
      BY <3>1, <3>2 DEF Done
    <3> QED BY <3>1, <3>2, <3>3, <3>4
  <2>2. CASE frames' = Front(frames)
    <3>1. /\ depth' = depth - 1 /\ frames' \in Seq(Frame)
          /\ \A k \in 1 .. depth - 1 : frames'[k] = frames[k]
      BY <1>2, <2>2, TopPopped
    <3>2. Step' \in {"idle", "dialog"}
      <4>1. CASE frames' = <<>>
        BY <4>1 DEF Step
      <4>2. CASE frames' # <<>>
        <5>1. depth - 1 \in 1 .. depth - 1
          BY <3>1, <4>2, NotEmpty DEF depth
        <5>2. Top' = frames[depth - 1]
          BY <3>1, <5>1 DEF Top, Last, depth
        <5> QED BY <4>2, <5>1, <5>2, BelowTop DEF Step
      <4> QED BY <4>1, <4>2
    <3> QED BY <3>1, <3>2
  <2> QED BY <2>1, <2>2, TrimFacts
<1>5. ASSUME NEW k \in 1 .. depth - 1 PROVE FrameInv(frames[k])' /\ depth >= 2
  <2>1. /\ depth >= 2 /\ FrameInv(frames[k]) /\ frames[k].step = "dialog" /\ frames'[k] = frames[k]
    BY <1>2, <1>4, BelowTop DEF RunInv, FramesInv
  <2>2. Queue' \subseteq Run \cup behindDialog
    BY <1>1, <2>1
  <2> QED BY <1>2, <1>3, <2>1, <2>2 DEF FrameInv, All, Done
<1>6. FramesInv'
  <2> SUFFICES ASSUME NEW k \in 1 .. depth' PROVE FrameInv(frames[k])'
    BY DEF FramesInv
  <2>1. CASE k \in 1 .. depth - 1
    BY <1>5, <2>1
  <2>2. CASE k = depth /\ frames'[depth].step = "copy" /\ Done(frames'[depth]) = Done(Top)
    <3>1. Done(Top) \subseteq Run
      BY <1>2 DEF RunInv, FramesInv, FrameInv
    <3> QED BY <1>3, <2>2, <3>1 DEF FrameInv, Done
  <2> QED BY <1>2, <1>4, <2>1, <2>2
<1>7. BehindInner'
  <2> SUFFICES ASSUME NEW k \in 2 .. depth', frames'[k].step # "copy"
               PROVE  Queue' \subseteq All(frames'[k]) \cup Run \cup behindDialog
    BY <1>2, <1>3 DEF BehindInner, All
  <2>1. k \in 1 .. depth - 1
    BY <1>2, <1>4
  <2> QED BY <1>1, <1>5, <2>1
<1>8. RunLeft' /\ RunQueued'
  BY <1>1, <1>2, <1>3, <1>4 DEF RunLeft, RunQueued
<1>9. LostOnlyBehindDialog'
  BY <1>1, <1>2, <1>3 DEF RunInv, LostOnlyBehindDialog, Queue, Run
<1> QED BY <1>2, <1>6, <1>7, <1>8, <1>9 DEF RunInv, TwiceOnlyIfDisturbed

LEMMA RunNext == TypeOK /\ OrderInv /\ RunInv /\ [Next]_vars => RunInv'
<1> SUFFICES ASSUME TypeOK, OrderInv, RunInv, [Next]_vars PROVE RunInv'
  OBVIOUS
<1>1. CASE Push
  BY <1>1, RunPush
<1>2. CASE CustomEvent
  BY <1>2, RunCustomEvent
<1>3. CASE Copy
  BY <1>3, RunCopy
<1>4. CASE RunCall
  BY <1>4, RunRunCall
<1>5. CASE Trim
  BY <1>5, RunTrim
<1>6. CASE CloseDialog
  <2>1. /\ Step = "dialog" /\ StepSet("run")
        /\ UNCHANGED <<deferredMethods, deferred, firstRuns, again, disturbed, behindDialog>>
    BY <1>6, StepChanged DEF CloseDialog, queue
  <2>2. All(Top) \subseteq disturbed /\ Left(Top) \subseteq All(Top)
    <3>1. depth \in 1 .. depth /\ Top = frames[depth] /\ Top.step = "dialog" /\ Top \in Frame
          /\ Top.at \in 0 .. Len(Top.methods)
      BY <2>1, TopFacts
    <3>2. Top.methods \in Seq(Call) /\ Len(Top.methods) \in Nat
      BY <3>1, FrameHasFields
    <3>3. All(Top) \subseteq disturbed
      BY <3>1 DEF RunInv, FramesInv, FrameInv
    <3> QED BY <3>1, <3>2, <3>3 DEF Left, All, Range
  <2>3. Queue \cap Run \subseteq disturbed
    BY <2>1 DEF RunInv, RunQueued
  <2> QED BY <2>1, <2>2, <2>3, RunStepSet
<1>7. CASE CompareTimers
  <2>1. /\ Step = "run" /\ Top.at = Len(Top.methods)
        /\ UNCHANGED <<deferredMethods, deferred, firstRuns, again, behindDialog>>
        /\ \/ StepSet("copy") /\ disturbed' = disturbed \cup Range(Top.methods)
           \/ StepSet("trim") /\ disturbed' = disturbed
    BY <1>7, StepChanged DEF CompareTimers, queue
  <2>2. Queue \cap Run \subseteq disturbed \cup Done(Top)
    BY <2>1 DEF RunInv, RunQueued
  <2>3. Done(Top) \subseteq Range(Top.methods)
    <3>1. Top.methods \in Seq(Call) /\ Top.at \in 0 .. Len(Top.methods)
      BY <2>1, TopFacts, FrameHasFields
    <3> QED BY <3>1 DEF Done, Range
  <2>4. CASE StepSet("copy") /\ disturbed' = disturbed \cup Range(Top.methods)
    BY <2>1, <2>2, <2>3, <2>4, RunStepSet
  <2>5. CASE StepSet("trim") /\ disturbed' = disturbed
    BY <2>1, <2>2, <2>5, RunStepSet
  <2> QED BY <2>1, <2>4, <2>5
<1>8. CASE \/ \E t \in Thread : Post(t)
           \/ PushTimer \/ UNCHANGED vars \/ \E t \in Timer : TimerEvent(t)
  BY <1>8, RunSame DEF Post, PushTimer, TimerEvent, vars, queue
<1> QED BY <1>1, <1>2, <1>3, <1>4, <1>5, <1>6, <1>7, <1>8 DEF Next, Main, Defer, MainDefers

LEMMA InitRun == Init => RunInv
<1> SUFFICES ASSUME Init PROVE RunInv
  OBVIOUS
<1>1. Queue = {} /\ Run = {} /\ depth = 0 /\ Step = "idle"
  BY DEF Init, Queue, Run, Range, depth, Step
<1> QED BY <1>1 DEF Init, RunInv, FramesInv, BehindInner, RunLeft, RunQueued,
           TwiceOnlyIfDisturbed, LostOnlyBehindDialog

(* A call is made again only if a timer was added or expired, or a dialog   *)
(* opened, while the copy it belongs to was being run: however many threads *)
(* push meanwhile, tidying takes exactly the copy from the queue.           *)
THEOREM TwiceTheorem == Spec => []TwiceOnlyIfDisturbed
<1>1. RunInv => TwiceOnlyIfDisturbed
  BY DEF RunInv
<1> QED BY <1>1, InitType, TypeNext, InitOrder, OrderNext, InitRun, RunNext, PTL DEF Spec

(* A call leaves the queue without having run only if it was deferred while *)
(* an activation with a dialog was going on.                                *)
THEOREM LostTheorem == Spec => []LostOnlyBehindDialog
<1>1. RunInv => LostOnlyBehindDialog
  BY DEF RunInv
<1> QED BY <1>1, InitType, TypeNext, InitOrder, OrderNext, InitRun, RunNext, PTL DEF Spec
=============================================================================
