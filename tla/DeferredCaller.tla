--------------------------- MODULE DeferredCaller ---------------------------
(***************************************************************************)
(* A CDefferedCaller: calls that any thread puts off to the main thread.   *)
(* The network's threads push a call under the lock and then post an event *)
(* to the event loop of the main thread, where customEvent runs whatever   *)
(* is queued.  Calls with a delay go through a second list, from which     *)
(* customEvent starts timers.                                              *)
(*                                                                         *)
(* customEvent copies the queue, runs the copy without the lock, and tidies*)
(* the queue afterwards.  Meanwhile other threads push, and a call may     *)
(* open a dialog whose own event loop enters customEvent again.  frames is *)
(* the stack of the activations of customEvent; calls are numbered in the  *)
(* order in which they were deferred.                                      *)
(***************************************************************************)
EXTENDS Integers, Sequences, FiniteSets, SequencesExt

CONSTANTS
  Thread,    \* the threads of the network service
  MaxCall,   \* bound: calls deferred
  MaxTimer,  \* bound: calls deferred with a delay
  MaxDialog  \* bound: dialogs opened by calls

ASSUME DeferredCallerAssumption ==
  MaxCall \in Nat /\ MaxTimer \in Nat /\ MaxDialog \in Nat

Call == 1 .. MaxCall
Timer == 1 .. MaxTimer

VARIABLES
  deferredMethods,          \* the queue
  deferredMethodsForTimer,  \* the calls with a delay that did not run yet
  started,                  \* those whose timer was started
  posting,                  \* threads between their push and their post
  events,                   \* posted events that were not delivered
  frames,                   \* activations of customEvent, innermost last
  deferred,                 \* number of calls ever deferred
  delayed,                  \* number of calls ever deferred with a delay
  dialogs,                  \* number of dialogs ever opened
  firstRuns,                \* auxiliary: calls in the order of their first runs
  again,                    \* auxiliary: calls that ran more than once
  disturbed,                \* auxiliary: calls that were being run when a timer
                            \* was added or a dialog opened
  behindDialog              \* auxiliary: calls deferred while an activation
                            \* was going on in which a dialog had been opened

queue == <<deferredMethods, deferredMethodsForTimer, started>>
vars == <<queue, posting, events, frames, deferred, delayed, dialogs,
          firstRuns, again, disturbed, behindDialog>>

(***************************************************************************)
(* One activation: methods and timers are its copy of the queue and the    *)
(* length of its copy of the timers, at the number of calls made so far.   *)
(***************************************************************************)
Frame == [methods : Seq(Call), timers : Nat, at : Nat, dialog : BOOLEAN,
          step : {"copy", "run", "dialog", "trim"}]

NewFrame == [methods |-> <<>>, timers |-> 0, at |-> 0, dialog |-> FALSE,
             step |-> "copy"]

TypeOK ==
  /\ deferredMethods \in Seq(Call)
  /\ deferredMethodsForTimer \subseteq Timer
  /\ started \subseteq deferredMethodsForTimer
  /\ posting \subseteq Thread
  /\ events \in Nat
  /\ frames \in Seq(Frame)
  /\ \A i \in 1 .. Len(frames) :
       /\ frames[i].at \in 0 .. Len(frames[i].methods)
       /\ (frames[i].step = "dialog") \/ (i = Len(frames))
  /\ deferred \in 0 .. MaxCall /\ delayed \in 0 .. MaxTimer
  /\ dialogs \in 0 .. MaxDialog
  /\ firstRuns \in Seq(Call)
  /\ again \subseteq Call /\ disturbed \subseteq Call
  /\ behindDialog \subseteq Call

Init ==
  /\ deferredMethods = <<>> /\ deferredMethodsForTimer = {} /\ started = {}
  /\ posting = {} /\ events = 0 /\ frames = <<>>
  /\ deferred = 0 /\ delayed = 0 /\ dialogs = 0
  /\ firstRuns = <<>> /\ again = {} /\ disturbed = {} /\ behindDialog = {}

-----------------------------------------------------------------------------
Top == Last(frames)
SetTop(f) == frames' = Front(frames) \o <<f>>

(* What the main thread is at.                                              *)
Step == IF frames = <<>> THEN "idle" ELSE Top.step

(* Mutant: a call that is being made may let events in.                     *)
EventLoopInCall == Step \in {"idle", "dialog", "run"}

(* The main thread waits for events, in its own loop or in a dialog's.      *)
EventLoop == Step \in {"idle", "dialog"}

(* A call just made by the main thread, or its event loop, may itself defer.*)
MainCode == EventLoop \/ Step = "run"

(* Mutant: the call is put in front.                                        *)
PushedInFront(q, c) == <<c>> \o q

Pushed(q, c) == Append(q, c)

(* The push of performMainThreadAlwaysDeffered, under the lock.             *)
Push ==
  /\ deferred < MaxCall
  /\ deferred' = deferred + 1
  /\ deferredMethods' = Pushed(deferredMethods, deferred + 1)
  /\ behindDialog' = IF \E i \in 1 .. Len(frames) : frames[i].dialog
                     THEN behindDialog \cup {deferred + 1} ELSE behindDialog
  /\ UNCHANGED <<deferredMethodsForTimer, started, frames, delayed, dialogs,
                 firstRuns, again, disturbed>>

(* The push of performMainThreadAfterMilliseconds.                          *)
PushTimer ==
  /\ delayed < MaxTimer
  /\ delayed' = delayed + 1
  /\ deferredMethodsForTimer' = deferredMethodsForTimer \cup {delayed + 1}
  /\ UNCHANGED <<deferredMethods, started, frames, deferred, dialogs,
                 firstRuns, again, disturbed, behindDialog>>

Defer(t) ==
  /\ t \notin posting
  /\ posting' = posting \cup {t}
  /\ Push \/ PushTimer
  /\ UNCHANGED events

Post(t) ==
  /\ t \in posting
  /\ posting' = posting \ {t}
  /\ events' = events + 1
  /\ UNCHANGED <<queue, frames, deferred, delayed, dialogs, firstRuns, again,
                 disturbed, behindDialog>>

(* The main thread defers: nothing of its own runs before the event is      *)
(* posted.                                                                  *)
MainDefers ==
  /\ MainCode
  /\ events' = events + 1
  /\ Push \/ PushTimer
  /\ UNCHANGED posting

-----------------------------------------------------------------------------
(* An event is delivered and customEvent entered.                           *)
CustomEvent ==
  /\ EventLoop /\ events > 0
  /\ events' = events - 1
  /\ frames' = Append(frames, NewFrame)
  /\ UNCHANGED <<queue, posting, deferred, delayed, dialogs, firstRuns, again,
                 disturbed, behindDialog>>

(* Mutant: only timers that are alone are started.                          *)
StartedIfFew(timers) == IF Cardinality(timers) < 2 THEN timers ELSE started

Started(timers) == timers

(* Both lists are copied under the lock; then the timers are started.  The  *)
(* recursive call of customEvent begins here too.                           *)
Copy ==
  /\ Step = "copy"
  /\ SetTop([Top EXCEPT !.methods = deferredMethods,
                        !.timers = Cardinality(deferredMethodsForTimer),
                        !.at = 0, !.step = "run"])
  /\ started' = Started(deferredMethodsForTimer)
  /\ UNCHANGED <<deferredMethods, deferredMethodsForTimer, posting, events,
                 deferred, delayed, dialogs, firstRuns, again, disturbed,
                 behindDialog>>

(* The next call of the copy is made; it may open a dialog, which runs an   *)
(* event loop before the call returns.                                      *)
RunCall ==
  /\ Step = "run" /\ Top.at < Len(Top.methods)
  /\ LET c == Top.methods[Top.at + 1]
     IN  IF c \in Range(firstRuns)
         THEN again' = again \cup {c} /\ UNCHANGED firstRuns
         ELSE firstRuns' = Append(firstRuns, c) /\ UNCHANGED again
  /\ \/ /\ SetTop([Top EXCEPT !.at = @ + 1])
        /\ UNCHANGED <<dialogs, disturbed>>
     \/ /\ dialogs < MaxDialog
        /\ dialogs' = dialogs + 1
        /\ SetTop([Top EXCEPT !.at = @ + 1, !.dialog = TRUE, !.step = "dialog"])
        /\ disturbed' = disturbed \cup Range(Top.methods)
  /\ UNCHANGED <<queue, posting, events, deferred, delayed, behindDialog>>

(* The user closes the dialog.                                              *)
CloseDialog ==
  /\ Step = "dialog"
  /\ SetTop([Top EXCEPT !.step = "run"])
  /\ UNCHANGED <<queue, posting, events, deferred, delayed, dialogs,
                 firstRuns, again, disturbed, behindDialog>>

(* All calls of the copy were made.  If the list of timers has another      *)
(* length than the copy, customEvent starts over, with the calls it has     *)
(* just made still in the queue.                                            *)
CompareTimers ==
  /\ Step = "run" /\ Top.at = Len(Top.methods)
  /\ IF Top.timers # Cardinality(deferredMethodsForTimer)
     THEN /\ SetTop([Top EXCEPT !.step = "copy"])
          /\ disturbed' = disturbed \cup Range(Top.methods)
     ELSE SetTop([Top EXCEPT !.step = "trim"]) /\ UNCHANGED disturbed
  /\ UNCHANGED <<queue, posting, events, deferred, delayed, dialogs,
                 firstRuns, again, behindDialog>>

(* Mutants: whatever is queued is dropped; one call less is taken out.      *)
TrimmedEmpty(q, methods) == <<>>
TrimmedButOne(q, methods) ==
  IF Len(methods) >= Len(q) THEN <<>>
  ELSE SubSeq(q, IF methods = <<>> THEN 1 ELSE Len(methods), Len(q))

(* The calls made are taken from the front of a queue that has grown; one   *)
(* that has not is cleared.                                                 *)
Trimmed(q, methods) ==
  IF Len(methods) < Len(q) THEN SubSeq(q, Len(methods) + 1, Len(q)) ELSE <<>>

(* Where the queue had grown customEvent starts over, else it returns.      *)
Trim ==
  /\ Step = "trim"
  /\ deferredMethods' = Trimmed(deferredMethods, Top.methods)
  /\ IF Len(Top.methods) < Len(deferredMethods)
     THEN SetTop([Top EXCEPT !.step = "copy"])
     ELSE frames' = Front(frames)
  /\ UNCHANGED <<deferredMethodsForTimer, started, posting, events, deferred,
                 delayed, dialogs, firstRuns, again, disturbed, behindDialog>>

(* timerEvent: a timer expires, its call is made and taken from the list.   *)
TimerEvent(t) ==
  /\ EventLoop /\ t \in started
  /\ deferredMethodsForTimer' = deferredMethodsForTimer \ {t}
  /\ started' = started \ {t}
  /\ UNCHANGED <<deferredMethods, posting, events, frames, deferred, delayed,
                 dialogs, firstRuns, again, disturbed, behindDialog>>

-----------------------------------------------------------------------------
Main == CustomEvent \/ Copy \/ RunCall \/ CompareTimers \/ Trim

Next ==
  \/ \E t \in Thread : Defer(t) \/ Post(t)
  \/ MainDefers \/ CloseDialog
  \/ Main
  \/ \E t \in Timer : TimerEvent(t)

(* A thread that has pushed goes on to post, the main thread handles its    *)
(* events, a started timer expires, and the user closes an open dialog.     *)
(* Without the last a call can wait for ever: made again by the activation  *)
(* inside its dialog, the call before it can open a second one.             *)
Fairness ==
  /\ \A t \in Thread : WF_vars(Post(t))
  /\ WF_vars(Main)
  /\ WF_vars(CloseDialog)
  /\ \A t \in Timer : WF_vars(TimerEvent(t))

Spec == Init /\ [][Next]_vars /\ Fairness

-----------------------------------------------------------------------------
(* Calls run for the first time in the order in which they were deferred,   *)
(* whatever threads, timers and dialogs do.                                 *)
FirstRunsInOrder ==
  \A i, j \in 1 .. Len(firstRuns) : i < j => firstRuns[i] < firstRuns[j]

(* A call is made again only if, while it was being run, a timer was added  *)
(* or expired or a dialog was opened: pushes of other threads alone never   *)
(* repeat a call.                                                           *)
TwiceOnlyIfDisturbed == again \subseteq disturbed

(* A call that is out of the queue without having run was deferred while    *)
(* an activation was going on that had been interrupted by a dialog.        *)
LostOnlyBehindDialog ==
  \A c \in 1 .. deferred :
    c \in Range(deferredMethods) \cup Range(firstRuns) \cup behindDialog

(* Every deferred call is made in the end, unless it was deferred behind a  *)
(* dialog.                                                                  *)
EveryCallRuns ==
  \A c \in Call :
    c \in Range(deferredMethods) ~> c \in Range(firstRuns) \cup behindDialog

(* Every call with a delay is made in the end: none waits in the list with  *)
(* no timer started for it.                                                 *)
EveryTimerExpires ==
  \A t \in Timer :
    t \in deferredMethodsForTimer ~> t \notin deferredMethodsForTimer
=============================================================================
