------------------------------- MODULE Watcher -------------------------------
(***************************************************************************)
(* pkg/watcher: a Watcher turns changes of one file into tokens of its     *)
(* changeCh.  Events of fsnotify, or the stat of a polling goroutine, arm  *)
(* a Debouncer; its timer runs notifyChange, which may compare contents    *)
(* before it signals.  The consumer loads the file for every token.  Stop  *)
(* and Start may be called while all of these are under way.               *)
(*                                                                         *)
(* The file is a version and a modification time; a write advances both, a *)
(* touch only the time, and an atomic replacement leaves the file missing  *)
(* for a moment.  fsnotify reports every one of these.                     *)
(***************************************************************************)
EXTENDS Naturals, FiniteSets

CONSTANTS
  Loops,       \* slots for watchFsnotify and watchPolling goroutines
  Callbacks,   \* slots for notifyChange calls
  MaxChanges,  \* bound: writes and touches of the file
  MaxStarts    \* bound: calls of Start

ASSUME SlotAssumption == /\ Loops \subseteq Nat /\ Loops # {} /\ IsFiniteSet(Loops)
                         /\ Callbacks \subseteq Nat /\ Callbacks # {} /\ IsFiniteSet(Callbacks)
ASSUME LimitAssumption == MaxChanges \in Nat /\ MaxStarts \in Nat

VARIABLES
  data, mtime, present,  \* the file
  polling, comparing,    \* the watcher's mode: useFallback, compareContent
  started,
  ctx,                   \* number of w.ctx; it is cancelled unless started
  event,                 \* an event is in the channel of w.fsWatcher
  lastMtime, lastHash,   \* lastMtime, lastContentHash
  seq,                   \* debouncer.seq
  armed,                 \* the running timer, by its seq, 0 for none
  fired,                 \* timers that have gone off and not taken the lock yet
  loop,                  \* the watching goroutines
  callback,              \* the notifyChange calls
  token,                 \* changeCh holds its token
  reload,                \* the refresh its owner requests after every Start
  seen                   \* the version the consumer loaded last

fileVars  == <<data, mtime, present>>
modeVars  == <<polling, comparing>>
lifeVars  == <<started, ctx>>
lastVars  == <<lastMtime, lastHash>>
timerVars == <<seq, armed, fired>>
userVars  == <<token, reload, seen>>
vars == <<fileVars, modeVars, lifeVars, event, lastVars, timerVars, loop, callback, userVars>>

NoLoop == [pc |-> "none", ctx |-> 0, mtime |-> 0]
NoCall == [pc |-> "none", hash |-> 0]

Init ==
  /\ data = 1 /\ mtime = 1 /\ present = TRUE
  /\ polling \in BOOLEAN /\ comparing \in BOOLEAN
  /\ started = FALSE /\ ctx = 0
  /\ event = FALSE /\ lastMtime = 0 /\ lastHash = 0
  /\ seq = 0 /\ armed = 0 /\ fired = {}
  /\ loop = [l \in Loops |-> NoLoop] /\ callback = [k \in Callbacks |-> NoCall]
  /\ token = FALSE /\ reload = FALSE /\ seen = 0

-----------------------------------------------------------------------------
(* The file.                                                               *)
Reported == event' = (started /\ ~polling)

Write ==
  /\ present /\ mtime <= MaxChanges
  /\ data' = data + 1 /\ mtime' = mtime + 1
  /\ Reported
  /\ UNCHANGED <<present, modeVars, lifeVars, lastVars, timerVars, loop, callback, userVars>>

Touch ==
  /\ present /\ mtime <= MaxChanges
  /\ mtime' = mtime + 1
  /\ Reported
  /\ UNCHANGED <<data, present, modeVars, lifeVars, lastVars, timerVars, loop, callback, userVars>>

\* A Remove event arms nothing, watchFsnotify only reports the error; a Rename event does.
Remove ==
  /\ present /\ mtime <= MaxChanges
  /\ present' = FALSE
  /\ Reported \/ UNCHANGED event
  /\ UNCHANGED <<data, mtime, modeVars, lifeVars, lastVars, timerVars, loop, callback, userVars>>

Replace ==
  /\ ~present /\ present' = TRUE
  /\ data' = data + 1 /\ mtime' = mtime + 1
  /\ Reported
  /\ UNCHANGED <<modeVars, lifeVars, lastVars, timerVars, loop, callback, userVars>>

-----------------------------------------------------------------------------
(* The Debouncer.  A timer that has gone off cannot be stopped any more;   *)
(* seq tells it that it is no longer the last one.                         *)
\* Variant: nothing is scheduled while a callback runs.
TriggerUnlessRunning ==
  /\ UNCHANGED fired
  /\ IF \E k \in Callbacks : callback[k].pc # "none"
     THEN UNCHANGED <<seq, armed>>
     ELSE seq' = seq + 1 /\ armed' = seq + 1

Trigger == seq' = seq + 1 /\ armed' = seq + 1 /\ UNCHANGED fired

Cancel == seq' = seq + 1 /\ armed' = 0 /\ UNCHANGED fired

TimerFires ==
  /\ armed # 0
  /\ fired' = fired \cup {armed} /\ armed' = 0
  /\ UNCHANGED <<fileVars, modeVars, lifeVars, event, lastVars, seq, loop, callback, userVars>>

\* Only the timer scheduled last goes on to its callback.
TimerRuns(t, k) ==
  /\ t \in fired /\ callback[k] = NoCall
  /\ \A j \in Callbacks : callback[j] = NoCall => k <= j
  /\ fired' = fired \ {t}
  /\ callback' = IF t = seq THEN [callback EXCEPT ![k].pc = "check"] ELSE callback
  /\ UNCHANGED <<fileVars, modeVars, lifeVars, event, lastVars, seq, armed, loop, userVars>>

-----------------------------------------------------------------------------
(* Start and Stop, each one critical section.                              *)
Start(l) ==
  /\ ~started /\ ctx < MaxStarts
  /\ loop[l] = NoLoop /\ \A j \in Loops : loop[j] = NoLoop => l <= j
  /\ started' = TRUE /\ ctx' = ctx + 1
  /\ lastMtime' = IF present THEN mtime ELSE 0
  /\ lastHash' = IF comparing THEN (IF present THEN data ELSE 0) ELSE lastHash
  /\ loop' = [loop EXCEPT ![l].pc = "begin"]
  /\ reload' = TRUE
  /\ UNCHANGED <<fileVars, modeVars, event, timerVars, callback, token, seen>>

\* Closing the fsnotify watcher drops its events.  The Stop after which no Start comes is left
\* out: nothing is promised then.
Stop ==
  /\ started /\ started' = FALSE
  /\ ctx < MaxStarts
  /\ event' = FALSE
  /\ Cancel
  /\ UNCHANGED <<fileVars, modeVars, ctx, lastVars, loop, callback, userVars>>

Cancelled(c) == ~started \/ c # ctx
InSelect == [pc |-> "select", ctx |-> ctx, mtime |-> 0]

\* A new goroutine looks at w.fsWatcher and w.ctx only when it gets to run.
LoopBegin(l) ==
  /\ loop[l].pc = "begin"
  /\ loop' = [loop EXCEPT ![l] = IF ~polling /\ ~started THEN NoLoop ELSE InSelect]
  /\ UNCHANGED <<fileVars, modeVars, lifeVars, event, lastVars, timerVars, callback, userVars>>

\* Both kinds of goroutine leave their select when the context they wait on is cancelled.
LoopExit(l) ==
  /\ loop[l].pc = "select" /\ Cancelled(loop[l].ctx)
  /\ loop' = [loop EXCEPT ![l] = NoLoop]
  /\ UNCHANGED <<fileVars, modeVars, lifeVars, event, lastVars, timerVars, callback, userVars>>

\* watchFsnotify: the event channel belongs to the fsnotify watcher of its own Start.
FsEvent(l) ==
  /\ ~polling /\ loop[l].pc = "select" /\ ~Cancelled(loop[l].ctx)
  /\ event /\ event' = FALSE
  /\ Trigger
  /\ UNCHANGED <<fileVars, modeVars, lifeVars, lastVars, loop, callback, userVars>>

\* watchPolling: a stat, the comparison under the lock, and the trigger after it.
PollStat(l) ==
  /\ polling /\ loop[l].pc = "select"
  /\ present
  /\ loop' = [loop EXCEPT ![l] = [pc |-> "compare", ctx |-> @.ctx, mtime |-> mtime]]
  /\ UNCHANGED <<fileVars, modeVars, lifeVars, event, lastVars, timerVars, callback, userVars>>

\* The next select waits on whatever context w.ctx holds by then.
PollCompare(l) ==
  /\ loop[l].pc = "compare"
  /\ IF loop[l].mtime > lastMtime
     THEN lastMtime' = loop[l].mtime /\ loop' = [loop EXCEPT ![l] = [pc |-> "trigger", ctx |-> 0, mtime |-> 0]]
     ELSE loop' = [loop EXCEPT ![l] = InSelect]
          /\ UNCHANGED lastMtime
  /\ UNCHANGED <<fileVars, modeVars, lifeVars, event, lastHash, timerVars, callback, userVars>>

PollTrigger(l) ==
  /\ loop[l].pc = "trigger"
  /\ Trigger
  /\ loop' = [loop EXCEPT ![l] = InSelect]
  /\ UNCHANGED <<fileVars, modeVars, lifeVars, event, lastVars, callback, userVars>>

-----------------------------------------------------------------------------
(* notifyChange.                                                           *)
Goto(k, pc) == callback' = [callback EXCEPT ![k].pc = pc]
Return(k) == callback' = [callback EXCEPT ![k] = NoCall]

CallbackCheck(k) ==
  /\ callback[k].pc = "check"
  /\ IF ~started THEN Return(k) ELSE Goto(k, IF comparing THEN "read" ELSE "signal")
  /\ UNCHANGED <<fileVars, modeVars, lifeVars, event, lastVars, timerVars, loop, userVars>>

\* An unreadable file is skipped.
CallbackRead(k) ==
  /\ callback[k].pc = "read"
  /\ IF present THEN callback' = [callback EXCEPT ![k] = [pc |-> "compare", hash |-> data]]
                ELSE Return(k)
  /\ UNCHANGED <<fileVars, modeVars, lifeVars, event, lastVars, timerVars, loop, userVars>>

CallbackCompare(k) ==
  /\ callback[k].pc = "compare"
  /\ IF callback[k].hash = lastHash
     THEN Return(k) /\ UNCHANGED lastHash
     ELSE Goto(k, "signal") /\ lastHash' = callback[k].hash
  /\ UNCHANGED <<fileVars, modeVars, lifeVars, event, lastMtime, timerVars, loop, userVars>>

\* A full channel keeps the token it has.
CallbackSignal(k) ==
  /\ callback[k].pc = "signal"
  /\ token' = TRUE
  /\ Return(k)
  /\ UNCHANGED <<fileVars, modeVars, lifeVars, event, lastVars, timerVars, loop, reload, seen>>

-----------------------------------------------------------------------------
(* The consumer loads the file for a token and after it called Start.  A   *)
(* missing file fails to load.                                             *)
Load == seen' = IF present THEN data ELSE seen

TakeToken ==
  /\ token /\ token' = FALSE
  /\ Load
  /\ UNCHANGED <<fileVars, modeVars, lifeVars, event, lastVars, timerVars, loop, callback, reload>>

Reload ==
  /\ reload /\ reload' = FALSE
  /\ Load
  /\ UNCHANGED <<fileVars, modeVars, lifeVars, event, lastVars, timerVars, loop, callback, token>>

-----------------------------------------------------------------------------
File == Write \/ Touch \/ Remove \/ Replace
Looping(l) == LoopBegin(l) \/ LoopExit(l) \/ FsEvent(l) \/ PollStat(l) \/ PollCompare(l) \/ PollTrigger(l)
Timers == TimerFires \/ \E t \in fired, k \in Callbacks : TimerRuns(t, k)
Calling(k) == CallbackCheck(k) \/ CallbackRead(k) \/ CallbackCompare(k) \/ CallbackSignal(k)

Next == \/ File \/ Stop \/ (\E l \in Loops : Start(l) \/ Looping(l))
        \/ Timers \/ (\E k \in Callbacks : Calling(k)) \/ TakeToken \/ Reload

Spec == Init /\ [][Next]_vars

\* Timers, callbacks and the consumer: each has finitely much to do for a change, so that they
\* need no fairness among them.
Reacting == Timers \/ (\E k \in Callbacks : Calling(k)) \/ TakeToken \/ Reload

\* Every goroutine is scheduled and polls again, and a replacement is completed.
Fairness ==
  /\ \A l \in Loops : WF_vars(Looping(l))
  /\ WF_vars(mtime > lastMtime /\ \E l \in Loops : PollStat(l))
  /\ WF_vars(Reacting \/ Replace)

FairSpec == Spec /\ Fairness

-----------------------------------------------------------------------------
(* Every variable stays in its type, and no timer is newer than seq.       *)
TypeOK ==
  /\ mtime \in 1..(MaxChanges + 1) /\ data \in 1..mtime /\ present \in BOOLEAN
  /\ polling \in BOOLEAN /\ comparing \in BOOLEAN
  /\ started \in BOOLEAN /\ ctx \in 0..MaxStarts /\ event \in BOOLEAN
  /\ lastMtime \in 0..mtime /\ lastHash \in 0..data
  /\ seq \in Nat /\ armed \in 0..seq /\ fired \subseteq 1..seq
  /\ loop \in [Loops -> [pc : {"none", "begin", "select", "compare", "trigger"}, ctx : 0..MaxStarts, mtime : 0..mtime]]
  /\ callback \in [Callbacks -> [pc : {"none", "check", "read", "compare", "signal"},
                                 hash : 0..data]]
  /\ token \in BOOLEAN /\ reload \in BOOLEAN /\ seen \in 0..data

(* Nothing that could still produce a token is under way, and a poll would *)
(* find nothing new.                                                       *)
Settled ==
  /\ started /\ present /\ ~event /\ ~token /\ ~reload
  /\ armed = 0 /\ seq \notin fired
  /\ \A k \in Callbacks : callback[k].pc = "none"
  /\ polling => mtime = lastMtime /\ \A l \in Loops : loop[l].pc # "trigger"

(* No change is lost between the file and the consumer: not to debouncing, *)
(* to content comparison, to overlapping callbacks, to an atomic           *)
(* replacement, or to Stop and Start meeting timers and goroutines of the  *)
(* previous life.                                                          *)
NothingLost == Settled => seen = data

(* A change of a watched file reaches the consumer in the end.             *)
EventuallySeen == (started /\ seen # data) ~> (seen = data \/ ~started)

(* What the code means to hold and does not (see the findings).            *)
(* WithContentComparison "makes the watcher fire only when the watched     *)
(* file's CONTENT changes": once settled, the baseline the next touch is   *)
(* compared with is the content of the file.                               *)
BaselineCurrent == Settled /\ comparing => lastHash = data
=============================================================================
