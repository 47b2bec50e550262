---------------------------- MODULE WatcherProofs ----------------------------
(***************************************************************************)
(* No change is lost between the file and the consumer of its watcher, for *)
(* any number of changes, lives, goroutines and callbacks.  NothingLost    *)
(* speaks of a settled watcher only; the invariant behind it names who     *)
(* carries a change the consumer has not seen, at every moment.            *)
(***************************************************************************)
EXTENDS Watcher, TLAPS

USE SlotAssumption, LimitAssumption

\* A file is replaced before the changes are used up; only the last timer runs.
Bounded == ~present => mtime <= MaxChanges
Timed == armed \in {0, seq}

LEMMA TypeInit == Init => TypeOK /\ Bounded /\ Timed
<1> SUFFICES ASSUME Init PROVE TypeOK /\ Bounded /\ Timed
  OBVIOUS
<1>1. /\ polling \in BOOLEAN /\ comparing \in BOOLEAN /\ present \in BOOLEAN
      /\ started \in BOOLEAN /\ event \in BOOLEAN /\ token \in BOOLEAN /\ reload \in BOOLEAN
  BY Zenon DEF Init
<1>2. /\ mtime \in 1..(MaxChanges + 1) /\ data \in 1..mtime /\ ctx \in 0..MaxStarts
      /\ lastMtime \in 0..mtime /\ lastHash \in 0..data /\ seen \in 0..data
      /\ seq \in Nat /\ armed \in 0..seq /\ fired \subseteq 1..seq
  BY DEF Init
<1>3. /\ loop \in [Loops -> [pc : {"none", "begin", "select", "compare", "trigger"},
                             ctx : 0..MaxStarts, mtime : 0..mtime]]
      /\ callback \in [Callbacks -> [pc : {"none", "check", "read", "compare", "signal"},
                                     hash : 0..data]]
  BY DEF Init, NoLoop, NoCall
<1>4. Bounded /\ Timed
  BY DEF Init, Bounded, Timed
<1> QED
  BY <1>1, <1>2, <1>3, <1>4 DEF TypeOK

\* The variables by the kind of value they hold.
Flags == /\ present \in BOOLEAN /\ polling \in BOOLEAN /\ comparing \in BOOLEAN
         /\ started \in BOOLEAN /\ event \in BOOLEAN /\ token \in BOOLEAN /\ reload \in BOOLEAN
Versions == /\ mtime \in 1..(MaxChanges + 1) /\ data \in 1..mtime /\ ctx \in 0..MaxStarts
            /\ lastMtime \in 0..mtime /\ lastHash \in 0..data /\ seen \in 0..data
Timing == seq \in Nat /\ armed \in 0..seq /\ fired \subseteq 1..seq
LoopStates == [pc : {"none", "begin", "select", "compare", "trigger"}, ctx : 0..MaxStarts, mtime : 0..mtime]
CallStates == [pc : {"none", "check", "read", "compare", "signal"}, hash : 0..data]
Slots == loop \in [Loops -> LoopStates] /\ callback \in [Callbacks -> CallStates]

LEMMA TypeParts == TypeOK <=> Flags /\ Versions /\ Timing /\ Slots
BY DEF TypeOK, Flags, Versions, Timing, Slots, LoopStates, CallStates

LEMMA TypePartsNext == TypeOK' <=> Flags' /\ Versions' /\ Timing' /\ Slots'
BY DEF TypeOK, Flags, Versions, Timing, Slots, LoopStates, CallStates

LEMMA LoopTypes ==
  ASSUME Versions, Slots, NEW l \in Loops
  PROVE  /\ NoLoop \in LoopStates /\ InSelect \in LoopStates
         /\ [pc |-> "trigger", ctx |-> 0, mtime |-> 0] \in LoopStates
         /\ [pc |-> "compare", ctx |-> loop[l].ctx, mtime |-> mtime] \in LoopStates
<1>1. 0 \in 0..MaxStarts /\ 0 \in 0..mtime /\ ctx \in 0..MaxStarts /\ mtime \in 0..mtime
  BY DEF Versions
<1>2. loop[l].ctx \in 0..MaxStarts
  BY DEF Slots, LoopStates
<1> QED
  BY <1>1, <1>2 DEF LoopStates, NoLoop, InSelect

LEMMA OneLoop ==
  ASSUME Slots, NEW l \in Loops, NEW r \in LoopStates
  PROVE  [loop EXCEPT ![l] = r] \in [Loops -> LoopStates]
BY DEF Slots

LEMMA TypeNext == TypeOK /\ Bounded /\ Timed /\ [Next]_vars => (TypeOK /\ Bounded /\ Timed)'
<1> SUFFICES ASSUME TypeOK, Bounded, Timed, [Next]_vars PROVE (TypeOK /\ Bounded /\ Timed)'
  OBVIOUS
<1> DEFINE Good == Flags' /\ Versions' /\ Timing' /\ Slots' /\ Bounded' /\ Timed'
<1>0. Flags /\ Versions /\ Timing /\ Slots /\ Bounded /\ Timed
  BY TypeParts
<1> HIDE DEF Good
<1>s. SUFFICES Good
  BY TypePartsNext DEF Good
<1>1. CASE File
  <2>1. CASE Write
    <3>1. Flags'
      BY <1>0, <2>1, Zenon DEF Flags, Write, Reported, fileVars, modeVars, lifeVars, lastVars,
         timerVars, userVars
    <3>2. Versions' /\ Bounded'
      BY <1>0, <2>1 DEF Flags, Versions, Bounded, Write, Reported, fileVars, modeVars,
         lifeVars, lastVars, timerVars, userVars
    <3>3. Timing' /\ Timed'
      BY <1>0, <2>1 DEF Timing, Timed, Write, Reported, fileVars, modeVars, lifeVars,
         lastVars, timerVars, userVars
    <3>4. Slots'
      BY <1>0, <2>1 DEF Versions, Slots, LoopStates, CallStates, NoLoop, NoCall, Write,
         Reported, fileVars, modeVars, lifeVars, lastVars, timerVars, userVars
    <3> QED
      BY <3>1, <3>2, <3>3, <3>4 DEF Good
  <2>2. CASE Touch
    <3>1. Flags'
      BY <1>0, <2>2, Zenon DEF Flags, Touch, Reported, fileVars, modeVars, lifeVars, lastVars,
         timerVars, userVars
    <3>2. Versions' /\ Bounded'
      BY <1>0, <2>2 DEF Flags, Versions, Bounded, Touch, Reported, fileVars, modeVars,
         lifeVars, lastVars, timerVars, userVars
    <3>3. Timing' /\ Timed'
      BY <1>0, <2>2 DEF Timing, Timed, Touch, Reported, fileVars, modeVars, lifeVars,
         lastVars, timerVars, userVars
    <3>4. Slots'
      BY <1>0, <2>2 DEF Versions, Slots, LoopStates, CallStates, NoLoop, NoCall, Touch,
         Reported, fileVars, modeVars, lifeVars, lastVars, timerVars, userVars
    <3> QED
      BY <3>1, <3>2, <3>3, <3>4 DEF Good
  <2>3. CASE Remove
    <3>1. Flags'
      BY <1>0, <2>3, Zenon DEF Flags, Remove, Reported, fileVars, modeVars, lifeVars,
         lastVars, timerVars, userVars
    <3>2. Versions' /\ Bounded'
      BY <1>0, <2>3 DEF Flags, Versions, Bounded, Remove, Reported, fileVars, modeVars,
         lifeVars, lastVars, timerVars, userVars
    <3>3. Timing' /\ Timed'
      BY <1>0, <2>3 DEF Timing, Timed, Remove, Reported, fileVars, modeVars, lifeVars,
         lastVars, timerVars, userVars
    <3>4. Slots'
      BY <1>0, <2>3 DEF Versions, Slots, LoopStates, CallStates, NoLoop, NoCall, Remove,
         Reported, fileVars, modeVars, lifeVars, lastVars, timerVars, userVars
    <3> QED
      BY <3>1, <3>2, <3>3, <3>4 DEF Good
  <2>4. CASE Replace
    <3>1. Flags'
      BY <1>0, <2>4, Zenon DEF Flags, Replace, Reported, fileVars, modeVars, lifeVars,
         lastVars, timerVars, userVars
    <3>2. Versions' /\ Bounded'
      BY <1>0, <2>4 DEF Flags, Versions, Bounded, Replace, Reported, fileVars, modeVars,
         lifeVars, lastVars, timerVars, userVars
    <3>3. Timing' /\ Timed'
      BY <1>0, <2>4 DEF Timing, Timed, Replace, Reported, fileVars, modeVars, lifeVars,
         lastVars, timerVars, userVars
    <3>4. Slots'
      BY <1>0, <2>4 DEF Versions, Slots, LoopStates, CallStates, NoLoop, NoCall, Replace,
         Reported, fileVars, modeVars, lifeVars, lastVars, timerVars, userVars
    <3> QED
      BY <3>1, <3>2, <3>3, <3>4 DEF Good
  <2> QED
    BY <1>1, <2>1, <2>2, <2>3, <2>4 DEF File
<1>2. CASE Stop
  <2>1. Flags'
    BY <1>0, <1>2, Zenon DEF Flags, Stop, Cancel, fileVars, modeVars, lifeVars, lastVars,
       timerVars, userVars
  <2>2. Versions' /\ Bounded'
    BY <1>0, <1>2 DEF Flags, Versions, Bounded, Stop, Cancel, fileVars, modeVars, lifeVars,
       lastVars, timerVars, userVars
  <2>3. Timing' /\ Timed'
    BY <1>0, <1>2 DEF Timing, Timed, Stop, Cancel, fileVars, modeVars, lifeVars, lastVars,
       timerVars, userVars
  <2>4. Slots'
    BY <1>0, <1>2 DEF Versions, Slots, LoopStates, CallStates, NoLoop, NoCall, Stop, Cancel,
       fileVars, modeVars, lifeVars, lastVars, timerVars, userVars
  <2> QED
    BY <2>1, <2>2, <2>3, <2>4 DEF Good
<1>3. ASSUME NEW l \in Loops, Start(l) PROVE Good
  <2>1. Flags'
    BY <1>0, <1>3, Zenon DEF Flags, Start, fileVars, modeVars, lifeVars, lastVars, timerVars, userVars
  <2>2. Versions' /\ Bounded'
    BY <1>0, <1>3 DEF Flags, Versions, Bounded, Start, fileVars, modeVars, lifeVars, lastVars,
       timerVars, userVars
  <2>3. Timing' /\ Timed'
    BY <1>0, <1>3 DEF Timing, Timed, Start, fileVars, modeVars, lifeVars, lastVars, timerVars, userVars
  <2>4. Slots'
    BY <1>0, <1>3 DEF Versions, Slots, LoopStates, CallStates, NoLoop, NoCall, Start, fileVars,
       modeVars, lifeVars, lastVars, timerVars, userVars
  <2> QED
    BY <2>1, <2>2, <2>3, <2>4 DEF Good
<1>4. ASSUME NEW l \in Loops, Looping(l) PROVE Good
  <2>1. CASE LoopBegin(l) \/ LoopExit(l)
    <3>1. Flags'
      BY <1>0, <2>1, Zenon DEF Flags, LoopBegin, LoopExit, InSelect, fileVars, modeVars,
         lifeVars, lastVars, timerVars, userVars
    <3>2. Versions' /\ Bounded'
      BY <1>0, <2>1 DEF Flags, Versions, Bounded, LoopBegin, LoopExit, InSelect, fileVars,
         modeVars, lifeVars, lastVars, timerVars, userVars
    <3>3. Timing' /\ Timed'
      BY <1>0, <2>1 DEF Timing, Timed, LoopBegin, LoopExit, InSelect, fileVars, modeVars,
         lifeVars, lastVars, timerVars, userVars
    <3>4. Slots'
      <4>0. NoLoop \in LoopStates /\ InSelect \in LoopStates
        BY <1>0, LoopTypes
      <4>1. \E r \in LoopStates : loop' = [loop EXCEPT ![l] = r]
        BY <2>1, <4>0 DEF LoopBegin, LoopExit
      <4> QED
        BY <1>0, <2>1, <4>1, OneLoop DEF Slots, LoopStates, CallStates, LoopBegin, LoopExit,
           fileVars, lifeVars
    <3> QED
      BY <3>1, <3>2, <3>3, <3>4 DEF Good
  <2>2. CASE FsEvent(l)
    <3>1. Flags'
      BY <1>0, <2>2, Zenon DEF Flags, FsEvent, Trigger, fileVars, modeVars, lifeVars,
         lastVars, timerVars, userVars
    <3>2. Versions' /\ Bounded'
      BY <1>0, <2>2 DEF Flags, Versions, Bounded, FsEvent, Trigger, fileVars, modeVars,
         lifeVars, lastVars, timerVars, userVars
    <3>3. Timing' /\ Timed'
      BY <1>0, <2>2 DEF Timing, Timed, FsEvent, Trigger, fileVars, modeVars, lifeVars,
         lastVars, timerVars, userVars
    <3>4. Slots'
      BY <1>0, <2>2 DEF Versions, Slots, LoopStates, CallStates, NoLoop, NoCall, FsEvent,
         Trigger, fileVars, modeVars, lifeVars, lastVars, timerVars, userVars
    <3> QED
      BY <3>1, <3>2, <3>3, <3>4 DEF Good
  <2>3. CASE PollStat(l)
    <3>1. Flags'
      BY <1>0, <2>3, Zenon DEF Flags, PollStat, fileVars, modeVars, lifeVars, lastVars,
         timerVars, userVars
    <3>2. Versions' /\ Bounded'
      BY <1>0, <2>3 DEF Flags, Versions, Bounded, PollStat, fileVars, modeVars, lifeVars,
         lastVars, timerVars, userVars
    <3>3. Timing' /\ Timed'
      BY <1>0, <2>3 DEF Timing, Timed, PollStat, fileVars, modeVars, lifeVars, lastVars,
         timerVars, userVars
    <3>4. Slots'
      <4>0. [pc |-> "compare", ctx |-> loop[l].ctx, mtime |-> mtime] \in LoopStates
        BY <1>0, LoopTypes
      <4>1. loop' = [loop EXCEPT ![l] = [pc |-> "compare", ctx |-> loop[l].ctx, mtime |-> mtime]]
        BY <1>0, <2>3 DEF PollStat, Slots, LoopStates
      <4> QED
        BY <1>0, <2>3, <4>0, <4>1, OneLoop DEF Slots, LoopStates, CallStates, PollStat,
           fileVars, lifeVars
    <3> QED
      BY <3>1, <3>2, <3>3, <3>4 DEF Good
  <2>4. CASE PollCompare(l)
    <3>1. Flags'
      BY <1>0, <2>4, Zenon DEF Flags, PollCompare, InSelect, fileVars, modeVars, lifeVars,
         lastVars, timerVars, userVars
    <3>2. Versions' /\ Bounded'
      <4>1. loop[l].mtime \in 0..mtime
        BY <1>0 DEF Slots, LoopStates
      <4> QED
        BY <1>0, <2>4, <4>1 DEF Flags, Versions, Bounded, PollCompare, fileVars, lifeVars, userVars
    <3>3. Timing' /\ Timed'
      BY <1>0, <2>4 DEF Timing, Timed, PollCompare, InSelect, fileVars, modeVars, lifeVars,
         lastVars, timerVars, userVars
    <3>4. Slots'
      <4>0. InSelect \in LoopStates /\ [pc |-> "trigger", ctx |-> 0, mtime |-> 0] \in LoopStates
        BY <1>0, LoopTypes
      <4>1. \E r \in LoopStates : loop' = [loop EXCEPT ![l] = r]
        BY <2>4, <4>0 DEF PollCompare
      <4> QED
        BY <1>0, <2>4, <4>1, OneLoop DEF Slots, LoopStates, CallStates, PollCompare, fileVars, lifeVars
    <3> QED
      BY <3>1, <3>2, <3>3, <3>4 DEF Good
  <2>5. CASE PollTrigger(l)
    <3>1. Flags'
      BY <1>0, <2>5, Zenon DEF Flags, PollTrigger, Trigger, InSelect, fileVars, modeVars,
         lifeVars, lastVars, timerVars, userVars
    <3>2. Versions' /\ Bounded'
      BY <1>0, <2>5 DEF Flags, Versions, Bounded, PollTrigger, Trigger, InSelect, fileVars,
         modeVars, lifeVars, lastVars, timerVars, userVars
    <3>3. Timing' /\ Timed'
      BY <1>0, <2>5 DEF Timing, Timed, PollTrigger, Trigger, InSelect, fileVars, modeVars,
         lifeVars, lastVars, timerVars, userVars
    <3>4. Slots'
      <4>0. InSelect \in LoopStates
        BY <1>0, LoopTypes
      <4>1. loop' = [loop EXCEPT ![l] = InSelect]
        BY <2>5 DEF PollTrigger
      <4> QED
        BY <1>0, <2>5, <4>0, <4>1, OneLoop DEF Slots, LoopStates, CallStates, PollTrigger,
           fileVars, lifeVars
    <3> QED
      BY <3>1, <3>2, <3>3, <3>4 DEF Good
  <2> QED
    BY <1>4, <2>1, <2>2, <2>3, <2>4, <2>5 DEF Looping
<1>5. CASE Timers
  <2>1. CASE TimerFires
    <3>1. Flags'
      BY <1>0, <2>1, Zenon DEF Flags, TimerFires, fileVars, modeVars, lifeVars, lastVars,
         timerVars, userVars
    <3>2. Versions' /\ Bounded'
      BY <1>0, <2>1 DEF Flags, Versions, Bounded, TimerFires, fileVars, modeVars, lifeVars,
         lastVars, timerVars, userVars
    <3>3. Timing' /\ Timed'
      BY <1>0, <2>1 DEF Timing, Timed, TimerFires, fileVars, modeVars, lifeVars, lastVars,
         timerVars, userVars
    <3>4. Slots'
      BY <1>0, <2>1 DEF Versions, Slots, LoopStates, CallStates, NoLoop, NoCall, TimerFires,
         fileVars, modeVars, lifeVars, lastVars, timerVars, userVars
    <3> QED
      BY <3>1, <3>2, <3>3, <3>4 DEF Good
  <2>2. ASSUME NEW t \in fired, NEW k \in Callbacks, TimerRuns(t, k) PROVE Good
    <3>1. Flags'
      BY <1>0, <2>2, Zenon DEF Flags, TimerRuns, fileVars, modeVars, lifeVars, lastVars,
         timerVars, userVars
    <3>2. Versions' /\ Bounded'
      BY <1>0, <2>2 DEF Flags, Versions, Bounded, TimerRuns, fileVars, modeVars, lifeVars,
         lastVars, timerVars, userVars
    <3>3. Timing' /\ Timed'
      BY <1>0, <2>2 DEF Timing, Timed, TimerRuns, fileVars, modeVars, lifeVars, lastVars,
         timerVars, userVars
    <3>4. Slots'
      BY <1>0, <2>2 DEF Versions, Slots, LoopStates, CallStates, NoLoop, NoCall, TimerRuns,
         fileVars, modeVars, lifeVars, lastVars, timerVars, userVars
    <3> QED
      BY <3>1, <3>2, <3>3, <3>4 DEF Good
  <2> QED
    BY <1>5, <2>1, <2>2 DEF Timers
<1>6. ASSUME NEW k \in Callbacks, Calling(k) PROVE Good
  <2>1. CASE CallbackCheck(k)
    <3>1. Flags'
      BY <1>0, <2>1, Zenon DEF Flags, CallbackCheck, Return, Goto, fileVars, modeVars,
         lifeVars, lastVars, timerVars, userVars
    <3>2. Versions' /\ Bounded'
      BY <1>0, <2>1 DEF Flags, Versions, Bounded, CallbackCheck, Return, Goto, fileVars,
         modeVars, lifeVars, lastVars, timerVars, userVars
    <3>3. Timing' /\ Timed'
      BY <1>0, <2>1 DEF Timing, Timed, CallbackCheck, Return, Goto, fileVars, modeVars,
         lifeVars, lastVars, timerVars, userVars
    <3>4. Slots'
      BY <1>0, <2>1 DEF Versions, Slots, LoopStates, CallStates, NoLoop, NoCall,
         CallbackCheck, Return, Goto, fileVars, modeVars, lifeVars, lastVars, timerVars,
         userVars
    <3> QED
      BY <3>1, <3>2, <3>3, <3>4 DEF Good
  <2>2. CASE CallbackRead(k)
    <3>1. Flags'
      BY <1>0, <2>2, Zenon DEF Flags, CallbackRead, Return, fileVars, modeVars, lifeVars,
         lastVars, timerVars, userVars
    <3>2. Versions' /\ Bounded'
      BY <1>0, <2>2 DEF Flags, Versions, Bounded, CallbackRead, Return, fileVars, modeVars,
         lifeVars, lastVars, timerVars, userVars
    <3>3. Timing' /\ Timed'
      BY <1>0, <2>2 DEF Timing, Timed, CallbackRead, Return, fileVars, modeVars, lifeVars,
         lastVars, timerVars, userVars
    <3>4. Slots'
      BY <1>0, <2>2 DEF Versions, Slots, LoopStates, CallStates, NoLoop, NoCall, CallbackRead,
         Return, fileVars, modeVars, lifeVars, lastVars, timerVars, userVars
    <3> QED
      BY <3>1, <3>2, <3>3, <3>4 DEF Good
  <2>3. CASE CallbackCompare(k)
    <3>1. Flags'
      BY <1>0, <2>3, Zenon DEF Flags, CallbackCompare, Return, Goto, fileVars, modeVars,
         lifeVars, lastVars, timerVars, userVars
    <3>2. Versions' /\ Bounded'
      <4>1. callback[k].hash \in 0..data
        BY <1>0 DEF Slots, CallStates
      <4> QED
        BY <1>0, <2>3, <4>1 DEF Flags, Versions, Bounded, CallbackCompare, fileVars, lifeVars, userVars
    <3>3. Timing' /\ Timed'
      BY <1>0, <2>3 DEF Timing, Timed, CallbackCompare, Return, Goto, fileVars, modeVars,
         lifeVars, lastVars, timerVars, userVars
    <3>4. Slots'
      BY <1>0, <2>3 DEF Versions, Slots, LoopStates, CallStates, NoLoop, NoCall,
         CallbackCompare, Return, Goto, fileVars, modeVars, lifeVars, lastVars, timerVars,
         userVars
    <3> QED
      BY <3>1, <3>2, <3>3, <3>4 DEF Good
  <2>4. CASE CallbackSignal(k)
    <3>1. Flags'
      BY <1>0, <2>4, Zenon DEF Flags, CallbackSignal, Return, fileVars, modeVars, lifeVars,
         lastVars, timerVars, userVars
    <3>2. Versions' /\ Bounded'
      BY <1>0, <2>4 DEF Flags, Versions, Bounded, CallbackSignal, Return, fileVars, modeVars,
         lifeVars, lastVars, timerVars, userVars
    <3>3. Timing' /\ Timed'
      BY <1>0, <2>4 DEF Timing, Timed, CallbackSignal, Return, fileVars, modeVars, lifeVars,
         lastVars, timerVars, userVars
    <3>4. Slots'
      BY <1>0, <2>4 DEF Versions, Slots, LoopStates, CallStates, NoLoop, NoCall,
         CallbackSignal, Return, fileVars, modeVars, lifeVars, lastVars, timerVars, userVars
    <3> QED
      BY <3>1, <3>2, <3>3, <3>4 DEF Good
  <2> QED
    BY <1>6, <2>1, <2>2, <2>3, <2>4 DEF Calling
<1>7. CASE TakeToken \/ Reload
  <2>1. Flags'
    BY <1>0, <1>7, Zenon DEF Flags, TakeToken, Reload, Load, fileVars, modeVars, lifeVars,
       lastVars, timerVars, userVars
  <2>2. Versions' /\ Bounded'
    BY <1>0, <1>7 DEF Flags, Versions, Bounded, TakeToken, Reload, Load, fileVars, modeVars,
       lifeVars, lastVars, timerVars, userVars
  <2>3. Timing' /\ Timed'
    BY <1>0, <1>7 DEF Timing, Timed, TakeToken, Reload, Load, fileVars, modeVars, lifeVars,
       lastVars, timerVars, userVars
  <2>4. Slots'
    BY <1>0, <1>7 DEF Versions, Slots, LoopStates, CallStates, NoLoop, NoCall, TakeToken,
       Reload, Load, fileVars, modeVars, lifeVars, lastVars, timerVars, userVars
  <2> QED
    BY <2>1, <2>2, <2>3, <2>4 DEF Good
<1>8. CASE UNCHANGED vars
  <2>1. Flags'
    BY <1>0, <1>8, Zenon DEF Flags, vars, fileVars, modeVars, lifeVars, lastVars, timerVars, userVars
  <2>2. Versions' /\ Bounded'
    BY <1>0, <1>8 DEF Flags, Versions, Bounded, vars, fileVars, modeVars, lifeVars, lastVars,
       timerVars, userVars
  <2>3. Timing' /\ Timed'
    BY <1>0, <1>8 DEF Timing, Timed, vars, fileVars, modeVars, lifeVars, lastVars, timerVars, userVars
  <2>4. Slots'
    BY <1>0, <1>8 DEF Versions, Slots, LoopStates, CallStates, NoLoop, NoCall, vars, fileVars,
       modeVars, lifeVars, lastVars, timerVars, userVars
  <2> QED
    BY <2>1, <2>2, <2>3, <2>4 DEF Good
<1> QED
  BY <1>1, <1>2, <1>3, <1>4, <1>5, <1>6, <1>7, <1>8 DEF Next

-----------------------------------------------------------------------------
(* A version whose hash is the baseline has been loaded, or its token is   *)
(* certain to come; and a version the consumer has not loaded is on its    *)
(* way, as an event, a timer, a callback or the next poll.                 *)
Reading == \A k \in Callbacks : callback[k].pc \in {"read", "compare"} => comparing
Signalled == token \/ reload \/ \E k \in Callbacks : callback[k].pc = "signal"
BaselineShown == present /\ comparing /\ lastHash = data => seen = data \/ Signalled
Carrying(k) == \/ callback[k].pc \in {"check", "read", "signal"}
               \/ callback[k].pc = "compare" /\ callback[k].hash = data
Polled == polling /\ (mtime # lastMtime \/ \E l \in Loops : loop[l].pc = "trigger")
Coming == \/ token \/ reload \/ event \/ armed # 0 \/ seq \in fired
          \/ \E k \in Callbacks : Carrying(k)
          \/ Polled
Carried == started /\ present /\ seen # data => Coming

IInv == TypeOK /\ Bounded /\ Timed /\ Reading /\ BaselineShown /\ Carried

LEMMA ReadingNext ==
  ASSUME TypeOK, Reading, [Next]_vars
  PROVE  Reading'
<1>1. CASE File
  <2>1. CASE Write
    BY <2>1 DEF TypeOK, Reading, Write, Reported, fileVars, modeVars, lifeVars, lastVars,
       timerVars, userVars
  <2>2. CASE Touch
    BY <2>2 DEF TypeOK, Reading, Touch, Reported, fileVars, modeVars, lifeVars, lastVars,
       timerVars, userVars
  <2>3. CASE Remove
    BY <2>3 DEF TypeOK, Reading, Remove, Reported, fileVars, modeVars, lifeVars, lastVars,
       timerVars, userVars
  <2>4. CASE Replace
    BY <2>4 DEF TypeOK, Reading, Replace, Reported, fileVars, modeVars, lifeVars, lastVars,
       timerVars, userVars
  <2> QED
    BY <1>1, <2>1, <2>2, <2>3, <2>4 DEF File
<1>2. CASE Stop
  BY <1>2 DEF TypeOK, Reading, Stop, Cancel, fileVars, modeVars, lifeVars, lastVars, timerVars, userVars
<1>3. ASSUME NEW l \in Loops, Start(l) PROVE Reading'
  BY <1>3 DEF TypeOK, Reading, Start, fileVars, modeVars, lifeVars, lastVars, timerVars, userVars
<1>4. ASSUME NEW l \in Loops, Looping(l) PROVE Reading'
  <2>1. CASE LoopBegin(l)
    BY <2>1 DEF TypeOK, Reading, LoopBegin, InSelect, fileVars, modeVars, lifeVars, lastVars,
       timerVars, userVars
  <2>2. CASE LoopExit(l)
    BY <2>2 DEF TypeOK, Reading, LoopExit, NoLoop, fileVars, modeVars, lifeVars, lastVars,
       timerVars, userVars
  <2>3. CASE FsEvent(l)
    BY <2>3 DEF TypeOK, Reading, FsEvent, Trigger, fileVars, modeVars, lifeVars, lastVars,
       timerVars, userVars
  <2>4. CASE PollStat(l)
    BY <2>4 DEF TypeOK, Reading, PollStat, fileVars, modeVars, lifeVars, lastVars, timerVars, userVars
  <2>5. CASE PollCompare(l)
    BY <2>5 DEF TypeOK, Reading, PollCompare, InSelect, fileVars, modeVars, lifeVars, lastVars,
       timerVars, userVars
  <2>6. CASE PollTrigger(l)
    BY <2>6 DEF TypeOK, Reading, PollTrigger, Trigger, InSelect, fileVars, modeVars, lifeVars,
       lastVars, timerVars, userVars
  <2> QED
    BY <1>4, <2>1, <2>2, <2>3, <2>4, <2>5, <2>6 DEF Looping
<1>5. CASE Timers
  <2>1. CASE TimerFires
    BY <2>1 DEF TypeOK, Reading, TimerFires, fileVars, modeVars, lifeVars, lastVars, timerVars, userVars
  <2>2. ASSUME NEW t \in fired, NEW k \in Callbacks, TimerRuns(t, k) PROVE Reading'
    BY <2>2 DEF TypeOK, Reading, TimerRuns, fileVars, modeVars, lifeVars, lastVars, timerVars, userVars
  <2> QED
    BY <1>5, <2>1, <2>2 DEF Timers
<1>6. ASSUME NEW k \in Callbacks, Calling(k) PROVE Reading'
  <2>1. CASE CallbackCheck(k)
    BY <2>1 DEF TypeOK, Reading, CallbackCheck, Return, Goto, NoCall, fileVars, modeVars,
       lifeVars, lastVars, timerVars, userVars
  <2>2. CASE CallbackRead(k)
    BY <2>2 DEF TypeOK, Reading, CallbackRead, Return, NoCall, fileVars, modeVars, lifeVars,
       lastVars, timerVars, userVars
  <2>3. CASE CallbackCompare(k)
    BY <2>3 DEF TypeOK, Reading, CallbackCompare, Return, Goto, NoCall, fileVars, modeVars,
       lifeVars, lastVars, timerVars, userVars
  <2>4. CASE CallbackSignal(k)
    BY <2>4 DEF TypeOK, Reading, CallbackSignal, Return, NoCall, fileVars, modeVars, lifeVars,
       lastVars, timerVars, userVars
  <2> QED
    BY <1>6, <2>1, <2>2, <2>3, <2>4 DEF Calling
<1>7. CASE TakeToken \/ Reload
  <2>1. CASE TakeToken
    BY <2>1 DEF TypeOK, Reading, TakeToken, Load, fileVars, modeVars, lifeVars, lastVars,
       timerVars, userVars
  <2>2. CASE Reload
    BY <2>2 DEF TypeOK, Reading, Reload, Load, fileVars, modeVars, lifeVars, lastVars,
       timerVars, userVars
  <2> QED
    BY <1>7, <2>1, <2>2
<1>8. CASE UNCHANGED vars
  BY <1>8 DEF TypeOK, Reading, vars, fileVars, modeVars, lifeVars, lastVars, timerVars, userVars
<1> QED
  BY <1>1, <1>2, <1>3, <1>4, <1>5, <1>6, <1>7, <1>8 DEF Next

LEMMA BaselineShownNext ==
  ASSUME TypeOK, BaselineShown, [Next]_vars
  PROVE  BaselineShown'
<1>1. CASE File
  <2>1. CASE Write
    BY <2>1 DEF TypeOK, BaselineShown, Signalled, Write, Reported, fileVars, modeVars, lifeVars,
       lastVars, timerVars, userVars
  <2>2. CASE Touch
    BY <2>2 DEF TypeOK, BaselineShown, Signalled, Touch, Reported, fileVars, modeVars, lifeVars,
       lastVars, timerVars, userVars
  <2>3. CASE Remove
    BY <2>3 DEF TypeOK, BaselineShown, Signalled, Remove, Reported, fileVars, modeVars,
       lifeVars, lastVars, timerVars, userVars
  <2>4. CASE Replace
    BY <2>4 DEF TypeOK, BaselineShown, Signalled, Replace, Reported, fileVars, modeVars,
       lifeVars, lastVars, timerVars, userVars
  <2> QED
    BY <1>1, <2>1, <2>2, <2>3, <2>4 DEF File
<1>2. CASE Stop
  BY <1>2 DEF TypeOK, BaselineShown, Signalled, Stop, Cancel, fileVars, modeVars, lifeVars,
     lastVars, timerVars, userVars
<1>3. ASSUME NEW l \in Loops, Start(l) PROVE BaselineShown'
  BY <1>3 DEF TypeOK, BaselineShown, Signalled, Start, fileVars, modeVars, lifeVars, lastVars,
     timerVars, userVars
<1>4. ASSUME NEW l \in Loops, Looping(l) PROVE BaselineShown'
  <2>1. CASE LoopBegin(l)
    BY <2>1 DEF TypeOK, BaselineShown, Signalled, LoopBegin, InSelect, fileVars, modeVars,
       lifeVars, lastVars, timerVars, userVars
  <2>2. CASE LoopExit(l)
    BY <2>2 DEF TypeOK, BaselineShown, Signalled, LoopExit, NoLoop, fileVars, modeVars,
       lifeVars, lastVars, timerVars, userVars
  <2>3. CASE FsEvent(l)
    BY <2>3 DEF TypeOK, BaselineShown, Signalled, FsEvent, Trigger, fileVars, modeVars,
       lifeVars, lastVars, timerVars, userVars
  <2>4. CASE PollStat(l)
    BY <2>4 DEF TypeOK, BaselineShown, Signalled, PollStat, fileVars, modeVars, lifeVars,
       lastVars, timerVars, userVars
  <2>5. CASE PollCompare(l)
    BY <2>5 DEF TypeOK, BaselineShown, Signalled, PollCompare, InSelect, fileVars, modeVars,
       lifeVars, lastVars, timerVars, userVars
  <2>6. CASE PollTrigger(l)
    BY <2>6 DEF TypeOK, BaselineShown, Signalled, PollTrigger, Trigger, InSelect, fileVars,
       modeVars, lifeVars, lastVars, timerVars, userVars
  <2> QED
    BY <1>4, <2>1, <2>2, <2>3, <2>4, <2>5, <2>6 DEF Looping
<1>5. CASE Timers
  <2>1. CASE TimerFires
    BY <2>1 DEF TypeOK, BaselineShown, Signalled, TimerFires, fileVars, modeVars, lifeVars,
       lastVars, timerVars, userVars
  <2>2. ASSUME NEW t \in fired, NEW k \in Callbacks, TimerRuns(t, k) PROVE BaselineShown'
    <3>1. \A j \in Callbacks : callback[j].pc = "signal" => callback'[j].pc = "signal"
      BY <2>2 DEF TypeOK, TimerRuns, NoCall
    <3> QED
      BY <2>2, <3>1 DEF BaselineShown, Signalled, TimerRuns, fileVars, modeVars, lastVars, userVars
  <2> QED
    BY <1>5, <2>1, <2>2 DEF Timers
<1>6. ASSUME NEW k \in Callbacks, Calling(k) PROVE BaselineShown'
  <2>1. CASE CallbackCheck(k)
    BY <2>1 DEF TypeOK, BaselineShown, Signalled, CallbackCheck, Return, Goto, NoCall, fileVars,
       modeVars, lifeVars, lastVars, timerVars, userVars
  <2>2. CASE CallbackRead(k)
    BY <2>2 DEF TypeOK, BaselineShown, Signalled, CallbackRead, Return, NoCall, fileVars,
       modeVars, lifeVars, lastVars, timerVars, userVars
  <2>3. CASE CallbackCompare(k)
    BY <2>3 DEF TypeOK, BaselineShown, Signalled, CallbackCompare, Return, Goto, NoCall,
       fileVars, modeVars, lifeVars, lastVars, timerVars, userVars
  <2>4. CASE CallbackSignal(k)
    BY <2>4 DEF TypeOK, BaselineShown, Signalled, CallbackSignal, Return, NoCall, fileVars,
       modeVars, lifeVars, lastVars, timerVars, userVars
  <2> QED
    BY <1>6, <2>1, <2>2, <2>3, <2>4 DEF Calling
<1>7. CASE TakeToken \/ Reload
  <2>1. CASE TakeToken
    BY <2>1 DEF TypeOK, BaselineShown, Signalled, TakeToken, Load, fileVars, modeVars, lifeVars,
       lastVars, timerVars, userVars
  <2>2. CASE Reload
    BY <2>2 DEF TypeOK, BaselineShown, Signalled, Reload, Load, fileVars, modeVars, lifeVars,
       lastVars, timerVars, userVars
  <2> QED
    BY <1>7, <2>1, <2>2
<1>8. CASE UNCHANGED vars
  BY <1>8 DEF TypeOK, BaselineShown, Signalled, vars, fileVars, modeVars, lifeVars, lastVars,
     timerVars, userVars
<1> QED
  BY <1>1, <1>2, <1>3, <1>4, <1>5, <1>6, <1>7, <1>8 DEF Next

LEMMA CarriedNext ==
  ASSUME TypeOK, Timed, Reading, BaselineShown, Carried, [Next]_vars
  PROVE  Carried'
<1>1. CASE File
  <2>1. CASE Write
    <3>1. mtime' = mtime + 1 /\ lastMtime' = lastMtime /\ lastMtime \in 0..mtime /\ mtime \in Nat
      BY <2>1 DEF TypeOK, Write, lastVars
    <3>2. CASE polling
      <4>1. Polled'
        BY <2>1, <3>1, <3>2 DEF Polled, Write, modeVars
      <4> QED
        BY <4>1, Zenon DEF Carried, Coming
    <3>3. CASE ~polling
      BY <2>1, <3>3, Zenon DEF Carried, Coming, Write, Reported, lifeVars
    <3> QED
      BY <3>2, <3>3
  <2>2. CASE Touch
    BY <2>2 DEF TypeOK, Carried, Coming, Carrying, Polled, Touch, Reported, fileVars, modeVars,
       lifeVars, lastVars, timerVars, userVars
  <2>3. CASE Remove
    BY <2>3 DEF TypeOK, Carried, Coming, Carrying, Polled, Remove, Reported, fileVars, modeVars,
       lifeVars, lastVars, timerVars, userVars
  <2>4. CASE Replace
    <3>1. mtime' = mtime + 1 /\ lastMtime' = lastMtime /\ lastMtime \in 0..mtime /\ mtime \in Nat
      BY <2>4 DEF TypeOK, Replace, lastVars
    <3>2. CASE polling
      <4>1. Polled'
        BY <2>4, <3>1, <3>2 DEF Polled, Replace, modeVars
      <4> QED
        BY <4>1, Zenon DEF Carried, Coming
    <3>3. CASE ~polling
      BY <2>4, <3>3, Zenon DEF Carried, Coming, Replace, Reported, lifeVars
    <3> QED
      BY <3>2, <3>3
  <2> QED
    BY <1>1, <2>1, <2>2, <2>3, <2>4 DEF File
<1>2. CASE Stop
  BY <1>2 DEF TypeOK, Carried, Coming, Carrying, Polled, Stop, Cancel, fileVars, modeVars,
     lifeVars, lastVars, timerVars, userVars
<1>3. ASSUME NEW l \in Loops, Start(l) PROVE Carried'
  BY <1>3 DEF TypeOK, Carried, Coming, Carrying, Polled, Start, fileVars, modeVars, lifeVars,
     lastVars, timerVars, userVars
<1>4. ASSUME NEW l \in Loops, Looping(l) PROVE Carried'
  <2>1. CASE LoopBegin(l)
    BY <2>1 DEF TypeOK, Carried, Coming, Carrying, Polled, LoopBegin, InSelect, fileVars,
       modeVars, lifeVars, lastVars, timerVars, userVars
  <2>2. CASE LoopExit(l)
    BY <2>2 DEF TypeOK, Carried, Coming, Carrying, Polled, LoopExit, NoLoop, fileVars, modeVars,
       lifeVars, lastVars, timerVars, userVars
  <2>3. CASE FsEvent(l)
    BY <2>3 DEF TypeOK, Carried, Coming, Carrying, Polled, FsEvent, Trigger, fileVars, modeVars,
       lifeVars, lastVars, timerVars, userVars
  <2>4. CASE PollStat(l)
    BY <2>4 DEF TypeOK, Carried, Coming, Carrying, Polled, PollStat, fileVars, modeVars,
       lifeVars, lastVars, timerVars, userVars
  <2>5. CASE PollCompare(l)
    BY <2>5 DEF TypeOK, Carried, Coming, Carrying, Polled, PollCompare, InSelect, fileVars,
       modeVars, lifeVars, lastVars, timerVars, userVars
  <2>6. CASE PollTrigger(l)
    BY <2>6 DEF TypeOK, Carried, Coming, Carrying, Polled, PollTrigger, Trigger, InSelect,
       fileVars, modeVars, lifeVars, lastVars, timerVars, userVars
  <2> QED
    BY <1>4, <2>1, <2>2, <2>3, <2>4, <2>5, <2>6 DEF Looping
<1>5. CASE Timers
  <2>1. CASE TimerFires
    <3>1. seq' \in fired'
      BY <2>1 DEF Timed, TimerFires
    <3> QED
      BY <3>1, Zenon DEF Carried, Coming
  <2>2. ASSUME NEW t \in fired, NEW k \in Callbacks, TimerRuns(t, k) PROVE Carried'
    BY <2>2 DEF TypeOK, Carried, Coming, Carrying, Polled, TimerRuns, fileVars, modeVars,
       lifeVars, lastVars, timerVars, userVars
  <2> QED
    BY <1>5, <2>1, <2>2 DEF Timers
<1>6. ASSUME NEW k \in Callbacks, Calling(k) PROVE Carried'
  <2>1. CASE CallbackCheck(k)
    BY <2>1 DEF TypeOK, Carried, Coming, Carrying, Polled, CallbackCheck, Return, Goto, NoCall,
       fileVars, modeVars, lifeVars, lastVars, timerVars, userVars
  <2>2. CASE CallbackRead(k)
    BY <2>2 DEF TypeOK, Carried, Coming, Carrying, Polled, CallbackRead, Return, NoCall,
       fileVars, modeVars, lifeVars, lastVars, timerVars, userVars
  <2>3. CASE CallbackCompare(k)
    <3> USE DEF CallbackCompare
    <3>1. CASE callback[k].hash # lastHash
      <4>1. Carrying(k)'
        BY <2>3, <3>1 DEF TypeOK, Goto, Carrying
      <4> QED
        BY <4>1 DEF Carried, Coming
    <3>2. CASE callback[k].hash = lastHash /\ lastHash = data
      <4>1. comparing
        BY <2>3 DEF Reading
      <4>2. started' /\ present' /\ seen' # data' => Signalled
        BY <2>3, <3>2, <4>1 DEF BaselineShown, fileVars, userVars
      <4>3. \A j \in Callbacks : callback[j].pc = "signal" => callback'[j].pc = "signal"
        BY <2>3, <3>2 DEF TypeOK, Return
      <4> QED
        BY <2>3, <4>2, <4>3 DEF Carried, Coming, Carrying, Signalled, userVars
    <3>3. CASE callback[k].hash = lastHash /\ lastHash # data
      <4>1. \A j \in Callbacks : Carrying(j) => Carrying(j)'
        BY <2>3, <3>3 DEF TypeOK, Return, Carrying, fileVars
      <4> QED
        BY <2>3, <3>3, <4>1 DEF Carried, Coming, Polled, fileVars, modeVars, lifeVars,
           timerVars, userVars
    <3> QED
      BY <3>1, <3>2, <3>3
  <2>4. CASE CallbackSignal(k)
    BY <2>4 DEF TypeOK, Carried, Coming, Carrying, Polled, CallbackSignal, Return, NoCall,
       fileVars, modeVars, lifeVars, lastVars, timerVars, userVars
  <2> QED
    BY <1>6, <2>1, <2>2, <2>3, <2>4 DEF Calling
<1>7. CASE TakeToken \/ Reload
  <2>1. CASE TakeToken
    BY <2>1 DEF TypeOK, Carried, Coming, Carrying, Polled, TakeToken, Load, fileVars, modeVars,
       lifeVars, lastVars, timerVars, userVars
  <2>2. CASE Reload
    BY <2>2 DEF TypeOK, Carried, Coming, Carrying, Polled, Reload, Load, fileVars, modeVars,
       lifeVars, lastVars, timerVars, userVars
  <2> QED
    BY <1>7, <2>1, <2>2
<1>8. CASE UNCHANGED vars
  BY <1>8 DEF TypeOK, Carried, Coming, Carrying, Polled, vars, fileVars, modeVars, lifeVars,
     lastVars, timerVars, userVars
<1> QED
  BY <1>1, <1>2, <1>3, <1>4, <1>5, <1>6, <1>7, <1>8 DEF Next

LEMMA Inductive == (Init => IInv) /\ (IInv /\ [Next]_vars => IInv')
<1>1. Init => IInv
  BY TypeInit DEF Init, NoCall, IInv, Reading, BaselineShown, Carried
<1>2. IInv /\ [Next]_vars => IInv'
  BY TypeNext, ReadingNext, BaselineShownNext, CarriedNext DEF IInv
<1> QED
  BY <1>1, <1>2

(* Every variable stays in its type: no hash, time or timer is newer than  *)
(* the file and the debouncer.                                             *)
THEOREM TypeCorrect == Spec => [](TypeOK /\ Bounded /\ Timed)
<1>1. TypeOK /\ Bounded /\ Timed /\ [Next]_vars => (TypeOK /\ Bounded /\ Timed)'
  BY TypeNext
<1> QED
  BY <1>1, TypeInit, PTL DEF Spec

(* No change is lost between the file and the consumer, whatever the       *)
(* number of changes and lives, and however events, timers, callbacks and  *)
(* goroutines of earlier lives overlap: once nothing is under way, the     *)
(* consumer has loaded the version the file has.                           *)
THEOREM NoChangeLost == Spec => []NothingLost
<1>1. IInv => NothingLost
  BY DEF IInv, TypeOK, Carried, Coming, Carrying, Polled, NothingLost, Settled
<1>2. (Init => IInv) /\ (IInv /\ [Next]_vars => IInv')
  BY Inductive
<1> QED
  BY <1>1, <1>2, PTL DEF Spec
=============================================================================
