-------------------------- MODULE BackgroundWorker --------------------------
(***************************************************************************)
(* The snapshot worker of pkg/ui/background_worker.go, for a source that   *)
(* has a file watcher.  It owns one mutex-protected record (state, dirty,  *)
(* generation, lastHash, forceNext, recipe, snapshot, ...); process()      *)
(* goroutines load the source and publish snapshots, a process loop turns  *)
(* watcher tokens into refreshes, a watchdog recovers a worker it believes *)
(* stuck, and Start and Stop may run beside all of them.                   *)
(*                                                                         *)
(* One action is one critical section of w.mu together with the calls that *)
(* follow it up to the next one.  Contents are versions 1, 2, ...: loading *)
(* yields the current version and the content hash of a version is the     *)
(* version itself, 0 standing for the empty hash.  Time is not modelled: a *)
(* watchdog tick may find its deadline passed at any moment.               *)
(***************************************************************************)
EXTENDS Naturals, Sequences, FiniteSets

CONSTANTS
  Proc,           \* slots for process() goroutines past their first lock
  Recipes,        \* the recipes the user switches between
  DefaultRecipe,  \* currentRecipe of a new worker
  ChanCap,        \* capacity of msgCh (8 in the code)
  Kinds,          \* the messages an instance follows; no message acts on the worker
  MaxRecoveries,  \* maxRecoveries of the code
  MaxContent,     \* bound: versions the source goes through
  MaxStimuli,     \* bound: user requests (refresh, recipe)
  MaxFaults       \* bound: failing loads, analyses and watcher starts

ASSUME ProcAssumption == Proc \subseteq Nat /\ IsFiniteSet(Proc)
ASSUME RecipeAssumption == DefaultRecipe \in Recipes
ASSUME KindAssumption == Kinds \subseteq
  {"started", "ready", "error", "phase2", "lost", "restored", "verified"}
ASSUME BoundAssumption ==
  /\ ChanCap \in Nat \ {0}
  /\ MaxRecoveries \in Nat \ {0}
  /\ MaxContent \in Nat \ {0}
  /\ MaxStimuli \in Nat
  /\ MaxFaults \in Nat

VARIABLES
  content,        \* version of the source now
  state, dirty, generation, lastHash, forceNext, recipe,
  snapshot,       \* w.snapshot
  failed,         \* w.lastError # nil
  builds,         \* snapshots built so far: gives each one its identity
  spawned,        \* process() goroutines that have not taken the lock yet
  proc,           \* process() goroutines inside buildSnapshot or after it
  phase2,         \* runPhase2Analysis goroutines
  started, recovering, ctxDone,
  loop,           \* the process loops, by number
  loopCancel,     \* loop whose cancel function w.loopCancel holds, 0 for nil
  watcherOn,      \* watcher.started
  pendingEvt,     \* the watcher's debouncer is armed
  changeCh,       \* a token is in watcher.changeCh
  msgCh,
  startPc, stopPc, recPc,
  recLoop,        \* the loop attemptRecovery captured
  stimuli, faults

dataVars    == <<content, generation, recipe, snapshot, failed>>
requestVars == <<state, dirty, spawned>>
hashVars    == <<lastHash, forceNext>>
buildVars   == <<proc, builds, phase2>>
loopVars    == <<loop, loopCancel>>
watcherVars == <<watcherOn, pendingEvt, changeCh>>
startVars   == <<started, startPc>>
stopVars    == <<stopPc, ctxDone>>
recVars     == <<recovering, recPc, recLoop>>
lifeVars    == <<startVars, stopVars, recVars>>
boundVars   == <<stimuli, faults>>
vars == <<dataVars, requestVars, hashVars, buildVars, loopVars, watcherVars,
          msgCh, lifeVars, boundVars>>

-----------------------------------------------------------------------------
Versions == 0..MaxContent
Loops    == 1..(MaxRecoveries + 1)

\* A DataSnapshot: its identity (the pointer), DataHash and recipe fields.
Snapshot == [id : Nat, data : Versions, recipe : Recipes]
NoSnapshot == [id |-> 0, data |-> 0, recipe |-> DefaultRecipe]

\* A runPhase2Analysis goroutine: "run" until the analysis of snap has its Phase 2 metrics.
Phase2Record == [snap : Snapshot, pc : {"run", "check", "send"}]

Message == [kind : Kinds, snap : Snapshot]
Msg(k, s) == [kind |-> k, snap |-> s]

\* What a process() goroutine holds in its locals, each forgotten after its last use.
ProcAt(pc, gen, snap) == [pc |-> pc, gen |-> gen, recipe |-> DefaultRecipe, hash |-> 0,
                          prev |-> 0, snap |-> snap, rerun |-> FALSE]
IdleProc == ProcAt("free", 0, NoSnapshot)
ProcRecord == [pc : {"free", "load", "dedup", "build", "commit", "notify"},
               gen : Nat, recipe : Recipes, hash : Versions, prev : Nat,
               snap : Snapshot, rerun : BOOLEAN]

Building == {"load", "dedup", "build", "commit"}
Builder(p) == proc[p].pc \in Building
\* No recovery superseded the process() goroutine p.
Current(p) == proc[p].gen = generation

-----------------------------------------------------------------------------
(* send(): a full channel loses its oldest message; once the context is    *)
(* cancelled the select may take the Done branch instead.                  *)
Push(q, m) == IF Len(q) < ChanCap THEN Append(q, m) ELSE Append(Tail(q), m)

Send(m) == \/ /\ m.kind \in Kinds
              /\ ctxDone => Len(msgCh) < ChanCap
              /\ msgCh' = Push(msgCh, m)
           \/ /\ ctxDone \/ m.kind \notin Kinds
              /\ UNCHANGED msgCh

\* Variant for the runs' self-test: a request during processing is taken as served.
RequestProcessServed ==
  /\ IF state = "idle" THEN spawned' = spawned + 1 ELSE UNCHANGED spawned
  /\ UNCHANGED <<state, dirty>>

(* The tail shared by TriggerRefresh and ForceRefresh.                     *)
RequestProcess ==
  \/ state = "stopped" /\ UNCHANGED requestVars
  \/ state = "processing" /\ dirty' = TRUE /\ UNCHANGED <<state, spawned>>
  \/ state = "idle" /\ spawned' = spawned + 1 /\ UNCHANGED <<state, dirty>>

TriggerRefresh == RequestProcess /\ UNCHANGED hashVars

ForceRefresh ==
  /\ IF state = "stopped" THEN UNCHANGED hashVars
                          ELSE lastHash' = 0 /\ forceNext' = TRUE
  /\ RequestProcess

\* Start starts loop 1, the recovery that made generation g starts loop g + 1.
NextLoop == generation + 1

\* Variant: the cancel function is left for the new goroutine to publish.
startLoopUnpublished ==
  /\ loop' = IF state = "stopped" THEN loop ELSE [loop EXCEPT ![NextLoop] = "live"]
  /\ UNCHANGED loopCancel

startLoop ==
  IF state = "stopped"
  THEN UNCHANGED loopVars
  ELSE /\ loop' = [loop EXCEPT ![NextLoop] = "live"]
       /\ loopCancel' = NextLoop

-----------------------------------------------------------------------------
Init ==
  /\ content = 1
  /\ state = "idle" /\ dirty = FALSE /\ generation = 0
  /\ lastHash = 0 /\ forceNext = FALSE /\ recipe = DefaultRecipe
  /\ snapshot = NoSnapshot /\ failed = FALSE /\ builds = 0
  /\ spawned = 0 /\ proc = [p \in Proc |-> IdleProc] /\ phase2 = {}
  /\ started = FALSE /\ recovering = FALSE /\ ctxDone = FALSE
  /\ loop = [l \in Loops |-> "none"] /\ loopCancel = 0
  /\ watcherOn = FALSE /\ pendingEvt = FALSE /\ changeCh = FALSE
  /\ msgCh = <<>>
  /\ startPc = "none" /\ stopPc = "none" /\ recPc = "none" /\ recLoop = 0
  /\ stimuli = MaxStimuli /\ faults = MaxFaults

-----------------------------------------------------------------------------
(* The source and its watcher, seen from the worker.                       *)
FileChange ==
  /\ content < MaxContent
  /\ content' = content + 1
  /\ pendingEvt' = watcherOn
  /\ UNCHANGED <<generation, recipe, snapshot, failed, requestVars, hashVars, buildVars,
                 loopVars, watcherOn, changeCh, msgCh, lifeVars, boundVars>>

WatcherNotify ==
  /\ watcherOn /\ pendingEvt
  /\ pendingEvt' = FALSE
  /\ changeCh' = TRUE
  /\ UNCHANGED <<dataVars, requestVars, hashVars, buildVars, loopVars, watcherOn, msgCh,
                 lifeVars, boundVars>>

-----------------------------------------------------------------------------
(* StartBackgroundWorkerCmd: Start(), then TriggerRefresh().               *)
StartLock ==
  /\ startPc = "none" /\ state # "stopped"
  /\ started' = TRUE
  /\ startPc' = "watcher"
  /\ UNCHANGED <<dataVars, requestVars, hashVars, buildVars, loopVars, watcherVars, msgCh,
                 stopVars, recVars, boundVars>>

StartWatcher ==
  /\ startPc = "watcher"
  /\ \/ watcherOn' = TRUE /\ startPc' = "loop" /\ UNCHANGED <<started, faults>>
     \/ /\ faults > 0 /\ faults' = faults - 1
        /\ started' = FALSE /\ startPc' = "failed" /\ UNCHANGED watcherOn
  /\ UNCHANGED <<dataVars, requestVars, hashVars, buildVars, loopVars, pendingEvt, changeCh,
                 msgCh, stopVars, recVars, stimuli>>

StartLoop ==
  /\ startPc = "loop"
  /\ startLoop
  /\ startPc' = "trigger"
  /\ UNCHANGED <<dataVars, requestVars, hashVars, buildVars, watcherVars, msgCh, started,
                 stopVars, recVars, boundVars>>

StartTrigger ==
  /\ startPc = "trigger"
  /\ TriggerRefresh
  /\ startPc' = "done"
  /\ UNCHANGED <<dataVars, buildVars, loopVars, watcherVars, msgCh, started, stopVars,
                 recVars, boundVars>>

-----------------------------------------------------------------------------
(* Stop().  The first critical section decides; a second call returns.     *)
StopLock ==
  /\ state' = "stopped"
  /\ loopCancel' = 0
  /\ stopPc' = "cancel"

Stop ==
  /\ state # "stopped"
  /\ StopLock
  /\ UNCHANGED <<dataVars, dirty, spawned, hashVars, buildVars, loop, watcherVars, msgCh,
                 startVars, ctxDone, recVars, boundVars>>

\* Cancelling w.ctx cancels every loop context derived from it.
StopCancel ==
  /\ stopPc = "cancel"
  /\ ctxDone' = TRUE
  /\ watcherOn' = FALSE /\ pendingEvt' = FALSE
  /\ stopPc' = "done"
  /\ UNCHANGED <<dataVars, requestVars, hashVars, buildVars, loopVars, changeCh, msgCh,
                 startVars, recVars, boundVars>>

-----------------------------------------------------------------------------
(* processLoop: a watcher token becomes a refresh; a cancelled context ends *)
(* the loop, though the select may still take a waiting token first.       *)
LoopToken(l) ==
  /\ loop[l] \in {"live", "cancelled"}
  /\ changeCh
  /\ changeCh' = FALSE
  /\ TriggerRefresh
  /\ UNCHANGED <<dataVars, buildVars, loopVars, watcherOn, pendingEvt, msgCh, lifeVars,
                 boundVars>>

\* Variant: the loop's context is not derived from the worker's.
LoopExitOwnContext(l) ==
  /\ loop[l] = "cancelled"
  /\ loop' = [loop EXCEPT ![l] = "exited"]
  /\ UNCHANGED <<dataVars, requestVars, hashVars, buildVars, loopCancel, watcherVars, msgCh,
                 lifeVars, boundVars>>

LoopExit(l) ==
  /\ loop[l] = "cancelled" \/ (loop[l] = "live" /\ ctxDone)
  /\ loop' = [loop EXCEPT ![l] = "exited"]
  /\ UNCHANGED <<dataVars, requestVars, hashVars, buildVars, loopCancel, watcherVars, msgCh,
                 lifeVars, boundVars>>

-----------------------------------------------------------------------------
(* The watchdog: checkHealth finds a deadline passed and attemptRecovery's  *)
(* first critical section supersedes whatever is being processed.          *)
RecoverWith(busy, gen) ==
  /\ startPc \in {"trigger", "done"} /\ ~ctxDone
  /\ started /\ state # "stopped" /\ ~busy
  /\ recovering' = TRUE
  /\ generation' = gen
  /\ state' = "idle" /\ dirty' = FALSE
  /\ recLoop' = loopCancel /\ loopCancel' = 0
  /\ recPc' = IF gen > MaxRecoveries THEN "giveUp" ELSE "cancel"
  /\ UNCHANGED <<content, recipe, snapshot, failed, spawned, hashVars, buildVars, loop,
                 watcherVars, msgCh, startVars, stopVars, boundVars>>

\* Variants: recoveries overlap; a recovery does not supersede the running process().
RecoverOverlapping == RecoverWith(FALSE, generation + 1)
RecoverSameGeneration == RecoverWith(recovering, generation)

Recover == RecoverWith(recovering, generation + 1)

\* The end of attemptRecovery on its two failing paths: an error, then Stop().
RecoverFails ==
  /\ Send(Msg("error", NoSnapshot))
  /\ IF state = "stopped" THEN UNCHANGED <<state, loopCancel, stopPc>> ELSE StopLock
  /\ recPc' = "none" /\ recovering' = FALSE

RecoverGiveUp ==
  /\ recPc = "giveUp"
  /\ RecoverFails
  /\ UNCHANGED <<dataVars, dirty, spawned, hashVars, buildVars, loop, watcherVars,
                 startVars, ctxDone, recLoop, boundVars>>

\* The wait for the loop's done channel may time out, so it delays nothing here.
RecoverCancelLoop ==
  /\ recPc = "cancel"
  /\ loop' = [l \in Loops |-> IF l = recLoop /\ loop[l] = "live" THEN "cancelled" ELSE loop[l]]
  /\ recPc' = "watcher" /\ recLoop' = 0
  /\ UNCHANGED <<dataVars, requestVars, hashVars, buildVars, loopCancel, watcherVars, msgCh,
                 startVars, stopVars, recovering, boundVars>>

\* watcher.Stop() cancels the debouncer, watcher.Start() watches afresh.
RecoverWatcher ==
  /\ recPc = "watcher"
  /\ pendingEvt' = FALSE
  /\ \/ /\ watcherOn' = TRUE
        /\ recPc' = "restart"
        /\ UNCHANGED <<state, loopCancel, stopPc, recovering, msgCh, faults>>
     \/ /\ faults > 0 /\ faults' = faults - 1
        /\ watcherOn' = FALSE
        /\ RecoverFails
  /\ UNCHANGED <<dataVars, dirty, spawned, hashVars, buildVars, loop, changeCh, startVars,
                 ctxDone, recLoop, stimuli>>

RecoverRestart ==
  /\ recPc = "restart"
  /\ startLoop
  /\ recPc' = "refresh"
  /\ UNCHANGED <<dataVars, requestVars, hashVars, buildVars, watcherVars, msgCh, startVars,
                 stopVars, recovering, recLoop, boundVars>>

\* ForceRefresh, then the deferred end of the recovery.
RecoverRefresh ==
  /\ recPc = "refresh"
  /\ ForceRefresh
  /\ recPc' = "none" /\ recovering' = FALSE
  /\ UNCHANGED <<dataVars, buildVars, loopVars, watcherVars, msgCh, startVars, stopVars,
                 recLoop, boundVars>>

-----------------------------------------------------------------------------
(* Requests of the user interface.                                         *)
UserRefresh ==
  /\ stimuli > 0 /\ stimuli' = stimuli - 1
  /\ ForceRefresh
  /\ UNCHANGED <<dataVars, buildVars, loopVars, watcherVars, msgCh, lifeVars, faults>>

\* SetRecipe(r): an unchanged recipe is no request.
SetRecipe(r) ==
  /\ stimuli > 0 /\ stimuli' = stimuli - 1
  /\ state # "stopped" /\ r # recipe
  /\ recipe' = r
  /\ ForceRefresh
  /\ UNCHANGED <<content, generation, snapshot, failed, buildVars, loopVars, watcherVars,
                 msgCh, lifeVars, faults>>

-----------------------------------------------------------------------------
(* process().                                                              *)
Free(p) == proc[p].pc = "free" /\ \A q \in Proc : proc[q].pc = "free" => p <= q

\* The first critical section, when the worker is not idle.
ProcessJoin ==
  /\ spawned > 0 /\ spawned' = spawned - 1
  /\ state # "idle"
  /\ dirty' = (dirty \/ state = "processing")
  /\ UNCHANGED <<dataVars, state, hashVars, buildVars, loopVars, watcherVars, msgCh,
                 lifeVars, boundVars>>

\* The first critical section, when it is.
ProcessBegin(p) ==
  /\ Free(p)
  /\ spawned > 0 /\ spawned' = spawned - 1
  /\ state = "idle"
  /\ state' = "processing" /\ dirty' = FALSE
  /\ proc' = [proc EXCEPT ![p] = ProcAt("load", generation, NoSnapshot)]
  /\ UNCHANGED <<dataVars, hashVars, builds, phase2, loopVars, watcherVars, msgCh,
                 lifeVars, boundVars>>

\* RefreshStartedMsg, then buildSnapshot captures the recipe and loads the source.
BuildLoad(p) ==
  /\ proc[p].pc = "load"
  /\ Send(Msg("started", NoSnapshot))
  /\ proc' = [proc EXCEPT ![p].pc = "dedup", ![p].recipe = recipe, ![p].hash = content]
  /\ UNCHANGED <<dataVars, requestVars, hashVars, builds, phase2, loopVars, watcherVars,
                 lifeVars, boundVars>>

\* Variant: a failing build remembers what it has read.
BuildFailRemembering(p) ==
  /\ proc[p].pc \in {"dedup", "build"}
  /\ faults > 0 /\ faults' = faults - 1
  /\ failed' = TRUE
  /\ lastHash' = proc[p].hash
  /\ Send(Msg("error", NoSnapshot))
  /\ proc' = [proc EXCEPT ![p] = ProcAt("commit", @.gen, NoSnapshot)]
  /\ UNCHANGED <<content, generation, recipe, snapshot, requestVars, forceNext, builds,
                 phase2, loopVars, watcherVars, lifeVars, stimuli>>

\* A failing load or analysis: recordError, SnapshotErrorMsg, no snapshot.
BuildFail(p) ==
  /\ proc[p].pc \in {"dedup", "build"}
  /\ faults > 0 /\ faults' = faults - 1
  /\ failed' = TRUE
  /\ Send(Msg("error", NoSnapshot))
  /\ proc' = [proc EXCEPT ![p] = ProcAt("commit", @.gen, NoSnapshot)]
  /\ UNCHANGED <<content, generation, recipe, snapshot, requestVars, hashVars, builds,
                 phase2, loopVars, watcherVars, lifeVars, stimuli>>

\* Variant: lastHash is written with the comparison, before the snapshot is built.
BuildDedupEager(p) ==
  /\ proc[p].pc = "dedup"
  /\ forceNext' = FALSE
  /\ lastHash' = proc[p].hash
  /\ IF ~forceNext /\ lastHash # 0 /\ proc[p].hash = lastHash
     THEN failed' = FALSE /\ proc' = [proc EXCEPT ![p].pc = "commit"]
     ELSE proc' = [proc EXCEPT ![p].pc = "build", ![p].prev = snapshot.id] /\ UNCHANGED failed
  /\ UNCHANGED <<content, generation, recipe, snapshot, requestVars, builds, phase2,
                 loopVars, watcherVars, msgCh, lifeVars, boundVars>>

\* The dedup critical section: it consumes forceNext; an unchanged hash ends the build.
BuildDedup(p) ==
  /\ proc[p].pc = "dedup"
  /\ forceNext' = FALSE
  /\ lastHash' = IF forceNext THEN 0 ELSE lastHash
  /\ IF ~forceNext /\ lastHash # 0 /\ proc[p].hash = lastHash
     THEN /\ failed' = FALSE
          /\ proc' = [proc EXCEPT ![p] = ProcAt("commit", @.gen, NoSnapshot)]
     ELSE /\ proc' = [proc EXCEPT ![p].pc = "build", ![p].prev = snapshot.id]
          /\ UNCHANGED failed
  /\ UNCHANGED <<content, generation, recipe, snapshot, requestVars, builds, phase2,
                 loopVars, watcherVars, msgCh, lifeVars, boundVars>>

\* The snapshot is built: lastHash remembers it and its Phase 2 watcher is spawned.
BuildSeal(p) ==
  /\ proc[p].pc = "build"
  /\ failed' = FALSE
  /\ lastHash' = proc[p].hash
  /\ builds' = builds + 1
  /\ LET new == [id |-> builds + 1, data |-> proc[p].hash, recipe |-> proc[p].recipe]
     IN  /\ proc' = [proc EXCEPT ![p] = ProcAt("commit", @.gen, new)]
         /\ phase2' = IF "phase2" \in Kinds
                      THEN phase2 \cup {[snap |-> new, pc |-> "run"]} ELSE phase2
  /\ UNCHANGED <<content, generation, recipe, snapshot, requestVars, forceNext, loopVars,
                 watcherVars, msgCh, lifeVars, boundVars>>

\* The last critical section drops a result that a recovery or Stop overtook.
ProcessDiscard(p) ==
  /\ proc[p].pc = "commit"
  /\ ~Current(p) \/ state = "stopped"
  /\ proc' = [proc EXCEPT ![p] = IdleProc]
  /\ UNCHANGED <<dataVars, requestVars, hashVars, builds, phase2, loopVars, watcherVars,
                 msgCh, lifeVars, boundVars>>

CommitIf(p, allowed) ==
  /\ proc[p].pc = "commit"
  /\ allowed
  /\ snapshot' = IF proc[p].snap.id # 0 THEN proc[p].snap ELSE snapshot
  /\ state' = "idle"
  /\ proc' = [proc EXCEPT ![p].pc = "notify", ![p].gen = 0, ![p].rerun = dirty]
  /\ UNCHANGED <<content, generation, recipe, failed, dirty, spawned, hashVars, builds,
                 phase2, loopVars, watcherVars, msgCh, lifeVars, boundVars>>

\* Variant: the generation is not compared.
ProcessCommitSuperseded(p) == CommitIf(p, state # "stopped")

ProcessCommit(p) == CommitIf(p, Current(p) /\ state # "stopped")

\* Variant: the dirty flag is cleared without another process().
ProcessNotifyOnce(p) ==
  /\ proc[p].pc = "notify"
  /\ IF proc[p].snap.id # 0 THEN Send(Msg("ready", proc[p].snap)) ELSE UNCHANGED msgCh
  /\ proc' = [proc EXCEPT ![p] = IdleProc]
  /\ UNCHANGED <<dataVars, requestVars, hashVars, builds, phase2, loopVars, watcherVars,
                 lifeVars, boundVars>>

\* Outside the lock: SnapshotReadyMsg, and another process() if it was dirty.
ProcessNotify(p) ==
  /\ proc[p].pc = "notify"
  /\ IF proc[p].snap.id # 0 THEN Send(Msg("ready", proc[p].snap)) ELSE UNCHANGED msgCh
  /\ spawned' = IF proc[p].rerun THEN spawned + 1 ELSE spawned
  /\ proc' = [proc EXCEPT ![p] = IdleProc]
  /\ UNCHANGED <<dataVars, state, dirty, hashVars, builds, phase2, loopVars, watcherVars,
                 lifeVars, boundVars>>

-----------------------------------------------------------------------------
(* runPhase2Analysis waits for the metrics, looks whether their snapshot is *)
(* the one being shown and, after the lock, says so.                       *)
Phase2Done(b) ==
  /\ b.pc = "run"
  /\ phase2' = (phase2 \ {b}) \cup {[b EXCEPT !.pc = "check"]}
  /\ UNCHANGED <<dataVars, requestVars, hashVars, proc, builds, loopVars, watcherVars, msgCh,
                 lifeVars, boundVars>>

Phase2Check(b) ==
  /\ b.pc = "check"
  /\ phase2' = IF state # "stopped" /\ snapshot.id = b.snap.id
               THEN (phase2 \ {b}) \cup {[b EXCEPT !.pc = "send"]}
               ELSE phase2 \ {b}
  /\ UNCHANGED <<dataVars, requestVars, hashVars, proc, builds, loopVars, watcherVars, msgCh,
                 lifeVars, boundVars>>

Phase2Notify(b) ==
  /\ b.pc = "send"
  /\ phase2' = phase2 \ {b}
  /\ Send(Msg("phase2", b.snap))
  /\ UNCHANGED <<dataVars, requestVars, hashVars, proc, builds, loopVars, watcherVars,
                 lifeVars, boundVars>>

-----------------------------------------------------------------------------
Process(p) == \/ ProcessBegin(p) \/ BuildLoad(p) \/ BuildFail(p) \/ BuildDedup(p)
              \/ BuildSeal(p) \/ ProcessDiscard(p) \/ ProcessCommit(p) \/ ProcessNotify(p)
Phase2   == \E b \in phase2 : Phase2Done(b) \/ Phase2Check(b) \/ Phase2Notify(b)
Source   == FileChange \/ WatcherNotify
Starting == StartLock \/ StartWatcher \/ StartLoop \/ StartTrigger
Stopping == Stop \/ StopCancel
Looping  == \E l \in Loops : LoopToken(l) \/ LoopExit(l)
Recovery == \/ Recover \/ RecoverGiveUp \/ RecoverCancelLoop \/ RecoverWatcher
            \/ RecoverRestart \/ RecoverRefresh
Request  == UserRefresh \/ \E r \in Recipes : SetRecipe(r)

Next == \/ Source \/ Starting \/ Stopping \/ Looping \/ Recovery \/ Request
        \/ ProcessJoin \/ (\E p \in Proc : Process(p)) \/ Phase2

Spec == Init /\ [][Next]_vars

\* Steps of goroutines and timers that are under way.  Left out are the steps nothing
\* obliges to happen: a change, a request, a start, a stop, a missed deadline.
Internal == \/ WatcherNotify
            \/ StartWatcher \/ StartLoop \/ StartTrigger \/ StopCancel
            \/ Looping
            \/ RecoverGiveUp \/ RecoverCancelLoop \/ RecoverWatcher \/ RecoverRestart
            \/ RecoverRefresh
            \/ ProcessJoin \/ (\E p \in Proc : Process(p)) \/ Phase2

\* The scheduler never stops running goroutines altogether.  This is weaker than
\* fairness to each of them, and enough here because each has finitely much to do.
FairSpec == Spec /\ WF_vars(Internal)

-----------------------------------------------------------------------------
DataTypes ==
  /\ content \in 1..MaxContent /\ generation \in 0..(MaxRecoveries + 1)
  /\ recipe \in Recipes /\ snapshot \in Snapshot /\ lastHash \in Versions
  /\ builds \in Nat /\ phase2 \subseteq Phase2Record /\ proc \in [Proc -> ProcRecord]

RequestTypes ==
  /\ state \in {"idle", "processing", "stopped"} /\ spawned \in Nat
  /\ stimuli \in 0..MaxStimuli /\ faults \in 0..MaxFaults

LifeTypes ==
  /\ startPc \in {"none", "watcher", "loop", "trigger", "done", "failed"}
  /\ stopPc \in {"none", "cancel", "done"}
  /\ recPc \in {"none", "giveUp", "cancel", "watcher", "restart", "refresh"}
  /\ loop \in [Loops -> {"none", "live", "cancelled", "exited"}]
  /\ loopCancel \in Loops \cup {0} /\ recLoop \in Loops \cup {0}

FlagTypes ==
  /\ dirty \in BOOLEAN /\ forceNext \in BOOLEAN /\ failed \in BOOLEAN
  /\ started \in BOOLEAN /\ recovering \in BOOLEAN /\ ctxDone \in BOOLEAN
  /\ watcherOn \in BOOLEAN /\ pendingEvt \in BOOLEAN /\ changeCh \in BOOLEAN

ChannelTypes == msgCh \in Seq(Message) /\ Len(msgCh) <= ChanCap

(* Every variable stays in its type: recoveries stop at their limit, loop  *)
(* numbers never run out and the channel never exceeds its capacity.       *)
TypeOK == DataTypes /\ RequestTypes /\ LifeTypes /\ FlagTypes /\ ChannelTypes

(* At most one process() that no recovery has superseded is between its    *)
(* two critical sections, and while the worker runs there is one exactly   *)
(* when its state says so: a superseded process() never counts, however    *)
(* long it goes on, and a new one never joins a running one.               *)
SingleBuilder ==
  /\ \A p, q \in Proc : Builder(p) /\ Current(p) /\ Builder(q) /\ Current(q) => p = q
  /\ state = "idle" => \A p \in Proc : ~(Builder(p) /\ Current(p))
  /\ state = "processing" => \E p \in Proc : Builder(p) /\ Current(p)

(* Nothing that could still change the snapshot is under way.              *)
Quiet ==
  /\ state = "idle" /\ startPc = "done" /\ ~recovering
  /\ spawned = 0 /\ ~pendingEvt /\ ~changeCh
  /\ \A p \in Proc : ~Builder(p) /\ (proc[p].pc = "notify" => ~proc[p].rerun)

(* No lost wake-up: a worker that has not recovered and has nothing left to *)
(* do shows the newest version, whatever changes, refreshes and recipes    *)
(* arrived while process() ran, unless its last build failed.              *)
FreshWhenQuiet == Quiet /\ generation = 0 /\ ~failed => snapshot.data = content

(* The dedup hash never runs ahead of what is shown: a worker that has not *)
(* recovered and has no result waiting for its last critical section never *)
(* remembers the hash of a version it does not show.                       *)
HashIsShown ==
  (/\ generation = 0 /\ state # "stopped" /\ lastHash # 0
   /\ \A p \in Proc : proc[p].pc # "commit") => lastHash = snapshot.data

(* Every live process loop can still be cancelled: w.loopCancel or the     *)
(* recovery in progress holds its cancel function, or Stop has been called *)
(* and cancels its parent context.                                         *)
LoopOwned ==
  \A l \in Loops : loop[l] = "live" =>
     l = loopCancel \/ state = "stopped" \/ (recPc = "cancel" /\ l = recLoop)
                   \/ (recPc = "giveUp" /\ l = recLoop)

(* The worker implements the promise of LatestValue: published versions    *)
(* never regress although superseded builds finish late, and no result is  *)
(* published once Stop has been called.                                    *)
Promise == INSTANCE LatestValue
             WITH current <- content, shown <- snapshot.data, open <- (state # "stopped")
KeepsPromise == Promise!Spec

(* A change is not forgotten: it is shown in the end, unless the worker    *)
(* fails to load it, was never started, recovers or is stopped.            *)
EventuallyFresh ==
  (startPc = "done" /\ snapshot.data # content) ~>
     (snapshot.data = content \/ failed \/ generation > 0 \/ state = "stopped")

(* Stop ends everything the worker runs: process loops exit, every         *)
(* process() goroutine, the superseded ones included, finishes, and so     *)
(* does every wait for Phase 2.                                            *)
StopSettles ==
  state = "stopped" ~>
     /\ spawned = 0 /\ \A p \in Proc : proc[p].pc = "free"
     /\ phase2 = {}
     /\ \A l \in Loops : loop[l] \in {"none", "exited"}

(* What the code means to hold and does not (see the findings).            *)
(* "If we recovered while processing, ignore this stale result": after a   *)
(* recovery has settled the worker shows the newest version.               *)
FreshAfterRecovery == Quiet /\ watcherOn /\ ~failed => snapshot.data = content

(* SetRecipe "updates the worker's current recipe and triggers a refresh": *)
(* a settled worker shows a snapshot built with its current recipe.        *)
RecipeWhenQuiet == Quiet /\ generation = 0 /\ ~failed => snapshot.recipe = recipe

(* Stop "cleans up resources": when it and every goroutine that restarts   *)
(* the watcher are through, the watcher is off.                            *)
WatcherOffAfterStop ==
  (stopPc = "done" /\ recPc = "none" /\ startPc \in {"none", "done", "failed"}) => ~watcherOn
=============================================================================
