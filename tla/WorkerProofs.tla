----------------------------- MODULE WorkerProofs -----------------------------
(***************************************************************************)
(* What holds of the background worker, for every number of goroutines,    *)
(* recoveries, messages, versions and failures: first by itself, then with *)
(* its user interface and the poll loop.                                   *)
(***************************************************************************)
EXTENDS WorkerUI, TLAPS

USE ProcAssumption, RecipeAssumption, KindAssumption, BoundAssumption

LEMMA PushType ==
  ASSUME NEW q \in Seq(Message), Len(q) <= ChanCap, NEW m \in Message
  PROVE  Push(q, m) \in Seq(Message) /\ Len(Push(q, m)) <= ChanCap
<1>1. CASE Len(q) < ChanCap
  BY <1>1 DEF Push
<1>2. CASE ~(Len(q) < ChanCap)
  <2>1. q # <<>>
    BY <1>2 
  <2>2. Tail(q) \in Seq(Message) /\ Len(Tail(q)) = Len(q) - 1
    BY <2>1
  <2> QED
    BY <1>2, <2>2 DEF Push
<1> QED
  BY <1>1, <1>2

LEMMA SendType ==
  ASSUME msgCh \in Seq(Message), Len(msgCh) <= ChanCap, NEW k, NEW s \in Snapshot,
         Send(Msg(k, s))
  PROVE  msgCh' \in Seq(Message) /\ Len(msgCh') <= ChanCap
<1>1. CASE k \in Kinds /\ msgCh' = Push(msgCh, Msg(k, s))
  <2>1. Msg(k, s) \in Message
    BY <1>1 DEF Msg, Message
  <2> QED
    BY <1>1, <2>1, PushType
<1>2. CASE UNCHANGED msgCh
  BY <1>2
<1> QED
  BY <1>1, <1>2 DEF Send, Msg

-----------------------------------------------------------------------------
(* Recoveries are counted, one at a time, and none begins before Start is  *)
(* through.                                                                *)
Control ==
  /\ startPc \in {"none", "watcher", "loop", "failed"} => generation = 0
  /\ recPc \in {"cancel", "watcher", "restart", "refresh"} => generation <= MaxRecoveries
  /\ recPc # "none" => recovering
  /\ generation > MaxRecoveries => recovering \/ state = "stopped"

LEMMA TypeInit == Init => TypeOK
<1> SUFFICES ASSUME Init PROVE TypeOK
  OBVIOUS
<1>1. NoSnapshot \in Snapshot
  BY DEF NoSnapshot, Snapshot, Versions
<1>2. IdleProc \in ProcRecord
  BY <1>1 DEF IdleProc, ProcAt, ProcRecord, Versions
<1>3. DataTypes
  BY <1>1, <1>2 DEF Init, DataTypes, Versions
<1>4. RequestTypes
  BY DEF Init, RequestTypes
<1>5. LifeTypes
  BY DEF Init, LifeTypes
<1>6. FlagTypes
  BY Zenon DEF Init, FlagTypes
<1>7. ChannelTypes
  BY DEF Init, ChannelTypes
<1> QED
  BY <1>3, <1>4, <1>5, <1>6, <1>7 DEF TypeOK

LEMMA ControlInit == Init => Control
BY DEF Init, Control

LEMMA ControlNext == TypeOK /\ Control /\ [Next]_vars => Control'
<1> SUFFICES ASSUME TypeOK, Control, [Next]_vars PROVE Control'
  OBVIOUS
<1> USE DEF TypeOK, DataTypes, RequestTypes, LifeTypes, Control, dataVars, requestVars, startVars, stopVars, recVars, lifeVars
<1>1. CASE Source
  BY <1>1 DEF Source, FileChange, WatcherNotify
<1>2. CASE Starting
  BY <1>2 DEF Starting, StartLock, StartWatcher, StartLoop, StartTrigger, TriggerRefresh, RequestProcess
<1>3. CASE Stopping
  BY <1>3 DEF Stopping, Stop, StopLock, StopCancel
<1>4. CASE Looping
  BY <1>4 DEF Looping, LoopToken, LoopExit, TriggerRefresh, RequestProcess
<1>5. CASE Recovery
  BY <1>5 DEF Recovery, Recover, RecoverWith, RecoverGiveUp, RecoverFails, StopLock,
     RecoverCancelLoop, RecoverWatcher, RecoverRestart, RecoverRefresh, ForceRefresh,
     RequestProcess
<1>6. CASE Request
  BY <1>6 DEF Request, UserRefresh, SetRecipe, ForceRefresh, RequestProcess
<1>7. CASE ProcessJoin
  BY <1>7 DEF ProcessJoin
<1>8. ASSUME NEW p \in Proc, Process(p) PROVE Control'
  BY <1>8 DEF Process, ProcessBegin, BuildLoad, BuildFail, BuildDedup, BuildSeal,
     ProcessDiscard, ProcessCommit, CommitIf, ProcessNotify
<1>9. CASE Phase2
  BY <1>9 DEF Phase2, Phase2Done, Phase2Check, Phase2Notify
<1>10. CASE UNCHANGED vars
  BY <1>10 DEF vars
<1> QED
  BY <1>1, <1>2, <1>3, <1>4, <1>5, <1>6, <1>7, <1>8, <1>9, <1>10 DEF Next

LEMMA LifeNext == TypeOK /\ Control /\ [Next]_vars => LifeTypes'
<1> SUFFICES ASSUME TypeOK, Control, [Next]_vars PROVE LifeTypes'
  OBVIOUS
<1> USE DEF TypeOK, DataTypes, LifeTypes, Control, dataVars, loopVars, startVars, stopVars,
        recVars, lifeVars
<1>1. CASE Source
  BY <1>1 DEF Source, FileChange, WatcherNotify
<1>2. CASE Starting
  BY <1>2 DEF Starting, StartLock, StartWatcher, StartLoop, startLoop, NextLoop, StartTrigger, Loops
<1>3. CASE Stopping
  BY <1>3 DEF Stopping, Stop, StopLock, StopCancel
<1>4. CASE Looping
  BY <1>4 DEF Looping, LoopToken, LoopExit
<1>5. CASE Recovery
  <2>1. CASE Recover
    BY <2>1 DEF Recover, RecoverWith
  <2>2. CASE RecoverGiveUp
    BY <2>2 DEF RecoverGiveUp, RecoverFails, StopLock
  <2>3. CASE RecoverCancelLoop
    BY <2>3 DEF RecoverCancelLoop
  <2>4. CASE RecoverWatcher
    BY <2>4 DEF RecoverWatcher, RecoverFails, StopLock
  <2>5. CASE RecoverRestart
    BY <2>5 DEF RecoverRestart, startLoop, NextLoop, Loops
  <2>6. CASE RecoverRefresh
    BY <2>6 DEF RecoverRefresh
  <2> QED
    BY <1>5, <2>1, <2>2, <2>3, <2>4, <2>5, <2>6 DEF Recovery
<1>6. CASE Request
  BY <1>6 DEF Request, UserRefresh, SetRecipe
<1>7. CASE ProcessJoin
  BY <1>7 DEF ProcessJoin
<1>8. ASSUME NEW p \in Proc, Process(p) PROVE LifeTypes'
  BY <1>8 DEF Process, ProcessBegin, BuildLoad, BuildFail, BuildDedup, BuildSeal,
     ProcessDiscard, ProcessCommit, CommitIf, ProcessNotify
<1>9. CASE Phase2
  BY <1>9 DEF Phase2, Phase2Done, Phase2Check, Phase2Notify
<1>10. CASE UNCHANGED vars
  BY <1>10 DEF vars
<1> QED
  BY <1>1, <1>2, <1>3, <1>4, <1>5, <1>6, <1>7, <1>8, <1>9, <1>10 DEF Next

LEMMA RequestNext == TypeOK /\ [Next]_vars => RequestTypes'
<1> SUFFICES ASSUME TypeOK, [Next]_vars PROVE RequestTypes'
  OBVIOUS
<1> USE DEF TypeOK, RequestTypes, requestVars, watcherVars, boundVars, RequestProcess
<1>1. CASE Source
  BY <1>1 DEF Source, FileChange, WatcherNotify
<1>2. CASE Starting
  BY <1>2 DEF Starting, StartLock, StartWatcher, StartLoop, StartTrigger, TriggerRefresh
<1>3. CASE Stopping
  BY <1>3 DEF Stopping, Stop, StopLock, StopCancel
<1>4. CASE Looping
  BY <1>4 DEF Looping, LoopToken, LoopExit, TriggerRefresh
<1>5. CASE Recovery
  BY <1>5 DEF Recovery, Recover, RecoverWith, RecoverGiveUp, RecoverFails, StopLock,
     RecoverCancelLoop, RecoverWatcher, RecoverRestart, RecoverRefresh, ForceRefresh
<1>6. CASE Request
  BY <1>6 DEF Request, UserRefresh, SetRecipe, ForceRefresh
<1>7. CASE ProcessJoin
  BY <1>7 DEF ProcessJoin
<1>8. ASSUME NEW p \in Proc, Process(p) PROVE RequestTypes'
  BY <1>8 DEF Process, ProcessBegin, BuildLoad, BuildFail, BuildDedup, BuildSeal,
     ProcessDiscard, ProcessCommit, CommitIf, ProcessNotify
<1>9. CASE Phase2
  BY <1>9 DEF Phase2, Phase2Done, Phase2Check, Phase2Notify
<1>10. CASE UNCHANGED vars
  BY <1>10 DEF vars
<1> QED
  BY <1>1, <1>2, <1>3, <1>4, <1>5, <1>6, <1>7, <1>8, <1>9, <1>10 DEF Next

LEMMA FlagNext == TypeOK /\ [Next]_vars => FlagTypes'
<1> SUFFICES ASSUME FlagTypes, [Next]_vars PROVE FlagTypes'
  BY DEF TypeOK
<1> USE DEF FlagTypes, dataVars, requestVars, hashVars, watcherVars, startVars, stopVars,
        recVars, lifeVars
<1>1. CASE Source
  BY <1>1, ZenonT(40) DEF Source, FileChange, WatcherNotify
<1>2. CASE Starting
  BY <1>2, ZenonT(40) DEF Starting, StartLock, StartWatcher, StartLoop, StartTrigger,
     TriggerRefresh, RequestProcess
<1>3. CASE Stopping
  BY <1>3, ZenonT(40) DEF Stopping, Stop, StopCancel
<1>4. CASE Looping
  BY <1>4, ZenonT(40) DEF Looping, LoopToken, LoopExit, TriggerRefresh, RequestProcess
<1>5. CASE Recovery
  <2>1. CASE Recover
    BY <2>1, ZenonT(40) DEF Recover, RecoverWith
  <2>2. CASE RecoverGiveUp
    BY <2>2, ZenonT(40) DEF RecoverGiveUp, RecoverFails
  <2>3. CASE RecoverCancelLoop
    BY <2>3, ZenonT(40) DEF RecoverCancelLoop
  <2>4. CASE RecoverWatcher
    BY <2>4, ZenonT(40) DEF RecoverWatcher, RecoverFails
  <2>5. CASE RecoverRestart
    BY <2>5, ZenonT(40) DEF RecoverRestart
  <2>6. CASE RecoverRefresh
    BY <2>6, ZenonT(40) DEF RecoverRefresh, ForceRefresh, RequestProcess
  <2> QED
    BY <1>5, <2>1, <2>2, <2>3, <2>4, <2>5, <2>6 DEF Recovery
<1>6. CASE Request
  BY <1>6, ZenonT(40) DEF Request, UserRefresh, SetRecipe, ForceRefresh, RequestProcess
<1>7. CASE ProcessJoin
  BY <1>7, ZenonT(40) DEF ProcessJoin
<1>8. ASSUME NEW p \in Proc, Process(p) PROVE FlagTypes'
  <2>1. CASE ProcessBegin(p)
    BY <2>1, ZenonT(40) DEF ProcessBegin
  <2>2. CASE BuildLoad(p)
    BY <2>2, ZenonT(40) DEF BuildLoad
  <2>3. CASE BuildFail(p) \/ BuildDedup(p) \/ BuildSeal(p)
    BY <2>3, ZenonT(40) DEF BuildFail, BuildDedup, BuildSeal
  <2>4. CASE ProcessDiscard(p) \/ ProcessCommit(p) \/ ProcessNotify(p)
    BY <2>4, ZenonT(40) DEF ProcessDiscard, ProcessCommit, CommitIf, ProcessNotify
  <2> QED
    BY <1>8, <2>1, <2>2, <2>3, <2>4 DEF Process
<1>9. CASE Phase2
  BY <1>9, ZenonT(40) DEF Phase2, Phase2Done, Phase2Check, Phase2Notify
<1>10. CASE UNCHANGED vars
  BY <1>10, ZenonT(40) DEF vars
<1> QED
  BY <1>1, <1>2, <1>3, <1>4, <1>5, <1>6, <1>7, <1>8, <1>9, <1>10 DEF Next

LEMMA NoSnapshotType == NoSnapshot \in Snapshot /\ IdleProc \in ProcRecord
<1>1. NoSnapshot \in Snapshot
  BY DEF NoSnapshot, Snapshot, Versions
<1> QED
  BY <1>1 DEF IdleProc, ProcAt, ProcRecord, Versions

LEMMA ProcAtType ==
  ASSUME NEW gen \in Nat, NEW snap \in Snapshot
  PROVE  ProcAt("commit", gen, snap) \in ProcRecord
BY RecipeAssumption DEF ProcAt, ProcRecord, Versions

LEMMA ChannelNext == TypeOK /\ [Next]_vars => ChannelTypes'
<1> SUFFICES ASSUME TypeOK, [Next]_vars PROVE ChannelTypes'
  OBVIOUS
<1>a. msgCh \in Seq(Message) /\ Len(msgCh) <= ChanCap /\ snapshot \in Snapshot
  BY DEF TypeOK, ChannelTypes, DataTypes
<1>b. ASSUME UNCHANGED msgCh PROVE ChannelTypes'
  BY <1>a, <1>b DEF ChannelTypes
<1>c. ASSUME NEW k, NEW s \in Snapshot, Send(Msg(k, s)) PROVE ChannelTypes'
  BY <1>a, <1>c, SendType DEF ChannelTypes
<1>1. CASE Source \/ Starting \/ Stopping \/ Looping \/ Request \/ ProcessJoin
  BY <1>1, <1>b DEF Source, FileChange, WatcherNotify, Starting, StartLock, StartWatcher,
     StartLoop, StartTrigger, Stopping, Stop, StopCancel, Looping, LoopToken, LoopExit,
     Request, UserRefresh, SetRecipe, ProcessJoin
<1>2. CASE Recovery
  <2>1. CASE Recover \/ RecoverCancelLoop \/ RecoverRestart \/ RecoverRefresh
    BY <2>1, <1>b DEF Recover, RecoverWith, RecoverCancelLoop, RecoverRestart, RecoverRefresh
  <2>2. CASE RecoverGiveUp
    BY <2>2, <1>c, NoSnapshotType DEF RecoverGiveUp, RecoverFails
  <2>3. CASE RecoverWatcher
    BY <2>3, <1>b, <1>c, NoSnapshotType DEF RecoverWatcher, RecoverFails
  <2> QED
    BY <1>2, <2>1, <2>2, <2>3 DEF Recovery
<1>3. ASSUME NEW p \in Proc, Process(p) PROVE ChannelTypes'
  <2>1. CASE ProcessBegin(p) \/ BuildDedup(p) \/ BuildSeal(p) \/ ProcessDiscard(p)
             \/ ProcessCommit(p)
    BY <2>1, <1>b DEF ProcessBegin, BuildDedup, BuildSeal, ProcessDiscard, ProcessCommit, CommitIf
  <2>2. CASE BuildLoad(p) \/ BuildFail(p)
    BY <2>2, <1>c, NoSnapshotType DEF BuildLoad, BuildFail
  <2>3. CASE ProcessNotify(p)
    <3>1. proc[p].snap \in Snapshot
      BY DEF TypeOK, DataTypes, ProcRecord
    <3> QED
      BY <2>3, <3>1, <1>b, <1>c DEF ProcessNotify
  <2> QED
    BY <1>3, <2>1, <2>2, <2>3 DEF Process
<1>4. CASE Phase2
  <2>1. \A b \in phase2 : b.snap \in Snapshot
    BY DEF TypeOK, DataTypes, Phase2Record
  <2> QED
    BY <1>4, <2>1, <1>b, <1>c DEF Phase2, Phase2Done, Phase2Check, Phase2Notify
<1>5. CASE UNCHANGED vars
  BY <1>5, <1>b DEF vars
<1> QED
  BY <1>1, <1>2, <1>3, <1>4, <1>5 DEF Next

LEMMA DataNext == TypeOK /\ Control /\ [Next]_vars => DataTypes'
<1> SUFFICES ASSUME TypeOK, Control, [Next]_vars PROVE DataTypes'
  OBVIOUS
<1> USE DEF TypeOK, DataTypes, dataVars, hashVars, buildVars
<1>1. CASE Source
  <2>1. CASE FileChange
    <3>1. content' \in 1..MaxContent
      BY <2>1 DEF FileChange
    <3> QED
      BY <2>1, <3>1 DEF FileChange
  <2>2. CASE WatcherNotify
    BY <2>2 DEF WatcherNotify
  <2> QED
    BY <1>1, <2>1, <2>2 DEF Source
<1>2. CASE Starting \/ Stopping \/ Looping \/ ProcessJoin
  BY <1>2 DEF Starting, StartLock, StartWatcher, StartLoop, StartTrigger, TriggerRefresh,
     Stopping, Stop, StopCancel, Looping, LoopToken, LoopExit, ProcessJoin
<1>3. CASE Recovery
  <2>1. CASE Recover
    BY <2>1 DEF Recover, RecoverWith, Control, FlagTypes, RequestTypes
  <2>2. CASE RecoverGiveUp \/ RecoverCancelLoop \/ RecoverWatcher
    BY <2>2 DEF RecoverGiveUp, RecoverCancelLoop, RecoverWatcher
  <2>3. CASE RecoverRestart \/ RecoverRefresh
    BY <2>3 DEF RecoverRestart, RecoverRefresh, ForceRefresh, Versions
  <2> QED
    BY <1>3, <2>1, <2>2, <2>3 DEF Recovery
<1>4. CASE Request
  <2>1. ASSUME ForceRefresh PROVE lastHash' \in Versions
    BY <2>1 DEF ForceRefresh, Versions
  <2>2. CASE UserRefresh
    BY <2>1, <2>2 DEF UserRefresh
  <2>3. ASSUME NEW r \in Recipes, SetRecipe(r) PROVE DataTypes'
    BY <2>1, <2>3 DEF SetRecipe
  <2> QED
    BY <1>4, <2>2, <2>3 DEF Request
<1>5. ASSUME NEW p \in Proc, Process(p) PROVE DataTypes'
  <2>0. proc[p] \in ProcRecord /\ IdleProc \in ProcRecord
    BY NoSnapshotType
  <2>1. CASE ProcessBegin(p)
    <3>1. ProcAt("load", generation, NoSnapshot) \in ProcRecord
      BY NoSnapshotType DEF ProcAt, ProcRecord, Versions
    <3> QED
      BY <2>1, <3>1 DEF ProcessBegin
  <2>2. CASE BuildLoad(p)
    <3>1. content \in Versions
      BY DEF Versions
    <3>2. [proc[p] EXCEPT !.pc = "dedup", !.recipe = recipe, !.hash = content] \in ProcRecord
      BY <2>0, <3>1 DEF ProcRecord
    <3>3. proc' = [proc EXCEPT ![p] = [proc[p] EXCEPT !.pc = "dedup", !.recipe = recipe,
                                                       !.hash = content]]
      BY <2>2 DEF BuildLoad
    <3>4. proc' \in [Proc -> ProcRecord]
      BY <3>2, <3>3
    <3> QED
      BY <2>2, <3>4 DEF BuildLoad
  <2>c. ProcAt("commit", proc[p].gen, NoSnapshot) \in ProcRecord
    BY <2>0, ProcAtType, NoSnapshotType DEF ProcRecord
  <2>3. CASE BuildFail(p)
    BY <2>3, <2>c DEF BuildFail
  <2>4. CASE BuildDedup(p)
    <3>1. snapshot.id \in Nat
      BY DEF Snapshot
    <3>2. [proc[p] EXCEPT !.pc = "build", !.prev = snapshot.id] \in ProcRecord
      BY <2>0, <3>1 DEF ProcRecord
    <3>3. proc' \in [Proc -> ProcRecord]
      BY <2>4, <2>c, <3>2 DEF BuildDedup
    <3> QED
      BY <2>4, <3>3 DEF BuildDedup, Versions
  <2>5. CASE BuildSeal(p)
    <3>1. [id |-> builds + 1, data |-> proc[p].hash, recipe |-> proc[p].recipe] \in Snapshot
      BY <2>5, <2>0 DEF BuildSeal, ProcRecord, Snapshot
    <3> DEFINE s == [id |-> builds + 1, data |-> proc[p].hash, recipe |-> proc[p].recipe]
    <3> HIDE DEF s
    <3>2. ProcAt("commit", proc[p].gen, s) \in ProcRecord
      BY <2>0, <3>1, ProcAtType DEF ProcRecord, s
    <3>3. proc' = [proc EXCEPT ![p] = ProcAt("commit", proc[p].gen, s)]
      BY <2>5 DEF BuildSeal, s
    <3>4. proc' \in [Proc -> ProcRecord]
      BY <3>2, <3>3
    <3>5. lastHash' \in Versions /\ builds' \in Nat /\ phase2' \subseteq Phase2Record
      BY <2>5, <2>0, <3>1 DEF BuildSeal, ProcRecord, Phase2Record
    <3> QED
      BY <2>5, <3>4, <3>5 DEF BuildSeal
  <2>6. CASE ProcessDiscard(p)
    BY <2>6, <2>0 DEF ProcessDiscard
  <2>7. CASE ProcessCommit(p)
    BY <2>7, <2>0 DEF ProcessCommit, CommitIf, ProcRecord, FlagTypes
  <2>8. CASE ProcessNotify(p)
    BY <2>8, <2>0 DEF ProcessNotify
  <2> QED
    BY <1>5, <2>1, <2>2, <2>3, <2>4, <2>5, <2>6, <2>7, <2>8 DEF Process
<1>6. CASE Phase2
  <2>1. PICK b \in phase2 : Phase2Done(b) \/ Phase2Check(b) \/ Phase2Notify(b)
    BY <1>6 DEF Phase2
  <2>2. b \in Phase2Record
    OBVIOUS
  <2>3. [b EXCEPT !.pc = "check"] \in Phase2Record /\ [b EXCEPT !.pc = "send"] \in Phase2Record
    BY <2>2 DEF Phase2Record
  <2>4. phase2' \subseteq Phase2Record
    BY <2>1, <2>3 DEF Phase2Done, Phase2Check, Phase2Notify
  <2> QED
    BY <2>1, <2>4 DEF Phase2Done, Phase2Check, Phase2Notify
<1>7. CASE UNCHANGED vars
  BY <1>7 DEF vars
<1> QED
  BY <1>1, <1>2, <1>3, <1>4, <1>5, <1>6, <1>7 DEF Next

(* Type correctness: every variable stays in its type, the recoveries stop *)
(* at their limit and the channel never exceeds its capacity.              *)
THEOREM TypeCorrect == Spec => [](TypeOK /\ Control)
<1>1. Init => TypeOK /\ Control
  BY TypeInit, ControlInit
<1>2. TypeOK /\ Control /\ [Next]_vars => (TypeOK /\ Control)'
  BY ControlNext, DataNext, RequestNext, LifeNext, FlagNext, ChannelNext DEF TypeOK
<1> QED
  BY <1>1, <1>2, PTL DEF Spec

-----------------------------------------------------------------------------
(* Where the process loops can be: none before Start has run, and during a *)
(* recovery w.loopCancel holds nothing.                                    *)
Loopless ==
  /\ startPc \in {"none", "watcher", "loop", "failed"} => \A l \in Loops : loop[l] = "none"
  /\ recPc # "none" => startPc \in {"trigger", "done"}
  /\ recPc \notin {"none", "refresh"} => loopCancel = 0

(* No process() goroutine is newer than the last recovery.                 *)
NoFutureProc == \A p \in Proc : proc[p].gen <= generation
Builders == SingleBuilder /\ NoFutureProc

(* Nothing anybody holds is newer than the source, and what a current      *)
(* process() holds is at least as new as what is shown.                    *)
Ordered ==
  /\ snapshot.data <= content
  /\ \A p \in Proc :
       /\ proc[p].hash <= content
       /\ proc[p].snap.data <= content
       /\ proc[p].pc \in {"load", "dedup", "build"} => proc[p].snap.id = 0
       /\ proc[p].pc \in {"dedup", "build"} /\ Current(p) => snapshot.data <= proc[p].hash
       /\ proc[p].pc = "commit" /\ Current(p) /\ proc[p].snap.id # 0
            => snapshot.data <= proc[p].snap.data

IInv == TypeOK /\ Control /\ Loopless /\ LoopOwned /\ Builders /\ Ordered

LEMMA LooplessNext == TypeOK /\ Loopless /\ [Next]_vars => Loopless'
<1> SUFFICES ASSUME TypeOK, Loopless, [Next]_vars PROVE Loopless'
  OBVIOUS
<1> USE DEF Loopless, loopVars, startVars, stopVars, recVars, lifeVars
<1>1. CASE Source \/ ProcessJoin \/ Request
  BY <1>1 DEF Source, FileChange, WatcherNotify, ProcessJoin, Request, UserRefresh, SetRecipe
<1>2. CASE Starting
  BY <1>2 DEF Starting, StartLock, StartWatcher, StartLoop, startLoop, StartTrigger
<1>3. CASE Stopping
  BY <1>3 DEF Stopping, Stop, StopLock, StopCancel
<1>4. CASE Looping
  BY <1>4 DEF Looping, LoopToken, LoopExit
<1>5. CASE Recovery
  <2>1. CASE Recover
    BY <2>1 DEF Recover, RecoverWith
  <2>2. CASE RecoverGiveUp
    BY <2>2 DEF RecoverGiveUp, RecoverFails, StopLock
  <2>3. CASE RecoverCancelLoop
    BY <2>3 DEF RecoverCancelLoop
  <2>4. CASE RecoverWatcher
    BY <2>4 DEF RecoverWatcher, RecoverFails, StopLock
  <2>5. CASE RecoverRestart
    BY <2>5 DEF RecoverRestart, startLoop
  <2>6. CASE RecoverRefresh
    BY <2>6 DEF RecoverRefresh
  <2> QED
    BY <1>5, <2>1, <2>2, <2>3, <2>4, <2>5, <2>6 DEF Recovery
<1>6. ASSUME NEW p \in Proc, Process(p) PROVE Loopless'
  BY <1>6 DEF Process, ProcessBegin, BuildLoad, BuildFail, BuildDedup, BuildSeal,
     ProcessDiscard, ProcessCommit, CommitIf, ProcessNotify
<1>7. CASE Phase2
  BY <1>7 DEF Phase2, Phase2Done, Phase2Check, Phase2Notify
<1>8. CASE UNCHANGED vars
  BY <1>8 DEF vars
<1> QED
  BY <1>1, <1>2, <1>3, <1>4, <1>5, <1>6, <1>7, <1>8 DEF Next

LEMMA LoopOwnedNext == TypeOK /\ Control /\ Loopless /\ LoopOwned /\ [Next]_vars => LoopOwned'
<1> SUFFICES ASSUME TypeOK, Control, Loopless, LoopOwned, [Next]_vars PROVE LoopOwned'
  OBVIOUS
<1> USE DEF LoopOwned, loopVars, requestVars, startVars, stopVars, recVars, lifeVars
<1>t. loop \in [Loops -> {"none", "live", "cancelled", "exited"}] /\ recLoop \in Loops \cup {0}
  BY DEF TypeOK, LifeTypes
<1>1. CASE Source \/ ProcessJoin
  BY <1>1 DEF Source, FileChange, WatcherNotify, ProcessJoin
<1>2. CASE Starting
  <2>1. CASE StartLock \/ StartWatcher
    BY <2>1 DEF StartLock, StartWatcher
  <2>2. CASE StartLoop
    BY <2>2, <1>t DEF StartLoop, startLoop, Loopless
  <2>3. CASE StartTrigger
    BY <2>3 DEF StartTrigger, TriggerRefresh, RequestProcess
  <2> QED
    BY <1>2, <2>1, <2>2, <2>3 DEF Starting
<1>3. CASE Stopping
  BY <1>3 DEF Stopping, Stop, StopLock, StopCancel
<1>4. CASE Looping
  BY <1>4, <1>t DEF Looping, LoopToken, LoopExit, TriggerRefresh, RequestProcess
<1>5. CASE Recovery
  <2>1. CASE Recover
    BY <2>1 DEF Recover, RecoverWith, Control
  <2>2. CASE RecoverGiveUp
    BY <2>2 DEF RecoverGiveUp, RecoverFails, StopLock
  <2>3. CASE RecoverCancelLoop
    BY <2>3, <1>t DEF RecoverCancelLoop
  <2>4. CASE RecoverWatcher
    BY <2>4 DEF RecoverWatcher, RecoverFails, StopLock
  <2>5. CASE RecoverRestart
    <3>1. loopCancel = 0 /\ 0 \notin Loops /\ recPc = "restart"
      BY <2>5 DEF RecoverRestart, Loopless, Loops
    <3>2. state # "stopped" => \A l \in Loops : loop[l] # "live"
      BY <3>1
    <3>3. CASE state = "stopped"
      BY <2>5, <3>1, <3>3 DEF RecoverRestart, startLoop
    <3>4. CASE state # "stopped"
      BY <2>5, <3>2, <3>4, <1>t DEF RecoverRestart, startLoop
    <3> QED
      BY <3>3, <3>4
  <2>6. CASE RecoverRefresh
    BY <2>6 DEF RecoverRefresh, ForceRefresh, RequestProcess
  <2> QED
    BY <1>5, <2>1, <2>2, <2>3, <2>4, <2>5, <2>6 DEF Recovery
<1>6. CASE Request
  BY <1>6 DEF Request, UserRefresh, SetRecipe, ForceRefresh, RequestProcess
<1>7. ASSUME NEW p \in Proc, Process(p) PROVE LoopOwned'
  BY <1>7 DEF Process, ProcessBegin, BuildLoad, BuildFail, BuildDedup, BuildSeal,
     ProcessDiscard, ProcessCommit, CommitIf, ProcessNotify
<1>8. CASE Phase2
  BY <1>8 DEF Phase2, Phase2Done, Phase2Check, Phase2Notify
<1>9. CASE UNCHANGED vars
  BY <1>9 DEF vars
<1> QED
  BY <1>1, <1>2, <1>3, <1>4, <1>5, <1>6, <1>7, <1>8, <1>9 DEF Next

-----------------------------------------------------------------------------
(* Steps that neither touch the process() goroutines and the snapshot nor  *)
(* the generation, and leave the state as it is or stop the worker.        *)
Aside ==
  /\ UNCHANGED <<proc, generation, snapshot>>
  /\ content' = content \/ content' = content + 1
  /\ state' = state \/ state' = "stopped"

LEMMA AsideSteps ==
  ASSUME \/ Source \/ Starting \/ Stopping \/ Looping \/ Request \/ ProcessJoin
         \/ RecoverGiveUp \/ RecoverCancelLoop \/ RecoverWatcher \/ RecoverRestart
         \/ RecoverRefresh \/ Phase2 \/ UNCHANGED vars
  PROVE  Aside
<1> USE DEF Aside, dataVars, requestVars, buildVars
<1>1. CASE Source
  BY <1>1 DEF Source, FileChange, WatcherNotify
<1>2. CASE Starting
  BY <1>2 DEF Starting, StartLock, StartWatcher, StartLoop, StartTrigger, TriggerRefresh, RequestProcess
<1>3. CASE Stopping
  BY <1>3 DEF Stopping, Stop, StopLock, StopCancel
<1>4. CASE Looping
  BY <1>4 DEF Looping, LoopToken, LoopExit, TriggerRefresh, RequestProcess
<1>5. CASE Request
  BY <1>5 DEF Request, UserRefresh, SetRecipe, ForceRefresh, RequestProcess
<1>6. CASE ProcessJoin \/ Phase2 \/ UNCHANGED vars
  BY <1>6 DEF ProcessJoin, Phase2, Phase2Done, Phase2Check, Phase2Notify, vars
<1>7. CASE RecoverGiveUp \/ RecoverCancelLoop \/ RecoverWatcher
  BY <1>7 DEF RecoverGiveUp, RecoverFails, StopLock, RecoverCancelLoop, RecoverWatcher
<1>8. CASE RecoverRestart \/ RecoverRefresh
  BY <1>8 DEF RecoverRestart, RecoverRefresh, ForceRefresh, RequestProcess
<1> QED
  BY <1>1, <1>2, <1>3, <1>4, <1>5, <1>6, <1>7, <1>8

LEMMA NextCases ==
  ASSUME [Next]_vars
  PROVE  Aside \/ Recover \/ \E p \in Proc : Process(p)
BY AsideSteps DEF Next, Recovery

LEMMA BuildersNext == TypeOK /\ Builders /\ [Next]_vars => Builders'
<1> SUFFICES ASSUME TypeOK, Builders, [Next]_vars PROVE Builders'
  OBVIOUS
<1> USE DEF Builders, SingleBuilder, NoFutureProc, Builder, Current, Building
<1>t. /\ generation \in Nat
      /\ \A p \in Proc : proc[p].gen \in Nat
      /\ proc \in [Proc -> ProcRecord]
      /\ state \in {"idle", "processing", "stopped"}
  BY DEF TypeOK, DataTypes, RequestTypes, ProcRecord
<1>1. CASE Aside
  BY <1>1 DEF Aside
<1>2. CASE Recover
  <2>1. generation' = generation + 1 /\ proc' = proc /\ state' = "idle"
    BY <1>2 DEF Recover, RecoverWith, buildVars
  <2>2. \A p \in Proc : proc[p].gen # generation + 1
    BY <1>t
  <2> QED
    BY <2>1, <2>2, <1>t
<1>3. ASSUME NEW p \in Proc, Process(p) PROVE Builders'
  <2>0. proc[p].pc \in {"free", "load", "dedup", "build", "commit", "notify"}
    BY <1>t DEF ProcRecord
  <2>1. CASE ProcessBegin(p)
    <3>1. /\ proc' = [proc EXCEPT ![p] = ProcAt("load", generation, NoSnapshot)]
          /\ state = "idle" /\ state' = "processing" /\ generation' = generation
      BY <2>1 DEF ProcessBegin, dataVars
    <3>2. ProcAt("load", generation, NoSnapshot).pc = "load" /\ ProcAt("load", generation, NoSnapshot).gen = generation
      BY DEF ProcAt
    <3> QED
      BY <3>1, <3>2, <1>t
  <2>2. CASE BuildLoad(p) \/ BuildFail(p) \/ BuildDedup(p) \/ BuildSeal(p)
    <3>1. /\ proc'[p].gen = proc[p].gen /\ proc'[p].pc \in Building /\ proc[p].pc \in Building
          /\ \A q \in Proc \ {p} : proc'[q] = proc[q]
          /\ generation' = generation /\ state' = state
      <4>1. CASE BuildLoad(p)
        BY <4>1, <1>t DEF BuildLoad, dataVars, requestVars, ProcRecord
      <4>2. CASE BuildFail(p) \/ BuildDedup(p) \/ BuildSeal(p)
        BY <4>2, <1>t DEF BuildFail, BuildDedup, BuildSeal, ProcAt, requestVars, ProcRecord
      <4> QED
        BY <2>2, <4>1, <4>2
    <3>2. \A q \in Proc : proc'[q].gen = proc[q].gen
      BY <3>1
    <3>3. \A q \in Proc : (proc'[q].pc \in Building) = (proc[q].pc \in Building)
      BY <3>1
    <3>4. SingleBuilder'
      BY <3>1, <3>2, <3>3
    <3> QED
      BY <3>1, <3>2, <3>4
  <2>3. CASE ProcessDiscard(p) \/ ProcessNotify(p)
    <3>1. /\ proc' = [proc EXCEPT ![p] = IdleProc] /\ generation' = generation /\ state' = state
          /\ state = "stopped" \/ ~(Builder(p) /\ Current(p))
      BY <2>3 DEF ProcessDiscard, ProcessNotify, dataVars, requestVars
    <3>2. IdleProc.pc = "free" /\ IdleProc.gen = 0
      BY DEF IdleProc, ProcAt
    <3> QED
      BY <3>1, <3>2, <1>t
  <2>4. CASE ProcessCommit(p)
    <3>1. /\ proc[p].pc = "commit" /\ proc[p].gen = generation /\ state # "stopped"
          /\ proc'[p].pc = "notify" /\ proc'[p].gen = 0
          /\ \A q \in Proc \ {p} : proc'[q] = proc[q]
          /\ state' = "idle" /\ generation' = generation
      BY <2>4, <1>t DEF ProcessCommit, CommitIf, ProcRecord
    <3>2. NoFutureProc'
      BY <3>1, <1>t
    <3>3. Builder(p) /\ Current(p)
      BY <3>1
    <3>4. \A q \in Proc : (Builder(q) /\ Current(q))' => q # p /\ Builder(q) /\ Current(q)
      BY <3>1
    <3>5. \A q \in Proc : ~(Builder(q) /\ Current(q))'
      BY <3>3, <3>4
    <3>6. SingleBuilder'
      BY <3>1, <3>5
    <3> QED
      BY <3>2, <3>6
  <2> QED
    BY <1>3, <2>1, <2>2, <2>3, <2>4 DEF Process
<1> QED
  BY <1>1, <1>2, <1>3, NextCases

LEMMA OrderedNext == TypeOK /\ Builders /\ Ordered /\ [Next]_vars => Ordered'
<1> SUFFICES ASSUME TypeOK, Builders, Ordered, [Next]_vars PROVE Ordered'
  OBVIOUS
<1> USE DEF Ordered, Current
<1>t. /\ generation \in Nat /\ content \in Nat /\ snapshot.data \in Nat
      /\ proc \in [Proc -> ProcRecord]
      /\ \A p \in Proc : /\ proc[p].gen \in Nat /\ proc[p].hash \in Nat
                         /\ proc[p].snap.data \in Nat
  BY DEF TypeOK, DataTypes, ProcRecord, Snapshot, Versions
<1>1. CASE Aside
  <2>1. content <= content'
    BY <1>1, <1>t DEF Aside
  <2>2. \A x \in Nat : x <= content => x <= content'
    BY <2>1, <1>1, <1>t DEF Aside
  <2> QED
    BY <1>1, <2>2, <1>t DEF Aside
<1>2. CASE Recover
  <2>1. /\ generation' = generation + 1 /\ proc' = proc
        /\ snapshot' = snapshot /\ content' = content
    BY <1>2 DEF Recover, RecoverWith, buildVars
  <2>2. \A p \in Proc : proc[p].gen # generation + 1
    BY <1>t DEF Builders, NoFutureProc
  <2> QED
    BY <2>1, <2>2, <1>t
<1>3. ASSUME NEW p \in Proc, Process(p) PROVE Ordered'
  <2> DEFINE Good(q, c, shown) ==
         /\ q.hash <= c /\ q.snap.data <= c
         /\ q.pc \in {"load", "dedup", "build"} => q.snap.id = 0
         /\ q.pc \in {"dedup", "build"} /\ q.gen = generation => shown <= q.hash
         /\ q.pc = "commit" /\ q.gen = generation /\ q.snap.id # 0 => shown <= q.snap.data
  <2>0. content' = content /\ generation' = generation
    BY <1>3 DEF Process, ProcessBegin, BuildLoad, BuildFail, BuildDedup, BuildSeal,
       ProcessDiscard, ProcessCommit, CommitIf, ProcessNotify, dataVars
  <2>1. \A q \in Proc : Good(proc[q], content, snapshot.data)
    OBVIOUS
  <2>2. ASSUME NEW r, Good(r, content, snapshot.data), proc' = [proc EXCEPT ![p] = r],
               snapshot' = snapshot
        PROVE  Ordered'
    <3>1. \A q \in Proc : Good(proc'[q], content, snapshot.data)
      BY <2>1, <2>2, <1>t
    <3> QED
      BY <3>1, <2>0, <2>2
  <2> HIDE DEF Good
  <2>3. CASE ProcessBegin(p) \/ ProcessDiscard(p) \/ ProcessNotify(p)
    <3>1. Good(ProcAt("load", generation, NoSnapshot), content, snapshot.data) /\ Good(IdleProc, content, snapshot.data)
      BY <1>t DEF Good, ProcAt, IdleProc, NoSnapshot
    <3> QED
      BY <3>1, <2>2, <2>3 DEF ProcessBegin, ProcessDiscard, ProcessNotify, dataVars
  <2>4. CASE BuildLoad(p)
    <3> DEFINE r == [proc[p] EXCEPT !.pc = "dedup", !.recipe = recipe, !.hash = content]
    <3>1. Good(r, content, snapshot.data)
      BY <2>4, <1>t DEF BuildLoad, Good, ProcRecord
    <3> QED
      BY <3>1, <2>2, <2>4 DEF BuildLoad, dataVars
  <2>5. CASE BuildFail(p)
    <3> DEFINE r == ProcAt("commit", proc[p].gen, NoSnapshot)
    <3>1. Good(r, content, snapshot.data)
      BY <1>t DEF ProcAt, NoSnapshot, Good
    <3> QED
      BY <3>1, <2>2, <2>5 DEF BuildFail
  <2>6. CASE BuildDedup(p)
    <3> DEFINE r1 == ProcAt("commit", proc[p].gen, NoSnapshot)
               r2 == [proc[p] EXCEPT !.pc = "build", !.prev = snapshot.id]
    <3>0. Good(r1, content, snapshot.data)
      BY <1>t DEF ProcAt, NoSnapshot, Good
    <3>1. Good(r2, content, snapshot.data)
      BY <2>6, <1>t DEF BuildDedup, Good, ProcRecord
    <3> HIDE DEF r1, r2
    <3>2. proc' = [proc EXCEPT ![p] = r1] \/ proc' = [proc EXCEPT ![p] = r2]
      BY <2>6 DEF BuildDedup, r1, r2
    <3>3. snapshot' = snapshot
      BY <2>6 DEF BuildDedup
    <3> QED
      BY <3>0, <3>1, <3>2, <3>3, <2>2
  <2>7. CASE BuildSeal(p)
    <3> DEFINE s == [id |-> builds + 1, data |-> proc[p].hash, recipe |-> proc[p].recipe]
               r == ProcAt("commit", proc[p].gen, s)
    <3>1. s.data = proc[p].hash
      OBVIOUS
    <3>2. proc' = [proc EXCEPT ![p] = r] /\ snapshot' = snapshot /\ proc[p].pc = "build"
      BY <2>7 DEF BuildSeal
    <3> HIDE DEF s
    <3>c. r.pc = "commit" /\ r.gen = proc[p].gen /\ r.hash = 0 /\ r.snap = s
      BY DEF ProcAt
    <3>3. Good(r, content, snapshot.data)
      BY <3>1, <3>2, <3>c, <1>t DEF Good, ProcRecord
    <3> QED
      BY <3>2, <3>3, <2>2
  <2>8. CASE ProcessCommit(p)
    <3> DEFINE r == [proc[p] EXCEPT !.pc = "notify", !.gen = 0, !.rerun = dirty]
    <3>1. /\ proc' = [proc EXCEPT ![p] = r]
          /\ snapshot' = IF proc[p].snap.id # 0 THEN proc[p].snap ELSE snapshot
          /\ proc[p].pc = "commit" /\ proc[p].gen = generation
      BY <2>8 DEF ProcessCommit, CommitIf, Current
    <3>2. \A q \in Proc \ {p} : ~(proc[q].pc \in Building /\ proc[q].gen = generation)
      BY <3>1 DEF Builders, SingleBuilder, Builder, Building
    <3>3. \A q \in Proc \ {p} : Good(proc[q], content, snapshot'.data)
      BY <3>2, <2>1 DEF Good, Building
    <3>4. Good(r, content, snapshot'.data)
      BY <3>1, <2>1, <1>t DEF Good, ProcRecord
    <3>5. \A q \in Proc : Good(proc'[q], content, snapshot'.data)
      BY <3>1, <3>3, <3>4, <1>t
    <3>6. snapshot'.data <= content
      BY <3>1
    <3> QED
      BY <3>5, <3>6, <2>0 DEF Good
  <2> QED
    BY <1>3, <2>3, <2>4, <2>5, <2>6, <2>7, <2>8 DEF Process
<1> QED
  BY <1>1, <1>2, <1>3, NextCases

LEMMA Inductive == Spec => []IInv
<1>1. Init => Loopless /\ LoopOwned /\ Builders /\ Ordered
  BY DEF Init, Loopless, LoopOwned, Builders, SingleBuilder, NoFutureProc, Builder, Building,
     Ordered, IdleProc, ProcAt, NoSnapshot
<1>2. Init => IInv
  BY <1>1, TypeInit, ControlInit DEF IInv
<1>3. IInv /\ [Next]_vars => IInv'
  BY ControlNext, DataNext, RequestNext, LifeNext, FlagNext, ChannelNext, LooplessNext,
     LoopOwnedNext, BuildersNext, OrderedNext DEF IInv, TypeOK
<1> QED
  BY <1>2, <1>3, PTL DEF Spec

(* At most one current process() is between its two critical sections, and *)
(* while the worker runs its state says exactly whether there is one.      *)
THEOREM OneBuilder == Spec => []SingleBuilder
<1>1. IInv => SingleBuilder
  BY DEF IInv, Builders
<1> QED
  BY <1>1, Inductive, PTL

(* No live process loop is ever out of reach of Stop and of the recovery.  *)
THEOREM NoOrphanLoop == Spec => []LoopOwned
<1>1. IInv => LoopOwned
  BY DEF IInv
<1> QED
  BY <1>1, Inductive, PTL

-----------------------------------------------------------------------------
(* A worker that has not recovered: what it remembers and what it owes.    *)

(* Until the first recovery nobody but Stop takes the watcher away.        *)
Attended ==
  /\ recPc # "none" => generation > 0
  /\ stopPc # "none" => state = "stopped"
  /\ generation = 0 /\ startPc \in {"loop", "trigger", "done"} /\ state # "stopped" => watcherOn

(* A snapshot that waits for its last critical section.                    *)
Sealed(q) == q.pc = "commit" /\ q.snap.id # 0

(* lastHash is that of the snapshot about to be shown, or else of the one  *)
(* that is shown.                                                          *)
HashTracked ==
  generation = 0 /\ state # "stopped" /\ lastHash # 0 =>
    /\ \A p \in Proc : Sealed(proc[p]) => proc[p].snap.data = lastHash
    /\ (\A p \in Proc : ~Sealed(proc[p])) => lastHash = snapshot.data

(* Somebody will still ask for a process().                                *)
Wanted ==
  \/ pendingEvt \/ changeCh \/ spawned > 0
  \/ state = "processing" /\ dirty
  \/ \E p \in Proc : proc[p].pc = "notify" /\ proc[p].rerun

(* The locals q of a process() lead to version c on the screen.            *)
Brings(q, c) ==
  \/ q.pc = "load"
  \/ q.pc \in {"dedup", "build"} /\ q.hash = c
  \/ Sealed(q) /\ q.snap.data = c

Shown == failed \/ snapshot.data = content

(* Who carries the obligation of a change: nobody will ask again only if   *)
(* the running process() brings the newest version, or it has nothing to   *)
(* bring since that is shown, or the last build has failed.                *)
Tracked ==
  generation = 0 /\ state # "stopped" /\ startPc = "done" /\ ~Wanted =>
    /\ \A p \in Proc : Builder(p) => Brings(proc[p], content)
                                     \/ (proc[p].pc = "commit" /\ proc[p].snap.id = 0 /\ Shown)
    /\ (\A p \in Proc : ~Builder(p)) => Shown

FInv == IInv /\ Attended /\ HashTracked /\ Tracked

LEMMA AttendedNext == TypeOK /\ Control /\ Attended /\ [Next]_vars => Attended'
<1> SUFFICES ASSUME TypeOK, Control, Attended, [Next]_vars PROVE Attended'
  OBVIOUS
<1> USE DEF Attended, Control, dataVars, requestVars, watcherVars, startVars, stopVars, recVars, lifeVars
<1>t. generation \in Nat
  BY DEF TypeOK, DataTypes
<1>1. CASE Source
  BY <1>1 DEF Source, FileChange, WatcherNotify
<1>2. CASE Starting
  BY <1>2 DEF Starting, StartLock, StartWatcher, StartLoop, StartTrigger, TriggerRefresh, RequestProcess
<1>3. CASE Stopping
  BY <1>3 DEF Stopping, Stop, StopLock, StopCancel
<1>4. CASE Looping
  BY <1>4 DEF Looping, LoopToken, LoopExit, TriggerRefresh, RequestProcess
<1>5. CASE Recovery
  <2>1. CASE Recover
    BY <2>1, <1>t DEF Recover, RecoverWith
  <2>2. CASE RecoverGiveUp \/ RecoverWatcher
    BY <2>2, <1>t DEF RecoverGiveUp, RecoverWatcher, RecoverFails, StopLock
  <2>3. CASE RecoverCancelLoop \/ RecoverRestart \/ RecoverRefresh
    BY <2>3, <1>t DEF RecoverCancelLoop, RecoverRestart, RecoverRefresh, ForceRefresh, RequestProcess
  <2> QED
    BY <1>5, <2>1, <2>2, <2>3 DEF Recovery
<1>6. CASE Request
  BY <1>6 DEF Request, UserRefresh, SetRecipe, ForceRefresh, RequestProcess
<1>7. CASE ProcessJoin
  BY <1>7 DEF ProcessJoin
<1>8. ASSUME NEW p \in Proc, Process(p) PROVE Attended'
  BY <1>8 DEF Process, ProcessBegin, BuildLoad, BuildFail, BuildDedup, BuildSeal,
     ProcessDiscard, ProcessCommit, CommitIf, ProcessNotify
<1>9. CASE Phase2
  BY <1>9 DEF Phase2, Phase2Done, Phase2Check, Phase2Notify
<1>10. CASE UNCHANGED vars
  BY <1>10 DEF vars
<1> QED
  BY <1>1, <1>2, <1>3, <1>4, <1>5, <1>6, <1>7, <1>8, <1>9, <1>10 DEF Next

(* Before the first recovery all builders are current, so there is one at  *)
(* most, and none while the worker is idle.                                *)
LEMMA OneAtFirst ==
  ASSUME TypeOK, Builders, generation = 0
  PROVE  /\ \A p \in Proc : Builder(p) => Current(p)
         /\ \A p, q \in Proc : Builder(p) /\ Builder(q) => p = q
         /\ state = "idle" => \A p \in Proc : ~Builder(p)
         /\ state = "processing" => \E p \in Proc : Builder(p)
<1>1. \A p \in Proc : proc[p].gen \in Nat /\ proc[p].gen <= 0
  BY DEF TypeOK, DataTypes, ProcRecord, Builders, NoFutureProc
<1>2. ASSUME NEW p \in Proc PROVE Current(p)
  <2>1. proc[p].gen = 0
    BY <1>1
  <2> QED
    BY <2>1 DEF Current
<1> QED
  BY <1>2 DEF Builders, SingleBuilder

(* Requests may reset lastHash; only a build sets it.                      *)
LEMMA HashAside ==
  ASSUME [Next]_vars
  PROVE  (Aside /\ lastHash' \in {lastHash, 0}) \/ Recover \/ \E p \in Proc : Process(p)
<1>1. ASSUME \A p \in Proc : ~Process(p), ~Recover PROVE lastHash' \in {lastHash, 0}
  BY <1>1 DEF Next, Source, FileChange, WatcherNotify, Starting, StartLock, StartWatcher, StartLoop,
     StartTrigger, TriggerRefresh, Stopping, Stop, StopCancel, Looping, LoopToken, LoopExit,
     Recovery, RecoverGiveUp, RecoverCancelLoop, RecoverWatcher, RecoverRestart, RecoverRefresh,
     Request, UserRefresh, SetRecipe, ForceRefresh, ProcessJoin, Phase2, Phase2Done,
     Phase2Check, Phase2Notify, hashVars, vars
<1> QED
  BY <1>1, NextCases

LEMMA HashTrackedNext == TypeOK /\ Builders /\ HashTracked /\ [Next]_vars => HashTracked'
<1> SUFFICES ASSUME TypeOK, Builders, HashTracked, [Next]_vars,
                    generation' = 0, state' # "stopped", lastHash' # 0
             PROVE  /\ \A p \in Proc : Sealed(proc'[p]) => proc'[p].snap.data = lastHash'
                    /\ (\A p \in Proc : ~Sealed(proc'[p])) => lastHash' = snapshot'.data
  BY DEF HashTracked, Sealed
<1>t. generation \in Nat /\ proc \in [Proc -> ProcRecord] /\ builds \in Nat
  BY DEF TypeOK, DataTypes
<1>1. CASE Aside /\ lastHash' \in {lastHash, 0}
  BY <1>1 DEF Aside, HashTracked
<1>2. CASE Recover
  BY <1>2, <1>t DEF Recover, RecoverWith
<1>3. ASSUME NEW p \in Proc, Process(p)
      PROVE  /\ \A q \in Proc : Sealed(proc'[q]) => proc'[q].snap.data = lastHash'
             /\ (\A q \in Proc : ~Sealed(proc'[q])) => lastHash' = snapshot'.data
  <2>0. /\ generation = 0
        /\ state # "stopped"
        /\ \A q \in Proc \ {p} : proc'[q] = proc[q]
    BY <1>3, <1>t DEF Process, ProcessBegin, BuildLoad, BuildFail, BuildDedup, BuildSeal,
       ProcessDiscard, ProcessCommit, CommitIf, ProcessNotify, dataVars, requestVars
  <2>a. /\ \A q \in Proc : Builder(q) => Current(q)
        /\ \A q, r \in Proc : Builder(q) /\ Builder(r) => q = r
    BY <2>0, OneAtFirst
  <2>b. ASSUME ~Sealed(proc[p]), ~Sealed(proc'[p]), lastHash' \in {lastHash, 0}, snapshot' = snapshot
        PROVE  /\ \A q \in Proc : Sealed(proc'[q]) => proc'[q].snap.data = lastHash'
               /\ (\A q \in Proc : ~Sealed(proc'[q])) => lastHash' = snapshot'.data
    BY <2>b, <2>0 DEF HashTracked
  <2>1. CASE ProcessBegin(p) \/ ProcessNotify(p) \/ BuildFail(p)
    <3>1. ~Sealed(proc[p])
      BY <2>1 DEF ProcessBegin, Free, ProcessNotify, BuildFail, Sealed
    <3>2. ~Sealed(proc'[p])
      BY <2>1, <1>t DEF ProcessBegin, ProcessNotify, BuildFail, Sealed, IdleProc, ProcAt, NoSnapshot
    <3>3. lastHash' = lastHash /\ snapshot' = snapshot
      BY <2>1 DEF ProcessBegin, ProcessNotify, BuildFail, dataVars, hashVars
    <3> QED
      BY <3>1, <3>2, <3>3, <2>b
  <2>2. CASE BuildLoad(p)
    BY <2>2, <2>b, <1>t, SMTT(30) DEF BuildLoad, Sealed, ProcRecord, dataVars, hashVars
  <2>3. CASE BuildDedup(p)
    BY <2>3, <2>b, <1>t DEF BuildDedup, Sealed, ProcAt, NoSnapshot, ProcRecord
  <2>4. CASE BuildSeal(p)
    <3>1. proc'[p].pc = "commit" /\ proc'[p].snap.id # 0 /\ proc'[p].snap.data = lastHash'
      BY <2>4, <1>t DEF BuildSeal, ProcAt
    <3>2. \A q \in Proc \ {p} : ~Sealed(proc[q])
      BY <2>4, <2>a DEF BuildSeal, Builder, Building, Sealed
    <3> QED
      BY <3>1, <3>2, <2>0 DEF Sealed
  <2>5. CASE ProcessDiscard(p)
    BY <2>5, <2>0, <2>a DEF ProcessDiscard, Builder, Building
  <2>6. CASE ProcessCommit(p)
    <3>1. /\ proc[p].pc = "commit" /\ ~Sealed(proc'[p]) /\ lastHash' = lastHash
          /\ snapshot' = IF proc[p].snap.id # 0 THEN proc[p].snap ELSE snapshot
      BY <2>6, <1>t DEF ProcessCommit, CommitIf, Sealed, ProcRecord, hashVars
    <3>2. \A q \in Proc \ {p} : ~Sealed(proc[q])
      BY <3>1, <2>a DEF Builder, Building, Sealed
    <3> QED
      BY <3>1, <3>2, <2>0 DEF HashTracked, Sealed
  <2> QED
    BY <1>3, <2>1, <2>2, <2>3, <2>4, <2>5, <2>6 DEF Process
<1> QED
  BY <1>1, <1>2, <1>3, HashAside

-----------------------------------------------------------------------------
(* A file change arms the watcher, and every token, request and goroutine  *)
(* that is used up leaves another, or dirty, in its place.                 *)
LEMMA WantedAside ==
  ASSUME TypeOK, Attended, [Next]_vars, generation = 0, startPc' = "done", state' # "stopped",
         Wanted \/ startPc # "done", ~Recover, \A p \in Proc : ~Process(p)
  PROVE  Wanted'
<1> USE DEF Wanted, dataVars, requestVars, buildVars, watcherVars, startVars, stopVars, recVars, lifeVars
<1>t. spawned \in Nat /\ state \in {"idle", "processing", "stopped"}
  BY DEF TypeOK, RequestTypes
<1>r. ASSUME RequestProcess, proc' = proc, state # "stopped" PROVE Wanted'
  BY <1>r, <1>t DEF RequestProcess
<1>1. CASE Source
  BY <1>1, <1>t DEF Source, FileChange, WatcherNotify, Attended
<1>2. CASE Starting
  BY <1>2, <1>r DEF Starting, StartLock, StartWatcher, StartLoop, StartTrigger, TriggerRefresh, RequestProcess
<1>3. CASE Stopping
  BY <1>3 DEF Stopping, Stop, StopLock, StopCancel, Attended
<1>4. ASSUME NEW l \in Loops, LoopToken(l) \/ LoopExit(l) PROVE Wanted'
  <2>1. CASE LoopToken(l)
    <3>1. RequestProcess /\ proc' = proc
      BY <2>1 DEF LoopToken, TriggerRefresh
    <3>2. state # "stopped"
      BY <3>1 DEF RequestProcess
    <3> QED
      BY <3>1, <3>2, <1>r
  <2>2. CASE LoopExit(l)
    BY <2>2 DEF LoopExit
  <2> QED
    BY <1>4, <2>1, <2>2
<1>5. CASE Recovery
  BY <1>5 DEF Recovery, RecoverGiveUp, RecoverCancelLoop, RecoverWatcher, RecoverRestart,
     RecoverRefresh, Attended
<1>6. CASE Request
  BY <1>6, <1>r DEF Request, UserRefresh, SetRecipe, ForceRefresh, RequestProcess
<1>7. CASE ProcessJoin
  BY <1>7, <1>t DEF ProcessJoin
<1>8. CASE Phase2
  BY <1>8 DEF Phase2, Phase2Done, Phase2Check, Phase2Notify
<1>9. CASE UNCHANGED vars
  BY <1>9 DEF vars
<1> QED
  BY <1>1, <1>2, <1>3, <1>4, <1>5, <1>6, <1>7, <1>8, <1>9 DEF Next, Looping

(* Steps beside process() that leave nobody asking change nothing.         *)
LEMMA ShownAside ==
  ASSUME Attended, [Next]_vars, ~Recover, \A p \in Proc : ~Process(p),
         generation = 0, startPc = "done", state' # "stopped", ~Wanted'
  PROVE  content' = content /\ failed' = failed
BY DEF Wanted, Attended, Next, Source, FileChange, WatcherNotify, Starting, StartLock, StartWatcher,
   StartLoop, StartTrigger, Stopping, Stop, StopLock, StopCancel, Looping, LoopToken, LoopExit, Recovery,
   RecoverGiveUp, RecoverCancelLoop, RecoverWatcher, RecoverRestart, RecoverRefresh,
   Request, UserRefresh, SetRecipe, ProcessJoin, Phase2, Phase2Done, Phase2Check,
   Phase2Notify, dataVars, watcherVars, requestVars, vars

LEMMA TrackedNext ==
  TypeOK /\ Builders /\ Attended /\ HashTracked /\ Tracked /\ [Next]_vars => Tracked'
<1> SUFFICES ASSUME TypeOK, Builders, Attended, HashTracked, Tracked, [Next]_vars,
                    generation' = 0, state' # "stopped", startPc' = "done", ~Wanted'
             PROVE  /\ \A p \in Proc : Builder(p)' =>
                         Brings(proc'[p], content')
                         \/ (proc'[p].pc = "commit" /\ proc'[p].snap.id = 0 /\ Shown')
                    /\ (\A p \in Proc : ~Builder(p)') => Shown'
  BY DEF Tracked, Brings, Sealed
<1>t. /\ generation \in Nat /\ proc \in [Proc -> ProcRecord] /\ builds \in Nat /\ spawned \in Nat
      /\ state \in {"idle", "processing", "stopped"}
  BY DEF TypeOK, DataTypes, RequestTypes
<1>1. ASSUME ~Recover, \A p \in Proc : ~Process(p)
      PROVE  /\ \A p \in Proc : Builder(p)' =>
                  Brings(proc'[p], content')
                  \/ (proc'[p].pc = "commit" /\ proc'[p].snap.id = 0 /\ Shown')
             /\ (\A p \in Proc : ~Builder(p)') => Shown'
  <2>1. Aside
    BY <1>1, NextCases
  <2>2. generation = 0 /\ state # "stopped"
    BY <2>1, <1>1 DEF Aside, Next, Source, FileChange, WatcherNotify, Starting, StartLock,
       StartWatcher, StartLoop, StartTrigger, TriggerRefresh, RequestProcess, Stopping, Stop,
       StopLock, StopCancel, Looping, LoopToken, LoopExit, Recovery, RecoverGiveUp, RecoverFails,
       RecoverCancelLoop, RecoverWatcher, RecoverRestart, RecoverRefresh, Request, UserRefresh,
       SetRecipe, ForceRefresh, ProcessJoin, Phase2, Phase2Done, Phase2Check, Phase2Notify,
       requestVars, vars
  <2>3. ~Wanted /\ startPc = "done"
    BY <1>1, <2>2, WantedAside
  <2>4. content' = content /\ failed' = failed /\ proc' = proc /\ snapshot' = snapshot
    BY <1>1, <2>1, <2>2, <2>3, ShownAside DEF Aside
  <2> QED
    BY <2>2, <2>3, <2>4 DEF Tracked, Builder, Shown
<1>2. CASE Recover
  BY <1>2, <1>t DEF Recover, RecoverWith
<1>3. ASSUME NEW p \in Proc, Process(p)
      PROVE  /\ \A q \in Proc : Builder(q)' =>
                  Brings(proc'[q], content')
                  \/ (proc'[q].pc = "commit" /\ proc'[q].snap.id = 0 /\ Shown')
             /\ (\A q \in Proc : ~Builder(q)') => Shown'
  <2>0. /\ generation = 0 /\ state # "stopped" /\ startPc = "done"
        /\ content' = content /\ pendingEvt' = pendingEvt /\ changeCh' = changeCh
        /\ \A q \in Proc \ {p} : proc'[q] = proc[q]
    BY <1>3, <1>t DEF Process, ProcessBegin, BuildLoad, BuildFail, BuildDedup, BuildSeal,
       ProcessDiscard, ProcessCommit, CommitIf, ProcessNotify, dataVars, requestVars, watcherVars,
       startVars, lifeVars
  <2>a. /\ \A q \in Proc : Builder(q) => Current(q)
        /\ \A q, r \in Proc : Builder(q) /\ Builder(r) => q = r
        /\ state = "idle" => \A q \in Proc : ~Builder(q)
    BY <2>0, OneAtFirst
  \* What follows for all from what p becomes, when p is or becomes the builder.
  <2>b. ASSUME Builder(p) \/ state = "idle", Builder(p)',
               \/ Brings(proc'[p], content)
               \/ proc'[p].pc = "commit" /\ proc'[p].snap.id = 0 /\ Shown'
        PROVE  /\ \A q \in Proc : Builder(q)' =>
                    Brings(proc'[q], content')
                    \/ (proc'[q].pc = "commit" /\ proc'[q].snap.id = 0 /\ Shown')
               /\ (\A q \in Proc : ~Builder(q)') => Shown'
    <3>1. \A q \in Proc \ {p} : ~Builder(q)'
      BY <2>b, <2>a, <2>0 DEF Builder
    <3> QED
      BY <3>1, <2>b, <2>0
  <2>c. ASSUME proc[p].pc # "notify", UNCHANGED <<spawned, state, dirty>> PROVE ~Wanted
    BY <2>c, <2>0 DEF Wanted
  <2>d. ASSUME Builder(p), ~Wanted
        PROVE  Brings(proc[p], content) \/ (proc[p].pc = "commit" /\ proc[p].snap.id = 0 /\ Shown)
    BY <2>d, <2>0 DEF Tracked
  <2>1. CASE ProcessBegin(p)
    <3>1. state = "idle" /\ proc'[p].pc = "load"
      BY <2>1, <1>t DEF ProcessBegin, ProcAt
    <3> QED
      BY <3>1, <2>b DEF Builder, Building, Brings
  <2>2. CASE BuildLoad(p)
    <3>1. Builder(p) /\ proc'[p].pc = "dedup" /\ proc'[p].hash = content
      BY <2>2, <1>t DEF BuildLoad, Builder, Building, ProcRecord
    <3> QED
      BY <3>1, <2>b DEF Builder, Building, Brings
  <2>3. CASE BuildFail(p)
    <3>1. Builder(p) /\ proc'[p].pc = "commit" /\ proc'[p].snap.id = 0 /\ failed'
      BY <2>3, <1>t DEF BuildFail, Builder, Building, ProcAt, NoSnapshot
    <3> QED
      BY <3>1, <2>b DEF Builder, Building, Shown
  <2>4. CASE BuildDedup(p)
    <3>1. Builder(p) /\ proc[p].pc = "dedup" /\ UNCHANGED <<spawned, state, dirty, snapshot>>
      BY <2>4 DEF BuildDedup, Builder, Building, requestVars
    <3>2. proc[p].hash = content
      BY <3>1, <2>c, <2>d DEF Brings, Sealed
    <3>3. CASE proc[p].hash = lastHash /\ lastHash # 0
               /\ proc' = [proc EXCEPT ![p] = ProcAt("commit", @.gen, NoSnapshot)]
      <4>1. \A q \in Proc : ~Sealed(proc[q])
        BY <3>1, <2>a DEF Builder, Building, Sealed
      <4>2. snapshot.data = content
        BY <4>1, <3>2, <3>3, <2>0 DEF HashTracked
      <4>3. proc'[p].pc = "commit" /\ proc'[p].snap.id = 0
        BY <3>3, <1>t DEF ProcAt, NoSnapshot
      <4> QED
        BY <4>2, <4>3, <3>1, <2>0, <2>b DEF Builder, Building, Shown
    <3>4. CASE proc' = [proc EXCEPT ![p].pc = "build", ![p].prev = snapshot.id]
      <4>1. proc'[p].pc = "build" /\ proc'[p].hash = content
        BY <3>4, <3>2, <1>t DEF ProcRecord
      <4> QED
        BY <4>1, <3>1, <2>b DEF Builder, Building, Brings
    <3> QED
      BY <2>4, <3>3, <3>4 DEF BuildDedup
  <2>5. CASE BuildSeal(p)
    <3>1. Builder(p) /\ proc[p].pc = "build" /\ UNCHANGED <<spawned, state, dirty>>
      BY <2>5 DEF BuildSeal, Builder, Building, requestVars
    <3>2. proc[p].hash = content
      BY <3>1, <2>c, <2>d DEF Brings, Sealed
    <3>3. proc'[p].pc = "commit" /\ proc'[p].snap.id # 0 /\ proc'[p].snap.data = content
      BY <2>5, <3>2, <1>t DEF BuildSeal, ProcAt
    <3> QED
      BY <3>3, <3>1, <2>b DEF Builder, Building, Brings, Sealed
  <2>6. CASE ProcessDiscard(p)
    BY <2>6, <2>0, <2>a DEF ProcessDiscard, Builder, Building
  <2>7. CASE ProcessCommit(p)
    <3>1. /\ proc[p].pc = "commit" /\ Builder(p) /\ failed' = failed /\ spawned' = spawned
          /\ snapshot' = IF proc[p].snap.id # 0 THEN proc[p].snap ELSE snapshot
          /\ proc' = [proc EXCEPT ![p].pc = "notify", ![p].gen = 0, ![p].rerun = dirty]
      BY <2>7 DEF ProcessCommit, CommitIf, Builder, Building
    <3>2. proc'[p].pc = "notify" /\ proc'[p].rerun = dirty
      BY <3>1, <1>t DEF ProcRecord
    <3>3. ~Wanted
      <4>1. ~dirty
        BY <3>2 DEF Wanted
      <4>2. \A q \in Proc : ~(proc[q].pc = "notify" /\ proc[q].rerun)
        BY <3>1, <2>0 DEF Wanted
      <4> QED
        BY <4>1, <4>2, <3>1, <2>0 DEF Wanted
    <3>4. Shown'
      BY <3>1, <3>3, <2>d, <2>0 DEF Brings, Sealed, Shown
    <3>5. \A q \in Proc : ~Builder(q)'
      BY <3>1, <3>2, <2>a, <2>0 DEF Builder, Building
    <3> QED
      BY <3>4, <3>5
  <2>8. CASE ProcessNotify(p)
    <3>1. /\ proc[p].pc = "notify" /\ proc'[p].pc = "free"
          /\ UNCHANGED <<state, dirty, snapshot, failed>>
          /\ spawned' = IF proc[p].rerun THEN spawned + 1 ELSE spawned
      BY <2>8, <1>t DEF ProcessNotify, IdleProc, ProcAt, dataVars
    <3>2. spawned' = spawned /\ ~proc[p].rerun
      BY <3>1, <1>t DEF Wanted
    <3>3. \A q \in Proc : ~(proc[q].pc = "notify" /\ proc[q].rerun)
      BY <3>2, <2>0 DEF Wanted
    <3>4. ~Wanted
      BY <3>1, <3>2, <3>3, <2>0 DEF Wanted
    <3>5. \A q \in Proc : Builder(q)' = Builder(q)
      BY <3>1, <2>0 DEF Builder, Building
    <3>6. \A q \in Proc : Builder(q)' => proc'[q] = proc[q]
      BY <3>1, <2>0 DEF Builder, Building
    <3> QED
      BY <3>1, <3>4, <3>5, <3>6, <2>0 DEF Tracked, Shown
  <2> QED
    BY <1>3, <2>1, <2>2, <2>3, <2>4, <2>5, <2>6, <2>7, <2>8 DEF Process
<1> QED
  BY <1>1, <1>2, <1>3

LEMMA FreshInductive == Spec => []FInv
<1>1. Init => Attended /\ HashTracked /\ Tracked
  BY DEF Init, Attended, HashTracked, Tracked
<1>2. IInv /\ Attended /\ HashTracked /\ Tracked /\ [Next]_vars => (Attended /\ HashTracked /\ Tracked)'
  BY AttendedNext, HashTrackedNext, TrackedNext DEF IInv
<1>3. Spec => [](Attended /\ HashTracked /\ Tracked)
  BY <1>1, <1>2, Inductive, PTL DEF Spec
<1> QED
  BY <1>3, Inductive, PTL DEF FInv

(* lastHash never runs ahead of the screen: what the worker takes for      *)
(* unchanged is what it shows, or has sealed and not shown yet.            *)
THEOREM HashNeverAhead == Spec => []HashIsShown
<1>1. FInv => HashIsShown
  <2> SUFFICES ASSUME HashTracked, generation = 0, state # "stopped", lastHash # 0,
                      \A p \in Proc : proc[p].pc # "commit"
               PROVE  lastHash = snapshot.data
    BY DEF FInv, HashIsShown
  <2>1. \A p \in Proc : ~Sealed(proc[p])
    BY DEF Sealed
  <2> QED
    BY <2>1 DEF HashTracked
<1> QED
  BY <1>1, FreshInductive, PTL

(* No change and no request is lost: a worker that has not recovered and   *)
(* has nothing left to do shows the newest version, or its last build has  *)
(* failed.                                                                 *)
THEOREM NoLostWakeUp == Spec => []FreshWhenQuiet
<1>1. FInv => FreshWhenQuiet
  <2> SUFFICES ASSUME FInv, Quiet, generation = 0, ~failed PROVE snapshot.data = content
    BY DEF FreshWhenQuiet
  <2>1. \A p \in Proc : ~Builder(p)
    BY DEF Quiet
  <2>2. ~Wanted
    BY DEF Quiet, Wanted
  <2> QED
    BY <2>1, <2>2 DEF FInv, Tracked, Quiet, Shown
<1> QED
  BY <1>1, FreshInductive, PTL


-----------------------------------------------------------------------------
(* The refinement: a change is a Change, Stop and the failing ends of a    *)
(* recovery may Close, ProcessCommit may Publish, the rest is stuttering.  *)
LEMMA PromiseInit == Init => Promise!Init
BY DEF Init, Promise!Init, NoSnapshot

LEMMA PromiseStep == IInv /\ [Next]_vars => [Promise!Next]_(Promise!vars)
<1> SUFFICES ASSUME IInv, [Next]_vars PROVE [Promise!Next]_(Promise!vars)
  OBVIOUS
<1> USE DEF Promise!Next, Promise!vars, Promise!Change, Promise!Publish, Promise!Close
<1>t. /\ content \in Nat /\ snapshot.data \in Nat /\ snapshot.data <= content
      /\ \A p \in Proc : proc[p].snap.data \in Nat
  BY DEF IInv, Ordered, TypeOK, DataTypes, ProcRecord, Snapshot, Versions
<1>1. CASE FileChange
  BY <1>1 DEF FileChange, requestVars
<1>2. CASE UNCHANGED <<content, snapshot>> /\ (state' = state \/ state' = "stopped")
  BY <1>2
<1>3. CASE Recover
  BY <1>3 DEF Recover, RecoverWith
<1>4. ASSUME NEW p \in Proc, Process(p) PROVE [Promise!Next]_(Promise!vars)
  <2>1. CASE ProcessBegin(p)
    BY <2>1 DEF ProcessBegin, dataVars
  <2>2. CASE ProcessCommit(p)
    <3>1. /\ proc[p].pc = "commit" /\ Current(p) /\ state # "stopped" /\ state' = "idle"
          /\ content' = content
          /\ snapshot' = IF proc[p].snap.id # 0 THEN proc[p].snap ELSE snapshot
      BY <2>2 DEF ProcessCommit, CommitIf
    <3>2. /\ proc[p].snap.data <= content
          /\ proc[p].snap.id # 0 => snapshot.data <= proc[p].snap.data
      BY <3>1 DEF IInv, Ordered
    <3>a. (snapshot'.data = proc[p].snap.data /\ proc[p].snap.id # 0) \/ snapshot'.data = snapshot.data
      BY <3>1
    <3>b. content \in Nat /\ snapshot.data \in Nat /\ snapshot.data <= content /\ proc[p].snap.data \in Nat
      BY <1>t
    <3>3. snapshot'.data \in snapshot.data..content
      BY <3>a, <3>b, <3>2
    <3> QED
      BY <3>1, <3>3
  <2>3. CASE ~ProcessBegin(p) /\ ~ProcessCommit(p)
    BY <1>4, <2>3 DEF Process, BuildLoad, BuildFail, BuildDedup, BuildSeal, ProcessDiscard,
       ProcessNotify, dataVars, requestVars
  <2> QED
    BY <2>1, <2>2, <2>3
<1>5. CASE Aside /\ ~FileChange
  <2>1. content' = content
    BY <1>5, [Next]_vars DEF Next, Source, WatcherNotify, Starting, StartLock, StartWatcher, StartLoop,
       StartTrigger, Stopping, Stop, StopCancel, Looping, LoopToken, LoopExit, Recovery, Recover,
       RecoverWith, RecoverGiveUp, RecoverCancelLoop, RecoverWatcher, RecoverRestart,
       RecoverRefresh, Request, UserRefresh, SetRecipe, ProcessJoin, Process, ProcessBegin, BuildLoad, BuildFail,
       BuildDedup, BuildSeal, ProcessDiscard, ProcessCommit, CommitIf, ProcessNotify,
       Phase2, Phase2Done, Phase2Check, Phase2Notify, dataVars, vars
  <2> QED
    BY <2>1, <1>2, <1>5 DEF Aside
<1> QED
  BY <1>1, <1>3, <1>4, <1>5, NextCases

(* The worker implements LatestValue: what it shows is a version the       *)
(* source has had, it never goes back, and after Stop nothing is shown     *)
(* that was not shown before.                                              *)
THEOREM Refinement == Spec => KeepsPromise
<1>1. Spec => Init /\ [][Next]_vars
  BY DEF Spec
<1> QED
  BY <1>1, PromiseInit, PromiseStep, Inductive, PTL DEF KeepsPromise, Promise!Spec

-----------------------------------------------------------------------------
(* The worker with its user interface and the poll loop, for every number  *)
(* of chains, too.  UInv is a conjunction: the worker's part, which is     *)
(* that of a worker nobody stops or recovers; where each snapshot is on    *)
(* its way to the screen; and, as long as nothing happened that can damage *)
(* the delivery, that the messages arrive in the order of the snapshots    *)
(* and none is lost.                                                       *)

USE ChainAssumption

-----------------------------------------------------------------------------
(* Queues of messages.                                                     *)
Contents(q) == {q[i] : i \in 1..Len(q)}

\* The announced snapshots are in the order they were built.
Rising(q) == \A i, j \in 1..Len(q) :
                i < j /\ q[i].kind = "ready" /\ q[j].kind = "ready" => q[i].snap.id < q[j].snap.id

\* Every announced snapshot is newer than number x.
Beyond(q, x) == \A m \in Contents(q) : m.kind = "ready" => x < m.snap.id

Cheerful == {"restored", "verified"}
SomeLost(q) == \E m \in Contents(q) : m.kind = "lost"

\* Whatever says that the server answers is followed by the news that it does not.
Sobering(q) == \A i \in 1..Len(q) :
                  q[i].kind \in Cheerful => \E j \in 1..Len(q) : i < j /\ q[j].kind = "lost"

-----------------------------------------------------------------------------
(* The worker's part.                                                      *)
Calm == generation = 0 /\ recPc = "none" /\ stopPc = "none" /\ ~ctxDone /\ state # "stopped"

\* A Dolt source has no watcher, a file source no poll loop.
Sources ==
  /\ source \in {"file", "dolt"}
  /\ source = "dolt" => ~watcherOn /\ ~pendingEvt /\ ~changeCh
  /\ source = "file" => noticed = 0
  /\ noticed <= content
  /\ pollPc = "verified" => fails = 0

BringsAtLeast(q, v) ==
  \/ q.pc = "load"
  \/ q.pc \in {"dedup", "build"} /\ v <= q.hash
  \/ Sealed(q) /\ v <= q.snap.data

(* Tracked above, for the version v.                                       *)
TrackedTo(v) ==
  ~Wanted =>
    /\ \A p \in Proc : Builder(p) =>
          \/ BringsAtLeast(proc[p], v)
          \/ proc[p].pc = "commit" /\ proc[p].snap.id = 0 /\ (failed \/ v <= snapshot.data)
    /\ (\A p \in Proc : ~Builder(p)) => failed \/ v <= snapshot.data

Changes ==
  /\ source = "file" => Attended /\ Tracked
  /\ source = "dolt" => TrackedTo(noticed)

WInv == IInv /\ Calm /\ HashTracked /\ PollTypes /\ Sources /\ Changes

-----------------------------------------------------------------------------
(* The snapshots and their numbers.                                        *)

\* A published snapshot that is not announced yet.
Unsaid(q) == q.pc = "notify" /\ q.snap.id # 0

Ids ==
  /\ snapshot.id <= builds
  /\ snapshot.id = 0 => snapshot = NoSnapshot
  /\ \A p \in Proc :
       /\ proc[p].snap.id <= builds
       /\ Sealed(proc[p]) => snapshot.id < proc[p].snap.id
       /\ Unsaid(proc[p]) => /\ proc[p].snap.id <= snapshot.id
                             /\ proc[p].snap.id = snapshot.id => proc[p].snap = snapshot
       /\ proc[p].pc = "build" => proc[p].prev = snapshot.id
  /\ \A p, q \in Proc : Unsaid(proc[p]) /\ Unsaid(proc[q]) /\ proc[p].snap.id = proc[q].snap.id
                          => p = q

\* Snapshot s has been announced: with `shown' published and `ps' at work.
Past(s, shown, ps) ==
  /\ s \in Snapshot
  /\ s.id # 0 /\ s.id <= shown.id
  /\ s.id = shown.id => s = shown
  /\ \A p \in Proc : Unsaid(ps[p]) => ps[p].snap.id # s.id

\* Process p publishes its snapshot, or announces it.
Commits(p) ==
  /\ Sealed(proc[p]) /\ Unsaid(proc'[p]) /\ proc'[p].snap = proc[p].snap
  /\ snapshot' = proc[p].snap
  /\ \A q \in Proc \ {p} : proc'[q] = proc[q]
  /\ UNCHANGED <<builds, msgCh>>
Announces(p) ==
  /\ Unsaid(proc[p]) /\ ~Unsaid(proc'[p])
  /\ \A q \in Proc \ {p} : proc'[q] = proc[q]
  /\ UNCHANGED <<snapshot, builds>>
  /\ Send(Msg("ready", proc[p].snap))

\* Nobody does either; a message of another kind may be sent.
Neutral ==
  /\ UNCHANGED snapshot
  /\ \A p \in Proc : Unsaid(proc[p]) \/ Unsaid(proc'[p]) => proc'[p] = proc[p]
Chatter == msgCh' = msgCh \/ \E m \in Message : m.kind # "ready" /\ msgCh' = Push(msgCh, m)

MessageOrError == [kind : Kinds \cup {"error", "none"}, snap : Snapshot]
ChainTypes == chain \in [Chains -> [st : {"off", "wait", "msg"}, msg : MessageOrError]]

(* Whatever was announced was published, and the user sees one of those.   *)
Announced ==
  /\ ChainTypes
  /\ ui = NoSnapshot \/ Past(ui, snapshot, proc)
  /\ \A m \in Contents(msgCh) : m.kind = "ready" => Past(m.snap, snapshot, proc)
  /\ \A c \in Chains : Handles(c, {"ready"}) => Past(chain[c].msg.snap, snapshot, proc)

(* Phase 2 results are applied when there are some.                        *)
Applied ==
  /\ \A b \in phase2 : b.snap.id <= builds
  /\ AppliedOwn

InOrder == mishaps \cap {"overtaken", "secondChain"} = {}

(* With one chain and nothing overtaken the snapshots arrive in order, and *)
(* what is recycled is behind the one the user sees.                       *)
Orderly ==
  InOrder =>
    /\ \A c \in Chains \ {1} : chain[c] = Silent
    /\ Rising(msgCh)
    /\ Beyond(msgCh, ui.id)
    /\ Handles(1, {"ready"}) => ui.id < chain[1].msg.snap.id /\ Beyond(msgCh, chain[1].msg.snap.id)
    /\ \A x \in recycled : x \in Nat /\ x < ui.id

(* The snapshot published last is shown, or on its way.                    *)
Shipped ==
  mishaps = {} =>
    \/ ui = snapshot
    \/ \E p \in Proc : Unsaid(proc[p]) /\ proc[p].snap = snapshot
    \/ \E m \in Contents(msgCh) : m.kind = "ready" /\ m.snap = snapshot
    \/ Handles(1, {"ready"}) /\ chain[1].msg.snap = snapshot

(* While polls fail, the last thing the user will hear is that they do.    *)
Honest ==
  mishaps = {} /\ fails > 0 =>
    /\ Sobering(msgCh)
    /\ Handles(1, Cheerful) => SomeLost(msgCh)
    /\ connected => SomeLost(msgCh) \/ Handles(1, {"lost"})
-----------------------------------------------------------------------------
(* send() appends its message; a full channel loses the oldest one.        *)
LEMMA PushShape ==
  ASSUME NEW q \in Seq(Message), Len(q) <= ChanCap, NEW m \in Message
  PROVE  \E d \in {0, 1} :
           /\ d = 1 => Len(q) = ChanCap
           /\ Len(q) >= d /\ Len(Push(q, m)) = Len(q) + 1 - d
           /\ Push(q, m) \in Seq(Message)
           /\ Push(q, m)[Len(q) + 1 - d] = m
           /\ \A i \in 1..(Len(q) - d) : Push(q, m)[i] = q[i + d]
<1>1. CASE Len(q) < ChanCap
  <2>1. Push(q, m) = Append(q, m)
    BY <1>1 DEF Push
  <2>2. /\ Len(Push(q, m)) = Len(q) + 1 /\ Push(q, m)[Len(q) + 1] = m /\ Push(q, m) \in Seq(Message)
        /\ \A i \in 1..Len(q) : Push(q, m)[i] = q[i]
    BY <2>1
  <2>3. WITNESS 0 \in {0, 1}
  <2> QED
    BY <2>2
<1>2. CASE ~(Len(q) < ChanCap)
  <2>0. Len(q) \in Nat /\ Len(q) = ChanCap /\ q # <<>>
    BY <1>2
  <2>1. Push(q, m) = Append(Tail(q), m)
    BY <1>2 DEF Push
  <2>2. /\ Tail(q) \in Seq(Message) /\ Len(Tail(q)) = Len(q) - 1
        /\ \A i \in 1..(Len(q) - 1) : Tail(q)[i] = q[i + 1]
    BY <2>0
  <2>3. /\ Len(Push(q, m)) = Len(q) /\ Push(q, m)[Len(q)] = m /\ Push(q, m) \in Seq(Message)
        /\ \A i \in 1..(Len(q) - 1) : Push(q, m)[i] = Tail(q)[i]
    BY <2>0, <2>1, <2>2
  <2>4. WITNESS 1 \in {0, 1}
  <2> QED
    BY <2>0, <2>2, <2>3
<1> QED
  BY <1>1, <1>2

LEMMA PushContents ==
  ASSUME NEW q \in Seq(Message), Len(q) <= ChanCap, NEW m \in Message
  PROVE  /\ m \in Contents(Push(q, m))
         /\ Contents(Push(q, m)) \subseteq Contents(q) \cup {m}
         /\ Len(q) < ChanCap => Contents(q) \subseteq Contents(Push(q, m))
<1> DEFINE r == Push(q, m)
<1>1. PICK d \in {0, 1} :
        /\ d = 1 => Len(q) = ChanCap
        /\ Len(q) >= d /\ Len(r) = Len(q) + 1 - d
        /\ r[Len(q) + 1 - d] = m
        /\ \A i \in 1..(Len(q) - d) : r[i] = q[i + d]
  BY PushShape
<1> HIDE DEF r
<1>2. Len(q) \in Nat
  OBVIOUS
<1>3. m \in Contents(r)
  BY <1>1, <1>2 DEF Contents
<1>4. ASSUME NEW i \in 1..Len(r) PROVE r[i] \in Contents(q) \cup {m}
  <2>1. CASE i = Len(q) + 1 - d
    BY <1>1, <2>1
  <2>2. CASE i # Len(q) + 1 - d
    <3>1. i \in 1..(Len(q) - d) /\ i + d \in 1..Len(q)
      BY <1>1, <1>2, <2>2
    <3> QED
      BY <3>1, <1>1 DEF Contents
  <2> QED
    BY <2>1, <2>2
<1>5. ASSUME Len(q) < ChanCap, NEW i \in 1..Len(q) PROVE q[i] \in Contents(r)
  <2>1. d = 0
    BY <1>1, <1>2, <1>5
  <2> QED
    BY <2>1, <1>1, <1>2 DEF Contents
<1> QED
  BY <1>3, <1>4, <1>5 DEF Contents, r

LEMMA PushQueue ==
  ASSUME NEW q \in Seq(Message), Len(q) <= ChanCap, NEW m \in Message
  PROVE  /\ Rising(q) /\ (m.kind = "ready" =>
                             \A n \in Contents(q) : n.kind = "ready" => n.snap.id < m.snap.id)
              => Rising(Push(q, m))
         /\ m.kind = "lost" => Sobering(Push(q, m)) /\ SomeLost(Push(q, m))
         /\ Len(q) < ChanCap /\ Sobering(q) /\ m.kind \notin Cheerful => Sobering(Push(q, m))
<1> DEFINE r == Push(q, m)
<1>1. PICK d \in {0, 1} :
        /\ d = 1 => Len(q) = ChanCap
        /\ Len(q) >= d /\ Len(r) = Len(q) + 1 - d
        /\ r[Len(q) + 1 - d] = m
        /\ \A i \in 1..(Len(q) - d) : r[i] = q[i + d]
  BY PushShape, SMTT(30)
<1>c. m \in Contents(r)
  BY PushContents
<1> HIDE DEF r
<1>2. Len(q) \in Nat
  OBVIOUS
<1>3. ASSUME NEW i \in 1..Len(r), i # Len(r)
      PROVE  i + d \in 1..Len(q) /\ r[i] = q[i + d]
  BY <1>1, <1>2, <1>3
<1>4. r[Len(r)] = m /\ Len(r) \in Nat /\ Len(r) >= 1
  BY <1>1, <1>2
<1>5. ASSUME Rising(q),
             m.kind = "ready" => \A n \in Contents(q) : n.kind = "ready" => n.snap.id < m.snap.id,
             NEW i \in 1..Len(r), NEW j \in 1..Len(r), i < j, r[i].kind = "ready", r[j].kind = "ready"
      PROVE  r[i].snap.id < r[j].snap.id
  <2>1. i # Len(r)
    BY <1>5, <1>4
  <2>2. i + d \in 1..Len(q) /\ r[i] = q[i + d]
    BY <1>3, <2>1
  <2>3. CASE j = Len(r)
    <3>1. q[i + d] \in Contents(q)
      BY <2>2 DEF Contents
    <3> QED
      BY <3>1, <2>2, <2>3, <1>4, <1>5
  <2>4. CASE j # Len(r)
    <3>1. j + d \in 1..Len(q) /\ r[j] = q[j + d]
      BY <1>3, <2>4
    <3>2. i + d < j + d
      BY <1>5
    <3> QED
      BY <2>2, <3>1, <3>2, <1>5 DEF Rising
  <2> QED
    BY <2>3, <2>4
<1>6. ASSUME m.kind = "lost" PROVE Sobering(r) /\ SomeLost(r)
  <2>1. SomeLost(r)
    BY <1>6, <1>c DEF SomeLost
  <2>2. ASSUME NEW i \in 1..Len(r), r[i].kind \in Cheerful
        PROVE  \E j \in 1..Len(r) : i < j /\ r[j].kind = "lost"
    <3>1. i # Len(r)
      BY <2>2, <1>4, <1>6 DEF Cheerful
    <3>2. Len(r) \in 1..Len(r) /\ i < Len(r)
      BY <1>4, <3>1
    <3> QED
      BY <3>2, <1>4, <1>6
  <2> QED
    BY <2>1, <2>2 DEF Sobering
<1>7. ASSUME Len(q) < ChanCap, Sobering(q), m.kind \notin Cheerful,
             NEW i \in 1..Len(r), r[i].kind \in Cheerful
      PROVE  \E j \in 1..Len(r) : i < j /\ r[j].kind = "lost"
  <2>1. d = 0
    BY <1>1, <1>2, <1>7
  <2>2. i # Len(r)
    BY <1>7, <1>4
  <2>3. i \in 1..Len(q) /\ q[i].kind \in Cheerful
    BY <1>3, <1>7, <2>1, <2>2
  <2>4. PICK j \in 1..Len(q) : i < j /\ q[j].kind = "lost"
    BY <2>3, <1>7 DEF Sobering
  <2>5. j \in 1..Len(r) /\ r[j] = q[j]
    BY <2>1, <1>1, <1>2
  <2> QED
    BY <2>4, <2>5
<1> QED
  BY <1>5, <1>6, <1>7 DEF Rising, Sobering, r

LEMMA TailQueue ==
  ASSUME NEW q \in Seq(Message), q # <<>>
  PROVE  /\ Tail(q) \in Seq(Message) /\ Len(Tail(q)) <= Len(q) /\ Head(q) \in Message
         /\ Contents(q) = Contents(Tail(q)) \cup {Head(q)}
         /\ Rising(q) => Rising(Tail(q)) /\ (Head(q).kind = "ready" => Beyond(Tail(q), Head(q).snap.id))
         /\ Sobering(q) => Sobering(Tail(q)) /\ (Head(q).kind \in Cheerful => SomeLost(Tail(q)))
<1> DEFINE r == Tail(q)
<1>1. /\ r \in Seq(Message) /\ Len(r) = Len(q) - 1 /\ Len(q) \in Nat /\ Len(q) >= 1
      /\ \A i \in 1..Len(r) : r[i] = q[i + 1]
      /\ Head(q) = q[1] /\ Head(q) \in Message
  OBVIOUS
<1> HIDE DEF r
<1>2. Contents(q) = Contents(r) \cup {Head(q)}
  <2>1. ASSUME NEW i \in 1..Len(q) PROVE q[i] \in Contents(r) \cup {Head(q)}
    <3>1. CASE i = 1
      BY <3>1, <1>1
    <3>2. CASE i # 1
      <4>1. i - 1 \in 1..Len(r) /\ r[i - 1] = q[i]
        BY <3>2, <1>1
      <4> QED
        BY <4>1 DEF Contents
    <3> QED
      BY <3>1, <3>2
  <2>2. ASSUME NEW i \in 1..Len(r) PROVE r[i] \in Contents(q)
    BY <1>1 DEF Contents
  <2>3. Head(q) \in Contents(q)
    BY <1>1 DEF Contents
  <2> QED
    BY <2>1, <2>2, <2>3 DEF Contents
<1>3. ASSUME Rising(q) PROVE Rising(r) /\ (Head(q).kind = "ready" => Beyond(r, Head(q).snap.id))
  <2>1. Rising(r)
    <3>1. ASSUME NEW i \in 1..Len(r), NEW j \in 1..Len(r), i < j, r[i].kind = "ready", r[j].kind = "ready"
          PROVE  r[i].snap.id < r[j].snap.id
      <4>1. i + 1 \in 1..Len(q) /\ j + 1 \in 1..Len(q) /\ i + 1 < j + 1
        BY <1>1, <3>1
      <4> QED
        BY <4>1, <3>1, <1>1, <1>3 DEF Rising
    <3> QED
      BY <3>1 DEF Rising
  <2>2. ASSUME Head(q).kind = "ready", NEW i \in 1..Len(r), r[i].kind = "ready"
        PROVE  Head(q).snap.id < r[i].snap.id
    <3>1. i + 1 \in 1..Len(q) /\ 1 \in 1..Len(q) /\ 1 < i + 1
      BY <1>1
    <3> QED
      BY <3>1, <2>2, <1>1, <1>3 DEF Rising
  <2> QED
    BY <2>1, <2>2 DEF Beyond, Contents
<1>4. ASSUME Sobering(q) PROVE Sobering(r) /\ (Head(q).kind \in Cheerful => SomeLost(r))
  <2>1. ASSUME NEW i \in 1..Len(r), r[i].kind \in Cheerful
        PROVE  \E j \in 1..Len(r) : i < j /\ r[j].kind = "lost"
    <3>1. i + 1 \in 1..Len(q) /\ q[i + 1].kind \in Cheerful
      BY <2>1, <1>1
    <3>2. PICK j \in 1..Len(q) : i + 1 < j /\ q[j].kind = "lost"
      BY <3>1, <1>4 DEF Sobering
    <3>3. j - 1 \in 1..Len(r) /\ i < j - 1 /\ r[j - 1] = q[j]
      BY <3>2, <1>1
    <3> QED
      BY <3>2, <3>3
  <2>2. ASSUME Head(q).kind \in Cheerful PROVE SomeLost(r)
    <3>1. PICK j \in 1..Len(q) : 1 < j /\ q[j].kind = "lost"
      BY <2>2, <1>1, <1>4 DEF Sobering
    <3>2. j - 1 \in 1..Len(r) /\ r[j - 1] = q[j]
      BY <3>1, <1>1
    <3> QED
      BY <3>1, <3>2 DEF SomeLost, Contents
  <2> QED
    BY <2>1, <2>2 DEF Sobering
<1> QED
  BY <1>1, <1>2, <1>3, <1>4 DEF r
-----------------------------------------------------------------------------
(* The steps, as the worker sees them: those every worker of a session     *)
(* takes, those of its file source, those of the poll loop that touch it,  *)
(* and the rest, which only move messages.                                 *)
CommonMove == (CommonStep \/ UserRefresh) /\ UNCHANGED <<source, pollVars>>
FileMove == /\ source = "file" /\ (WatcherNotify \/ StartWatcher \/ StartLoop \/ Looping)
            /\ UNCHANGED <<source, pollVars>>
DoltMove == source = "dolt" /\ (DoltStart \/ PollChanged) /\ source' = source
ChannelOnly ==
  /\ UNCHANGED <<dataVars, requestVars, hashVars, buildVars, loopVars, watcherVars, lifeVars,
                 stimuli, source, noticed>>
  /\ msgCh' \in Seq(Message) /\ Len(msgCh') <= ChanCap
  /\ faults' \in 0..MaxFaults

LEMMA UICases ==
  ASSUME TypeOK, [UINext]_allVars
  PROVE  CommonMove \/ FileMove \/ DoltMove \/ ChannelOnly
<1>t. /\ msgCh \in Seq(Message) /\ Len(msgCh) <= ChanCap /\ faults \in 0..MaxFaults
      /\ NoSnapshot \in Snapshot
  BY NoSnapshotType DEF TypeOK, ChannelTypes, RequestTypes
<1>u. ASSUME UNCHANGED <<vars, pollVars, source>> PROVE ChannelOnly
  BY <1>u, <1>t DEF ChannelOnly, vars, pollVars, boundVars
<1>1. CASE WorkerStep
  <2>1. CASE (CommonStep \/ FileStep) /\ UNCHANGED pollVars
    BY <1>1, <2>1 DEF WorkerStep, CommonMove, FileMove, FileStep
  <2>2. CASE DoltStep
    <3>1. source = "dolt" /\ source' = source
      BY <1>1, <2>2 DEF WorkerStep, DoltStep
    <3>2. CASE DoltStart \/ PollChanged
      BY <3>1, <3>2 DEF DoltMove
    <3>3. CASE ServerFails
      BY <3>1, <3>3, <1>t DEF ServerFails, ChannelOnly
    <3>4. CASE ServerReturns \/ PollBaseline \/ PollSame
      BY <3>1, <3>4, <1>t DEF ServerReturns, PollBaseline, PollSame, ChannelOnly, vars, boundVars
    <3>5. CASE PollFails
      <4>1. (\E k : Send(Msg(k, NoSnapshot))) \/ UNCHANGED msgCh
        BY <3>5 DEF PollFails, PollFailsNotifyingAt
      <4>2. msgCh' \in Seq(Message) /\ Len(msgCh') <= ChanCap
        BY <4>1, <1>t, SendType
      <4> QED
        BY <3>1, <3>5, <4>2, <1>t DEF PollFails, PollFailsNotifyingAt, ChannelOnly, boundVars
    <3>6. CASE PollRestored \/ PollVerified
      <4>1. \E k : Send(Msg(k, NoSnapshot))
        BY <3>6 DEF PollRestored, PollVerified
      <4>2. msgCh' \in Seq(Message) /\ Len(msgCh') <= ChanCap
        BY <4>1, <1>t, SendType
      <4> QED
        BY <3>1, <3>6, <4>2, <1>t DEF PollRestored, PollVerified, ChannelOnly, boundVars
    <3> QED
      BY <2>2, <3>2, <3>3, <3>4, <3>5, <3>6 DEF DoltStep, Poll
  <2> QED
    BY <1>1, <2>1, <2>2 DEF WorkerStep
<1>2. ASSUME NEW c \in Chains, Receive(c) PROVE ChannelOnly
  <2>1. Tail(msgCh) \in Seq(Message) /\ Len(Tail(msgCh)) <= ChanCap
    BY <1>2, <1>t, TailQueue DEF Receive
  <2> QED
    BY <1>2, <2>1, <1>t DEF Receive, ChannelOnly, boundVars, pollVars
<1>3. ASSUME NEW c \in Chains, \/ HandleOther(c) \/ HandleConnection(c) \/ HandleReady(c)
                               \/ HandlePhase2Update(c)
      PROVE  ChannelOnly
  BY <1>3, <1>u DEF HandleOther, HandleConnection, HandleReady, HandlePhase2Update
<1>4. ASSUME NEW c \in Chains, ForceRefreshKey(c) PROVE CommonMove
  BY <1>4 DEF ForceRefreshKey, CommonMove
<1>5. ASSUME NEW c \in Chains, StartStep(c) PROVE FileMove
  BY <1>5 DEF StartStep, FileMove
<1>6. ASSUME NEW x \in awaiting, HandlePhase2Ready(x) PROVE ChannelOnly
  BY <1>6, <1>u DEF HandlePhase2Ready
<1>7. CASE ToggleModal \/ UNCHANGED allVars
  BY <1>7, <1>u DEF ToggleModal, allVars, uiVars
<1> QED
  BY <1>1, <1>2, <1>3, <1>4, <1>5, <1>6, <1>7 DEF UINext, UIStep

LEMMA MovesAreNext ==
  ASSUME CommonMove \/ FileMove
  PROVE  Next
BY DEF CommonMove, FileMove, CommonStep, Next, Source, Starting, Request

-----------------------------------------------------------------------------
(* The invariant of the worker, through the steps that are not its own.    *)
LEMMA CalmNext == TypeOK /\ Calm /\ [UINext]_allVars => Calm'
<1> SUFFICES ASSUME TypeOK, Calm, [UINext]_allVars PROVE Calm'
  OBVIOUS
<1> USE DEF Calm, dataVars, requestVars, startVars, stopVars, recVars, lifeVars
<1>1. CASE CommonMove
  <2>1. CASE FileChange \/ StartLock \/ StartTrigger \/ ProcessJoin
    BY <2>1 DEF FileChange, StartLock, StartTrigger, ProcessJoin, TriggerRefresh, RequestProcess
  <2>2. ASSUME NEW p \in Proc, Process(p) PROVE Calm'
    BY <2>2 DEF Process, ProcessBegin, BuildLoad, BuildFail, BuildDedup, BuildSeal,
       ProcessDiscard, ProcessCommit, CommitIf, ProcessNotify
  <2>3. CASE Phase2
    BY <2>3 DEF Phase2, Phase2Done, Phase2Check, Phase2Notify
  <2>4. CASE UserRefresh \/ \E r \in Recipes : SetRecipe(r)
    BY <2>4 DEF UserRefresh, SetRecipe, ForceRefresh, RequestProcess
  <2> QED
    BY <1>1, <2>1, <2>2, <2>3, <2>4 DEF CommonMove, CommonStep
<1>2. CASE FileMove
  BY <1>2 DEF FileMove, WatcherNotify, StartWatcher, StartLoop, Looping, LoopToken, LoopExit,
     TriggerRefresh, RequestProcess
<1>3. CASE DoltMove
  BY <1>3 DEF DoltMove, DoltStart, PollChanged, TriggerRefresh, RequestProcess
<1>4. CASE ChannelOnly
  BY <1>4 DEF ChannelOnly
<1> QED
  BY <1>1, <1>2, <1>3, <1>4, UICases

LEMMA WorkerNext == IInv /\ Calm /\ [UINext]_allVars => IInv'
<1> SUFFICES ASSUME IInv, Calm, [UINext]_allVars PROVE IInv'
  OBVIOUS
<1>i. TypeOK /\ Control /\ Loopless /\ LoopOwned /\ Builders /\ Ordered
  BY DEF IInv
<1>1. CASE CommonMove \/ FileMove
  BY <1>1, MovesAreNext, ControlNext, DataNext, RequestNext, LifeNext, FlagNext, ChannelNext,
     LooplessNext, LoopOwnedNext, BuildersNext, OrderedNext DEF IInv, TypeOK
\* What the loops, the builders and the data see of the other steps.
<1>a. ASSUME UNCHANGED <<dataVars, lastHash, builds, phase2, proc, state>>
      PROVE  DataTypes' /\ Builders' /\ Ordered'
  <2>1. DataTypes'
    BY <1>a, <1>i DEF TypeOK, DataTypes, dataVars
  <2>2. Builders'
    BY <1>a, <1>i DEF Builders, SingleBuilder, NoFutureProc, Builder, Current, dataVars
  <2>3. Ordered'
    BY <1>a, <1>i DEF Ordered, Current, dataVars
  <2> QED
    BY <2>1, <2>2, <2>3
<1>2. CASE DoltMove /\ DoltStart
  <2>1. /\ startPc = "watcher" /\ startPc' = "trigger"
        /\ loop' = [loop EXCEPT ![1] = "live"] /\ loopCancel' = 1
        /\ UNCHANGED <<dataVars, requestVars, hashVars, buildVars, watcherVars, msgCh, started,
                       stopVars, recVars, boundVars>>
    BY <1>2 DEF DoltStart, startLoop, NextLoop, Calm
  <2>2. 1 \in Loops
    BY DEF Loops
  <2>3. DataTypes' /\ Builders' /\ Ordered'
    BY <2>1, <1>a DEF hashVars, buildVars, requestVars
  <2>4. RequestTypes' /\ ChannelTypes' /\ LifeTypes'
    BY <2>1, <2>2, <1>i DEF TypeOK, RequestTypes, ChannelTypes, LifeTypes, requestVars, boundVars,
       stopVars, recVars
  <2>5. FlagTypes'
    BY <2>1, <1>i, Zenon DEF TypeOK, FlagTypes, dataVars, requestVars, hashVars, watcherVars,
       stopVars, recVars
  <2>6. Control' /\ Loopless'
    BY <2>1, <1>i DEF Calm, Control, Loopless, dataVars, requestVars, recVars
  <2>7. LoopOwned'
    BY <2>1, <1>i DEF Loopless, LoopOwned, TypeOK, LifeTypes
  <2> QED
    BY <2>3, <2>4, <2>5, <2>6, <2>7 DEF IInv, TypeOK
<1>3. CASE DoltMove /\ PollChanged
  <2>1. /\ RequestProcess
        /\ UNCHANGED <<dataVars, hashVars, buildVars, loopVars, watcherVars, msgCh, lifeVars,
                       boundVars>>
    BY <1>3 DEF PollChanged, TriggerRefresh
  <2>2. state' = state /\ (dirty' = dirty \/ dirty' = TRUE) /\ spawned' \in Nat
    BY <2>1, <1>i DEF RequestProcess, requestVars, TypeOK, RequestTypes
  <2>3. DataTypes' /\ Builders' /\ Ordered'
    BY <2>1, <2>2, <1>a DEF hashVars, buildVars
  <2>4. RequestTypes' /\ ChannelTypes' /\ LifeTypes'
    BY <2>1, <2>2, <1>i DEF TypeOK, RequestTypes, ChannelTypes, LifeTypes, boundVars, loopVars,
       lifeVars, startVars, stopVars, recVars
  <2>5. FlagTypes'
    BY <2>1, <2>2, <1>i, Zenon DEF TypeOK, FlagTypes, dataVars, hashVars, watcherVars,
       lifeVars, startVars, stopVars, recVars
  <2>6. Control' /\ Loopless' /\ LoopOwned'
    BY <2>1, <2>2, <1>i DEF Control, Loopless, LoopOwned, dataVars, loopVars, lifeVars,
       startVars, stopVars, recVars
  <2> QED
    BY <2>3, <2>4, <2>5, <2>6 DEF IInv, TypeOK
<1>4. CASE ChannelOnly
  <2>1. UNCHANGED <<dataVars, requestVars, hashVars, buildVars, loopVars, watcherVars, lifeVars,
                    stimuli>>
    BY <1>4 DEF ChannelOnly
  <2>3. DataTypes' /\ Builders' /\ Ordered'
    BY <2>1, <1>a DEF hashVars, buildVars, requestVars
  <2>4. RequestTypes' /\ ChannelTypes' /\ LifeTypes'
    BY <1>4, <2>1, <1>i DEF ChannelOnly, TypeOK, RequestTypes, ChannelTypes, LifeTypes, requestVars,
       loopVars, lifeVars, startVars, stopVars, recVars
  <2>5. FlagTypes'
    BY <2>1, <1>i, Zenon DEF TypeOK, FlagTypes, dataVars, requestVars, hashVars, watcherVars,
       lifeVars, startVars, stopVars, recVars
  <2>6. Control' /\ Loopless' /\ LoopOwned'
    BY <2>1, <1>i DEF Control, Loopless, LoopOwned, dataVars, requestVars, loopVars, lifeVars,
       startVars, stopVars, recVars
  <2> QED
    BY <2>3, <2>4, <2>5, <2>6 DEF IInv, TypeOK
<1> QED
  BY <1>1, <1>2, <1>3, <1>4, <1>i, UICases DEF DoltMove

LEMMA UIHashNext ==
  TypeOK /\ Builders /\ HashTracked /\ [UINext]_allVars => HashTracked'
<1> SUFFICES ASSUME TypeOK, Builders, HashTracked, [UINext]_allVars PROVE HashTracked'
  OBVIOUS
<1>1. CASE CommonMove \/ FileMove
  BY <1>1, MovesAreNext, HashTrackedNext
<1>2. CASE DoltMove \/ ChannelOnly
  <2>1. UNCHANGED <<generation, lastHash, snapshot, proc, state>>
    BY <1>2 DEF DoltMove, DoltStart, PollChanged, TriggerRefresh, RequestProcess, ChannelOnly,
       dataVars, hashVars, buildVars, requestVars
  <2> QED
    BY <2>1 DEF HashTracked, Sealed
<1> QED
  BY <1>1, <1>2, UICases

(* The poll loop keeps its books.                                          *)
LEMMA PollNext ==
  TypeOK /\ PollTypes /\ Sources /\ [UINext]_allVars => PollTypes' /\ Sources'
<1> SUFFICES ASSUME TypeOK, PollTypes, Sources, [UINext]_allVars PROVE PollTypes' /\ Sources'
  OBVIOUS
<1>t. content \in Nat /\ content \in Versions
  BY DEF TypeOK, DataTypes, Versions
<1>1. PollTypes' /\ (pollPc' = "verified" => fails' = 0)
  <2> USE DEF PollTypes, Sources
  <2>u. ASSUME UNCHANGED pollVars PROVE PollTypes' /\ (pollPc' = "verified" => fails' = 0)
    <3>1. UNCHANGED <<serverUp, firstPoll>> /\ UNCHANGED <<pollPc, lastModified, noticed, fails>>
      BY <2>u DEF pollVars
    <3> QED
      BY <3>1
  <2>b. ASSUME serverUp' \in BOOLEAN, firstPoll' \in BOOLEAN,
               pollPc' \in {"off", "tick", "restored", "verified"},
               lastModified' \in Versions, noticed' \in Versions, fails' \in 0..ManyFails,
               pollPc' = "verified" => fails' = 0
        PROVE  PollTypes' /\ (pollPc' = "verified" => fails' = 0)
    BY <2>b
  <2>1. CASE WorkerStep /\ DoltStep
    <3>1. CASE DoltStart \/ ServerFails \/ ServerReturns
      <4>1. serverUp' \in BOOLEAN /\ firstPoll' \in BOOLEAN
        BY <3>1, Zenon DEF DoltStart, ServerFails, ServerReturns
      <4>2. pollPc' \in {pollPc, "tick"} /\ UNCHANGED <<lastModified, noticed, fails>>
        BY <3>1, Zenon DEF DoltStart, ServerFails, ServerReturns
      <4> QED
        BY <4>1, <4>2, <2>b
    <3>2. CASE PollBaseline \/ PollSame \/ PollChanged
      <4>1. serverUp' \in BOOLEAN /\ firstPoll' \in BOOLEAN
        BY <3>2, Zenon DEF PollBaseline, PollSame, PollChanged
      <4>2. pollPc' = Report /\ lastModified' \in {lastModified, content}
            /\ noticed' \in {noticed, content} /\ fails' = fails
        BY <3>2, Zenon DEF PollBaseline, PollSame, PollChanged
      <4>3. pollPc' \in {"restored", "verified"} /\ (pollPc' = "verified" => fails = 0)
        BY <4>2 DEF Report
      <4> QED
        BY <4>1, <4>2, <4>3, <1>t, <2>b
    <3>3. CASE PollFails
      <4>1. serverUp' \in BOOLEAN /\ firstPoll' \in BOOLEAN
        BY <3>3, Zenon DEF PollFails, PollFailsNotifyingAt
      <4>2. pollPc = "tick" /\ UNCHANGED <<pollPc, lastModified, noticed>>
        BY <3>3 DEF PollFails, PollFailsNotifyingAt
      <4>3. fails' \in 0..ManyFails
        BY <3>3 DEF PollFails, PollFailsNotifyingAt, ManyFails, ReconnectAfter
      <4> QED
        BY <4>1, <4>2, <4>3, <2>b
    <3>4. CASE PollRestored \/ PollVerified
      <4>1. serverUp' \in BOOLEAN /\ firstPoll' \in BOOLEAN
        BY <3>4, Zenon DEF PollRestored, PollVerified
      <4>2. /\ UNCHANGED <<lastModified, noticed>>
            /\ (pollPc' = "verified" /\ fails' = 0) \/ (pollPc' = "tick" /\ fails' = fails)
        BY <3>4, Zenon DEF PollRestored, PollVerified
      <4>3. fails' \in 0..ManyFails /\ pollPc' \in {"tick", "verified"}
        BY <4>2 DEF ManyFails, ReconnectAfter
      <4> QED
        BY <4>1, <4>2, <4>3, <2>b
    <3> QED
      BY <2>1, <3>1, <3>2, <3>3, <3>4 DEF DoltStep, Poll
  <2>2. CASE ~(WorkerStep /\ DoltStep)
    <3>1. UNCHANGED pollVars
      BY <2>2 DEF UINext, WorkerStep, UIStep, Receive, HandleOther, HandleConnection, HandleReady,
         HandlePhase2Update, HandlePhase2Ready, ForceRefreshKey, StartStep, ToggleModal, allVars
    <3> QED
      BY <3>1, <2>u
  <2> QED
    BY <2>1, <2>2
<1>2. Sources'
  <2> USE DEF Sources
  <2>1. CASE CommonMove
    <3>1. source' = source /\ noticed' = noticed
      BY <2>1 DEF CommonMove, pollVars
    <3>2. content' = content \/ content' = content + 1
      <4>1. CASE FileChange
        BY <4>1 DEF FileChange
      <4>2. CASE StartLock \/ StartTrigger \/ ProcessJoin \/ UserRefresh
        BY <4>2 DEF StartLock, StartTrigger, ProcessJoin, UserRefresh, dataVars
      <4>3. ASSUME NEW p \in Proc, Process(p) PROVE content' = content
        BY <4>3 DEF Process, ProcessBegin, BuildLoad, BuildFail, BuildDedup, BuildSeal,
           ProcessDiscard, ProcessCommit, CommitIf, ProcessNotify, dataVars
      <4>4. CASE Phase2 \/ \E r \in Recipes : SetRecipe(r)
        BY <4>4 DEF Phase2, Phase2Done, Phase2Check, Phase2Notify, SetRecipe, dataVars
      <4> QED
        BY <2>1, <4>1, <4>2, <4>3, <4>4 DEF CommonMove, CommonStep
    <3>3. UNCHANGED <<watcherOn, changeCh>> /\ pendingEvt' \in {pendingEvt, watcherOn}
      BY <2>1 DEF CommonMove, CommonStep, FileChange, StartLock, StartTrigger, ProcessJoin,
         Process, ProcessBegin,
         BuildLoad, BuildFail, BuildDedup, BuildSeal, ProcessDiscard, ProcessCommit, CommitIf,
         ProcessNotify, Phase2, Phase2Done, Phase2Check, Phase2Notify, UserRefresh, SetRecipe, watcherVars
    <3>4. noticed' <= content'
      <4>1. noticed \in Nat
        BY DEF PollTypes, Versions
      <4> QED
        BY <4>1, <3>1, <3>2, <1>t
    <3> QED
      BY <3>1, <3>3, <3>4, <1>1
  <2>2. CASE FileMove
    <3>1. source' = source /\ source = "file" /\ noticed' = noticed /\ content' = content
      BY <2>2 DEF FileMove, pollVars, WatcherNotify, StartWatcher, StartLoop, Looping, LoopToken,
         LoopExit, dataVars
    <3> QED
      BY <3>1, <1>1
  <2>3. CASE DoltMove
    <3>1. source' = source /\ source = "dolt" /\ noticed' \in {noticed, content} /\ content' = content
          /\ UNCHANGED <<watcherOn, pendingEvt, changeCh>>
      BY <2>3 DEF DoltMove, DoltStart, PollChanged, dataVars, watcherVars
    <3> QED
      BY <3>1, <1>1, <1>t
  <2>4. CASE ChannelOnly
    <3>1. source' = source /\ noticed' = noticed /\ content' = content
          /\ UNCHANGED <<watcherOn, pendingEvt, changeCh>>
      BY <2>4 DEF ChannelOnly, dataVars, watcherVars
    <3> QED
      BY <3>1, <1>1
  <2> QED
    BY <2>1, <2>2, <2>3, <2>4, UICases
<1> QED
  BY <1>1, <1>2
-----------------------------------------------------------------------------
(* The version v is not lost: the steps of a worker without a watcher.     *)
LEMMA TrackedToNext ==
  ASSUME TypeOK, Builders, HashTracked, Calm, ~watcherOn, ~pendingEvt, ~changeCh,
         NEW v \in Nat, v <= content, TrackedTo(v), CommonMove
  PROVE  TrackedTo(v)'
<1> SUFFICES ASSUME ~Wanted'
             PROVE  /\ \A p \in Proc : Builder(p)' =>
                         \/ BringsAtLeast(proc'[p], v)
                         \/ /\ proc'[p].pc = "commit" /\ proc'[p].snap.id = 0
                            /\ failed' \/ v <= snapshot'.data
                    /\ (\A p \in Proc : ~Builder(p)') => failed' \/ v <= snapshot'.data
  BY DEF TrackedTo, BringsAtLeast, Sealed
<1>t. /\ generation = 0 /\ state # "stopped"
      /\ proc \in [Proc -> ProcRecord] /\ builds \in Nat /\ spawned \in Nat
      /\ state \in {"idle", "processing", "stopped"} /\ content \in Nat /\ lastHash \in Nat
      /\ snapshot.data \in Nat
      /\ \A p \in Proc : proc[p].hash \in Nat /\ proc[p].snap.data \in Nat
  BY DEF Calm, TypeOK, DataTypes, RequestTypes, ProcRecord, Snapshot, Versions
<1>u. ASSUME UNCHANGED <<proc, snapshot, failed, spawned, state, dirty, changeCh>>, ~pendingEvt'
      PROVE  /\ \A p \in Proc : Builder(p)' =>
                  \/ BringsAtLeast(proc'[p], v)
                  \/ /\ proc'[p].pc = "commit" /\ proc'[p].snap.id = 0
                     /\ failed' \/ v <= snapshot'.data
             /\ (\A p \in Proc : ~Builder(p)') => failed' \/ v <= snapshot'.data
  <2>1. ~Wanted
    BY <1>u DEF Wanted
  <2> QED
    BY <2>1, <1>u DEF TrackedTo, Builder
<1>1. CASE FileChange \/ StartLock \/ Phase2
  BY <1>1, <1>u DEF FileChange, StartLock, Phase2, Phase2Done, Phase2Check, Phase2Notify, dataVars,
     requestVars, buildVars, watcherVars
<1>2. CASE StartTrigger \/ UserRefresh \/ \E r \in Recipes : SetRecipe(r)
  <2>1. RequestProcess
    BY <1>2 DEF StartTrigger, TriggerRefresh, UserRefresh, SetRecipe, ForceRefresh
  <2> QED
    BY <2>1, <1>t DEF RequestProcess, Wanted
<1>3. CASE ProcessJoin
  BY <1>3, <1>t DEF ProcessJoin, Wanted
<1>4. ASSUME NEW p \in Proc, Process(p)
      PROVE  /\ \A q \in Proc : Builder(q)' =>
                  \/ BringsAtLeast(proc'[q], v)
                  \/ /\ proc'[q].pc = "commit" /\ proc'[q].snap.id = 0
                     /\ failed' \/ v <= snapshot'.data
             /\ (\A q \in Proc : ~Builder(q)') => failed' \/ v <= snapshot'.data
  <2>0. /\ content' = content /\ pendingEvt' = pendingEvt /\ changeCh' = changeCh
        /\ \A q \in Proc \ {p} : proc'[q] = proc[q]
    BY <1>4, <1>t DEF Process, ProcessBegin, BuildLoad, BuildFail, BuildDedup, BuildSeal,
       ProcessDiscard, ProcessCommit, CommitIf, ProcessNotify, dataVars, watcherVars
  <2>a. /\ \A q \in Proc : Builder(q) => Current(q)
        /\ \A q, r \in Proc : Builder(q) /\ Builder(r) => q = r
        /\ state = "idle" => \A q \in Proc : ~Builder(q)
    BY <1>t, OneAtFirst
  <2>b. ASSUME Builder(p) \/ state = "idle", Builder(p)',
               \/ BringsAtLeast(proc'[p], v)
               \/ proc'[p].pc = "commit" /\ proc'[p].snap.id = 0 /\ (failed' \/ v <= snapshot'.data)
        PROVE  /\ \A q \in Proc : Builder(q)' =>
                    \/ BringsAtLeast(proc'[q], v)
                    \/ /\ proc'[q].pc = "commit" /\ proc'[q].snap.id = 0
                       /\ failed' \/ v <= snapshot'.data
               /\ (\A q \in Proc : ~Builder(q)') => failed' \/ v <= snapshot'.data
    <3>1. \A q \in Proc \ {p} : ~Builder(q)'
      BY <2>b, <2>a, <2>0 DEF Builder
    <3> QED
      BY <3>1, <2>b, <2>0
  <2>c. ASSUME proc[p].pc # "notify", UNCHANGED <<spawned, state, dirty>> PROVE ~Wanted
    BY <2>c, <2>0 DEF Wanted
  <2>d. ASSUME Builder(p), ~Wanted
        PROVE  \/ BringsAtLeast(proc[p], v)
               \/ proc[p].pc = "commit" /\ proc[p].snap.id = 0 /\ (failed \/ v <= snapshot.data)
    BY <2>d, <2>0 DEF TrackedTo
  <2>1. CASE ProcessBegin(p)
    <3>1. state = "idle" /\ proc'[p].pc = "load"
      BY <2>1, <1>t DEF ProcessBegin, ProcAt
    <3> QED
      BY <3>1, <2>b DEF Builder, Building, BringsAtLeast
  <2>2. CASE BuildLoad(p)
    <3>1. Builder(p) /\ proc'[p].pc = "dedup" /\ proc'[p].hash = content
      BY <2>2, <1>t DEF BuildLoad, Builder, Building, ProcRecord
    <3> QED
      BY <3>1, <2>b DEF Builder, Building, BringsAtLeast
  <2>3. CASE BuildFail(p)
    <3>1. Builder(p) /\ proc'[p].pc = "commit" /\ proc'[p].snap.id = 0 /\ failed'
      BY <2>3, <1>t DEF BuildFail, Builder, Building, ProcAt, NoSnapshot
    <3> QED
      BY <3>1, <2>b DEF Builder, Building
  <2>4. CASE BuildDedup(p)
    <3>1. Builder(p) /\ proc[p].pc = "dedup" /\ UNCHANGED <<spawned, state, dirty, snapshot>>
      BY <2>4 DEF BuildDedup, Builder, Building, requestVars
    <3>2. v <= proc[p].hash
      BY <3>1, <2>c, <2>d DEF BringsAtLeast, Sealed
    <3>3. CASE proc[p].hash = lastHash /\ lastHash # 0
               /\ proc' = [proc EXCEPT ![p] = ProcAt("commit", @.gen, NoSnapshot)]
      <4>1. \A q \in Proc : ~Sealed(proc[q])
        BY <3>1, <2>a DEF Builder, Building, Sealed
      <4>2. v <= snapshot.data
        BY <4>1, <3>2, <3>3, <1>t DEF HashTracked
      <4>3. proc'[p].pc = "commit" /\ proc'[p].snap.id = 0
        BY <3>3, <1>t DEF ProcAt, NoSnapshot
      <4> QED
        BY <4>2, <4>3, <3>1, <2>b DEF Builder, Building
    <3>4. CASE proc' = [proc EXCEPT ![p].pc = "build", ![p].prev = snapshot.id]
      <4>1. proc'[p].pc = "build" /\ proc'[p].hash = proc[p].hash
        BY <3>4, <1>t DEF ProcRecord
      <4> QED
        BY <4>1, <3>1, <3>2, <2>b DEF Builder, Building, BringsAtLeast
    <3> QED
      BY <2>4, <3>3, <3>4 DEF BuildDedup
  <2>5. CASE BuildSeal(p)
    <3>1. Builder(p) /\ proc[p].pc = "build" /\ UNCHANGED <<spawned, state, dirty>>
      BY <2>5 DEF BuildSeal, Builder, Building, requestVars
    <3>2. v <= proc[p].hash
      BY <3>1, <2>c, <2>d DEF BringsAtLeast, Sealed
    <3>3. proc'[p].pc = "commit" /\ proc'[p].snap.id # 0 /\ proc'[p].snap.data = proc[p].hash
      BY <2>5, <1>t DEF BuildSeal, ProcAt
    <3> QED
      BY <3>3, <3>1, <3>2, <2>b DEF Builder, Building, BringsAtLeast, Sealed
  <2>6. CASE ProcessDiscard(p)
    BY <2>6, <1>t, <2>a DEF ProcessDiscard, Builder, Building
  <2>7. CASE ProcessCommit(p)
    <3>1. /\ proc[p].pc = "commit" /\ Builder(p) /\ failed' = failed /\ spawned' = spawned
          /\ snapshot' = IF proc[p].snap.id # 0 THEN proc[p].snap ELSE snapshot
          /\ proc' = [proc EXCEPT ![p].pc = "notify", ![p].gen = 0, ![p].rerun = dirty]
      BY <2>7 DEF ProcessCommit, CommitIf, Builder, Building
    <3>2. proc'[p].pc = "notify" /\ proc'[p].rerun = dirty
      BY <3>1, <1>t DEF ProcRecord
    <3>3. ~Wanted
      <4>1. ~dirty
        BY <3>2 DEF Wanted
      <4>2. \A q \in Proc : ~(proc[q].pc = "notify" /\ proc[q].rerun)
        BY <3>1, <2>0 DEF Wanted
      <4> QED
        BY <4>1, <4>2, <3>1, <2>0 DEF Wanted
    <3>4. failed' \/ v <= snapshot'.data
      BY <3>1, <3>3, <2>d DEF BringsAtLeast, Sealed
    <3>5. \A q \in Proc : ~Builder(q)'
      BY <3>1, <3>2, <2>a, <2>0 DEF Builder, Building
    <3> QED
      BY <3>4, <3>5
  <2>8. CASE ProcessNotify(p)
    <3>1. /\ proc[p].pc = "notify" /\ proc'[p].pc = "free"
          /\ UNCHANGED <<state, dirty, snapshot, failed>>
          /\ spawned' = IF proc[p].rerun THEN spawned + 1 ELSE spawned
      BY <2>8, <1>t DEF ProcessNotify, IdleProc, ProcAt, dataVars
    <3>2. spawned' = spawned /\ ~proc[p].rerun
      BY <3>1, <1>t DEF Wanted
    <3>3. \A q \in Proc : ~(proc[q].pc = "notify" /\ proc[q].rerun)
      BY <3>2, <2>0 DEF Wanted
    <3>4. ~Wanted
      BY <3>1, <3>2, <3>3, <2>0 DEF Wanted
    <3>5. \A q \in Proc : Builder(q)' = Builder(q)
      BY <3>1, <2>0 DEF Builder, Building
    <3>6. \A q \in Proc : Builder(q)' => proc'[q] = proc[q]
      BY <3>1, <2>0 DEF Builder, Building
    <3> QED
      BY <3>1, <3>4, <3>5, <3>6 DEF TrackedTo
  <2> QED
    BY <1>4, <2>1, <2>2, <2>3, <2>4, <2>5, <2>6, <2>7, <2>8 DEF Process
<1> QED
  BY <1>1, <1>2, <1>3, <1>4 DEF CommonMove, CommonStep

LEMMA ChangesNext ==
  IInv /\ Calm /\ HashTracked /\ PollTypes /\ Sources /\ Changes /\ [UINext]_allVars => Changes'
<1> SUFFICES ASSUME IInv, Calm, HashTracked, PollTypes, Sources, Changes, [UINext]_allVars
             PROVE  Changes'
  OBVIOUS
<1>i. TypeOK /\ Control /\ Builders
  BY DEF IInv
<1>t. /\ noticed \in Nat /\ noticed <= content /\ state # "stopped"
      /\ state \in {"idle", "processing", "stopped"} /\ spawned \in Nat
  BY <1>i DEF PollTypes, Versions, Sources, Calm, TypeOK, RequestTypes
<1>s. source' = source
  BY UICases, <1>i DEF CommonMove, FileMove, DoltMove, ChannelOnly
<1>1. CASE source = "file"
  <2>1. CASE CommonMove \/ FileMove
    BY <1>1, <1>i, <1>s, <2>1, MovesAreNext, AttendedNext, TrackedNext DEF Changes
  <2>2. CASE ChannelOnly
    <3>1. UNCHANGED <<recPc, generation, stopPc, state, startPc, watcherOn>>
      BY <2>2 DEF ChannelOnly, dataVars, requestVars, watcherVars, lifeVars, startVars,
         stopVars, recVars
    <3>2. UNCHANGED <<content, snapshot, failed, proc, pendingEvt, changeCh, spawned, dirty>>
      BY <2>2 DEF ChannelOnly, dataVars, requestVars, watcherVars, buildVars
    <3>3. Attended'
      BY <3>1, <1>1 DEF Changes, Attended
    <3>4. Tracked'
      BY <3>1, <3>2, <1>1 DEF Changes, Tracked, Wanted, Builder, Brings, Sealed, Shown
    <3> QED
      BY <3>3, <3>4, <1>s, <1>1 DEF Changes
  <2> QED
    BY <1>1, <2>1, <2>2, <1>i, UICases DEF DoltMove
<1>2. CASE source = "dolt"
  <2>0. ~watcherOn /\ ~pendingEvt /\ ~changeCh /\ TrackedTo(noticed)
    BY <1>2 DEF Sources, Changes
  <2>n. PICK v \in Nat : v = noticed
    BY <1>t
  <2>u. ASSUME UNCHANGED <<snapshot, failed, proc, pendingEvt, changeCh, spawned, dirty, state, noticed>>
        PROVE  TrackedTo(noticed)'
    BY <2>u, <2>0 DEF TrackedTo, Wanted, Builder
  <2>1. CASE CommonMove
    <3>1. noticed' = noticed
      BY <2>1 DEF CommonMove, pollVars
    <3>2. TrackedTo(v)
      BY <2>0, <2>n
    <3>3. TrackedTo(v)'
      BY <2>1, <3>2, <2>0, <2>n, <1>t, <1>i, TrackedToNext
    <3> QED
      BY <3>1, <3>3, <2>n, <1>2, <1>s DEF Changes, TrackedTo
  <2>2. CASE DoltMove /\ DoltStart
    BY <2>2, <2>u, <1>2, <1>s DEF DoltStart, Changes, dataVars, requestVars, watcherVars, buildVars
  <2>3. CASE DoltMove /\ PollChanged
    <3>1. RequestProcess
      BY <2>3 DEF PollChanged, TriggerRefresh
    <3>2. Wanted'
      BY <3>1, <1>t DEF RequestProcess, Wanted
    <3> QED
      BY <3>2, <1>2, <1>s DEF Changes, TrackedTo
  <2>4. CASE ChannelOnly
    BY <2>4, <2>u, <1>2, <1>s DEF ChannelOnly, Changes, dataVars, requestVars, watcherVars, buildVars
  <2> QED
    BY <1>2, <2>1, <2>2, <2>3, <2>4, <1>i, UICases DEF DoltMove, FileMove
<1> QED
  BY <1>1, <1>2 DEF Sources

LEMMA WorkerInductive == UISpec => []WInv
<1>1. UIInit => WInv
  <2> SUFFICES ASSUME UIInit PROVE WInv
    OBVIOUS
  <2>1. Init /\ PollInit /\ source \in {"file", "dolt"}
    BY DEF UIInit
  <2>2. IInv
    <3>1. Loopless /\ LoopOwned /\ Builders /\ Ordered
      BY <2>1 DEF Init, Loopless, LoopOwned, Builders, SingleBuilder, NoFutureProc, Builder, Building,
         Ordered, IdleProc, ProcAt, NoSnapshot
    <3> QED
      BY <2>1, <3>1, TypeInit, ControlInit DEF IInv
  <2>3. Calm /\ HashTracked /\ Attended /\ Tracked
    BY <2>1 DEF Init, Calm, HashTracked, Attended, Tracked
  <2>4. PollTypes
    BY <2>1 DEF PollInit, PollTypes, Versions, ManyFails, ReconnectAfter
  <2>5. Sources
    BY <2>1 DEF Init, PollInit, Sources
  <2>6. TrackedTo(noticed)
    BY <2>1 DEF Init, PollInit, TrackedTo, Builder, Building, NoSnapshot, IdleProc, ProcAt
  <2> QED
    BY <2>2, <2>3, <2>4, <2>5, <2>6 DEF WInv, Changes
<1>2. WInv /\ [UINext]_allVars => WInv'
  BY WorkerNext, CalmNext, UIHashNext, PollNext, ChangesNext DEF WInv, IInv
<1> QED
  BY <1>1, <1>2, PTL DEF UISpec

(* No change is lost, with the user interface and the poll loop at work: a *)
(* settled worker whose last build did not fail shows the newest version   *)
(* of a file, and of a Dolt source one as new as the last poll noticed.    *)
THEOREM EveryChangeShown == UISpec => []ChangesShown
<1>1. WInv => ChangesShown
  <2> SUFFICES ASSUME WInv, Quiet, ~failed
               PROVE  /\ source = "file" => snapshot.data = content
                      /\ noticed <= snapshot.data
    BY DEF ChangesShown, FreshWhenQuiet, NoticedIsShown, WInv, PollTypes, Versions, IInv, TypeOK,
       DataTypes, Snapshot
  <2>1. \A p \in Proc : ~Builder(p)
    BY DEF Quiet
  <2>2. ~Wanted
    BY DEF Quiet, Wanted
  <2>3. CASE source = "file"
    <3>1. snapshot.data = content
      BY <2>1, <2>2, <2>3 DEF WInv, Changes, Tracked, Quiet, Shown, Calm
    <3>2. noticed = 0 /\ content \in Nat
      BY <2>3 DEF WInv, Sources, IInv, TypeOK, DataTypes
    <3> QED
      BY <3>1, <3>2
  <2>4. CASE source = "dolt"
    BY <2>1, <2>2, <2>4 DEF WInv, Changes, TrackedTo
  <2> QED
    BY <2>3, <2>4 DEF WInv, Sources
<1> QED
  BY <1>1, WorkerInductive, PTL
-----------------------------------------------------------------------------
(* The numbers of the snapshots.                                           *)
LEMMA ProcIds ==
  ASSUME TypeOK, Builders, Ordered, generation = 0, Ids, NEW p \in Proc, Process(p)
  PROVE  Ids'
<1>t. /\ proc \in [Proc -> ProcRecord] /\ builds \in Nat /\ snapshot.id \in Nat
      /\ \A q \in Proc : proc[q].snap.id \in Nat
  BY DEF TypeOK, DataTypes, ProcRecord, Snapshot
<1>a. \A q, r \in Proc : Builder(q) /\ Builder(r) => q = r
  BY OneAtFirst
<1>0. \A q \in Proc \ {p} : proc'[q] = proc[q]
  BY <1>t DEF Process, ProcessBegin, BuildLoad, BuildFail, BuildDedup, BuildSeal, ProcessDiscard,
     ProcessCommit, CommitIf, ProcessNotify
<1>b. ASSUME snapshot' = snapshot, builds' \in {builds, builds + 1}, proc'[p].snap.id \in Nat,
             proc'[p].snap.id <= builds', Sealed(proc'[p]) => snapshot.id < proc'[p].snap.id,
             ~Unsaid(proc'[p]), proc'[p].pc = "build" => proc'[p].prev = snapshot.id
      PROVE  Ids'
  <2>1. snapshot'.id <= builds' /\ (snapshot'.id = 0 => snapshot' = NoSnapshot)
    BY <1>b, <1>t DEF Ids
  <2>2. ASSUME NEW q \in Proc
        PROVE  /\ proc'[q].snap.id <= builds'
               /\ Sealed(proc'[q]) => snapshot'.id < proc'[q].snap.id
               /\ Unsaid(proc'[q]) => /\ proc'[q].snap.id <= snapshot'.id
                                      /\ proc'[q].snap.id = snapshot'.id => proc'[q].snap = snapshot'
               /\ proc'[q].pc = "build" => proc'[q].prev = snapshot'.id
    <3>1. CASE q = p
      BY <3>1, <1>b
    <3>2. CASE q # p
      BY <3>2, <1>0, <1>b, <1>t DEF Ids
    <3> QED
      BY <3>1, <3>2
  <2>3. ASSUME NEW q \in Proc, NEW s \in Proc, Unsaid(proc'[q]), Unsaid(proc'[s]),
               proc'[q].snap.id = proc'[s].snap.id
        PROVE  q = s
    BY <2>3, <1>0, <1>b DEF Ids
  <2> QED
    BY <2>1, <2>2, <2>3 DEF Ids, Sealed, Unsaid
<1>n. NoSnapshot.id = 0 /\ IdleProc.pc = "free" /\ IdleProc.snap.id = 0
  BY DEF NoSnapshot, IdleProc, ProcAt
<1>1. CASE ProcessBegin(p)
  <2>1. proc'[p].pc = "load" /\ proc'[p].snap.id = 0 /\ snapshot' = snapshot /\ builds' = builds
    BY <1>1, <1>t, <1>n DEF ProcessBegin, ProcAt, dataVars
  <2> QED
    BY <2>1, <1>b, <1>t DEF Unsaid, Sealed
<1>2. CASE BuildLoad(p)
  <2>1. /\ proc'[p].pc = "dedup" /\ proc'[p].snap = proc[p].snap /\ snapshot' = snapshot
        /\ builds' = builds
    BY <1>2, <1>t DEF BuildLoad, ProcRecord, dataVars
  <2> QED
    BY <2>1, <1>b, <1>t DEF Unsaid, Sealed, Ids
<1>c. ASSUME proc'[p].pc = "commit", proc'[p].snap.id = 0, snapshot' = snapshot, builds' = builds
      PROVE  Ids'
  BY <1>c, <1>b, <1>t DEF Unsaid, Sealed
<1>3. CASE BuildFail(p)
  <2>1. /\ proc'[p].pc = "commit" /\ proc'[p].snap.id = 0 /\ snapshot' = snapshot
        /\ builds' = builds
    BY <1>3, <1>t, <1>n DEF BuildFail, ProcAt
  <2> QED
    BY <2>1, <1>c
<1>4. CASE BuildDedup(p)
  <2>1. /\ snapshot' = snapshot /\ builds' = builds
        /\ \/ proc' = [proc EXCEPT ![p] = ProcAt("commit", @.gen, NoSnapshot)]
           \/ proc' = [proc EXCEPT ![p].pc = "build", ![p].prev = snapshot.id]
    BY <1>4 DEF BuildDedup
  <2>2. CASE proc' = [proc EXCEPT ![p] = ProcAt("commit", @.gen, NoSnapshot)]
    <3>1. proc'[p].pc = "commit" /\ proc'[p].snap.id = 0
      BY <2>2, <1>t, <1>n DEF ProcAt
    <3> QED
      BY <3>1, <2>1, <1>c
  <2>3. CASE proc' = [proc EXCEPT ![p].pc = "build", ![p].prev = snapshot.id]
    <3>1. proc'[p].pc = "build" /\ proc'[p].prev = snapshot.id /\ proc'[p].snap = proc[p].snap
      BY <2>3, <1>t DEF ProcRecord
    <3> QED
      BY <3>1, <2>1, <1>b, <1>t DEF Unsaid, Sealed, Ids
  <2> QED
    BY <2>1, <2>2, <2>3
<1>5. CASE BuildSeal(p)
  <2>1. /\ proc'[p].pc = "commit" /\ proc'[p].snap.id = builds + 1
        /\ snapshot' = snapshot /\ builds' = builds + 1
    BY <1>5, <1>t DEF BuildSeal, ProcAt
  <2>2. snapshot.id < builds + 1
    BY <1>t DEF Ids
  <2> QED
    BY <2>1, <2>2, <1>b, <1>t DEF Unsaid
<1>6. CASE ProcessDiscard(p) \/ ProcessNotify(p)
  <2>1. /\ proc'[p].pc = "free" /\ proc'[p].snap.id = 0 /\ snapshot' = snapshot
        /\ builds' = builds
    BY <1>6, <1>t, <1>n DEF ProcessDiscard, ProcessNotify, dataVars
  <2> QED
    BY <2>1, <1>b, <1>t DEF Unsaid, Sealed
<1>7. CASE ProcessCommit(p)
  <2>1. /\ proc'[p].pc = "notify" /\ proc'[p].snap = proc[p].snap /\ proc[p].pc = "commit"
        /\ builds' = builds
        /\ snapshot' = IF proc[p].snap.id # 0 THEN proc[p].snap ELSE snapshot
    BY <1>7, <1>t DEF ProcessCommit, CommitIf, ProcRecord
  <2>2. CASE proc[p].snap.id = 0
    BY <2>1, <2>2, <1>b, <1>t DEF Unsaid, Sealed
  <2>3. CASE proc[p].snap.id # 0
    <3>1. PICK n \in Nat : n = proc[p].snap.id
      BY <1>t
    <3>2. /\ snapshot' = proc[p].snap /\ snapshot'.id = n /\ proc'[p].snap = snapshot'
          /\ proc'[p].snap.id = n
      BY <2>1, <2>3, <3>1
    <3>3. snapshot.id < n /\ n <= builds
      BY <2>1, <2>3, <3>1 DEF Ids, Sealed
    <3>4. \A q \in Proc \ {p} : ~Sealed(proc'[q]) /\ proc'[q].pc # "build"
      BY <2>1, <1>0, <1>a DEF Builder, Building, Sealed
    <3>5. \A q \in Proc \ {p} : Unsaid(proc'[q]) => proc'[q].snap.id < n
      <4>1. \A q \in Proc : Unsaid(proc[q]) => proc[q].snap.id <= snapshot.id
        BY DEF Ids
      <4>2. ASSUME NEW q \in Proc, Unsaid(proc[q]) PROVE proc[q].snap.id < n
        <5>1. proc[q].snap.id \in Nat /\ snapshot.id \in Nat
          BY <1>t
        <5>2. proc[q].snap.id <= snapshot.id
          BY <4>1, <4>2
        <5> QED
          BY <5>1, <5>2, <3>3
      <4> QED
        BY <4>2, <1>0
    <3>6. \A q \in Proc : proc'[q].snap.id <= builds'
      BY <2>1, <3>2, <3>3, <1>0, <1>t DEF Ids
    <3>7. ~Sealed(proc'[p]) /\ proc'[p].pc # "build"
      BY <2>1 DEF Sealed
    <3>8. \A q \in Proc : Unsaid(proc'[q]) => /\ proc'[q].snap.id <= snapshot'.id
                                              /\ proc'[q].snap.id = snapshot'.id => q = p
      <4>1. \A q \in Proc \ {p} : Unsaid(proc'[q]) => /\ proc'[q].snap.id <= n
                                                      /\ proc'[q].snap.id # n
        BY <3>5, <1>0, <1>t
      <4> QED
        BY <4>1, <3>2
    <3>9. ASSUME NEW q \in Proc, NEW o \in Proc, Unsaid(proc'[q]), Unsaid(proc'[o]),
                 proc'[q].snap.id = proc'[o].snap.id
          PROVE  q = o
      <4>1. CASE q = p
        <5>1. proc'[o].snap.id = snapshot'.id
          BY <4>1, <3>9, <3>2
        <5> QED
          BY <4>1, <5>1, <3>9, <3>8
      <4>2. CASE o = p
        <5>1. proc'[q].snap.id = snapshot'.id
          BY <4>2, <3>9, <3>2
        <5> QED
          BY <4>2, <5>1, <3>9, <3>8
      <4>3. CASE q # p /\ o # p
        BY <4>3, <3>9, <1>0 DEF Ids
      <4> QED
        BY <4>1, <4>2, <4>3
    <3>10. snapshot'.id <= builds' /\ snapshot'.id # 0
      BY <2>1, <2>3, <3>1, <3>2, <3>3
    <3>11. ASSUME NEW q \in Proc
           PROVE  /\ proc'[q].snap.id <= builds'
                  /\ ~Sealed(proc'[q]) /\ proc'[q].pc # "build"
                  /\ Unsaid(proc'[q]) =>
                       /\ proc'[q].snap.id <= snapshot'.id
                       /\ proc'[q].snap.id = snapshot'.id => proc'[q].snap = snapshot'
      <4>1. ~Sealed(proc'[q]) /\ proc'[q].pc # "build"
        BY <3>4, <3>7
      <4>2. Unsaid(proc'[q]) => /\ proc'[q].snap.id <= snapshot'.id
                                /\ proc'[q].snap.id = snapshot'.id => proc'[q].snap = snapshot'
        BY <3>8, <3>2
      <4> QED
        BY <4>1, <4>2, <3>6
    <3> QED
      BY <3>9, <3>10, <3>11 DEF Ids, Sealed, Unsaid
  <2> QED
    BY <2>2, <2>3
<1> QED
  BY <1>1, <1>2, <1>3, <1>4, <1>5, <1>6, <1>7 DEF Process

LEMMA IdsNext == IInv /\ Calm /\ Ids /\ [UINext]_allVars => Ids'
<1> SUFFICES ASSUME IInv, Calm, Ids, [UINext]_allVars PROVE Ids'
  OBVIOUS
<1>i. TypeOK /\ Builders /\ Ordered /\ generation = 0
  BY DEF IInv, Calm
<1>1. ASSUME NEW p \in Proc, Process(p) PROVE Ids'
  BY <1>1, <1>i, ProcIds
<1>2. ASSUME UNCHANGED <<proc, snapshot, builds>> PROVE Ids'
  BY <1>2 DEF Ids, Sealed, Unsaid
<1>3. CASE CommonMove
  <2>1. CASE FileChange \/ StartLock \/ StartTrigger \/ ProcessJoin \/ Phase2 \/ UserRefresh
             \/ \E r \in Recipes : SetRecipe(r)
    BY <2>1, <1>2 DEF FileChange, StartLock, StartTrigger, ProcessJoin, Phase2, Phase2Done, Phase2Check,
       Phase2Notify, UserRefresh, SetRecipe, dataVars, buildVars
  <2> QED
    BY <1>3, <1>1, <2>1 DEF CommonMove, CommonStep
<1>4. CASE FileMove \/ DoltMove \/ ChannelOnly
  BY <1>4, <1>2 DEF FileMove, WatcherNotify, StartWatcher, StartLoop, Looping, LoopToken, LoopExit,
     DoltMove, DoltStart, PollChanged, ChannelOnly, dataVars, buildVars
<1> QED
  BY <1>3, <1>4, <1>i, UICases
-----------------------------------------------------------------------------
(* What a step says: it publishes a snapshot, or announces one, or moves   *)
(* other messages.                                                         *)
LEMMA CalmSend ==
  ASSUME ~ctxDone, NEW k, NEW s \in Snapshot, Send(Msg(k, s))
  PROVE  \/ k \in Kinds /\ Msg(k, s) \in Message /\ msgCh' = Push(msgCh, Msg(k, s))
         \/ k \notin Kinds /\ msgCh' = msgCh
BY DEF Send, Msg, Message

LEMMA CalmChatter ==
  ASSUME ~ctxDone, NEW k, k # "ready", Send(Msg(k, NoSnapshot))
  PROVE  Chatter
<1>1. Msg(k, NoSnapshot).kind = k
  BY DEF Msg
<1> QED
  BY <1>1, CalmSend, NoSnapshotType DEF Chatter

LEMMA ProcKinds ==
  ASSUME TypeOK, Ordered, Calm, NEW p \in Proc, Process(p)
  PROVE  (Neutral /\ Chatter) \/ Commits(p) \/ Announces(p)
<1>t. proc \in [Proc -> ProcRecord] /\ builds \in Nat /\ ~ctxDone
  BY DEF TypeOK, DataTypes, Calm
<1>0. \A q \in Proc \ {p} : proc'[q] = proc[q]
  BY <1>t DEF Process, ProcessBegin, BuildLoad, BuildFail, BuildDedup, BuildSeal, ProcessDiscard,
     ProcessCommit, CommitIf, ProcessNotify
<1>n. NoSnapshot.id = 0 /\ IdleProc.pc = "free"
  BY DEF NoSnapshot, IdleProc, ProcAt
<1>b. ASSUME ~Unsaid(proc[p]), ~Unsaid(proc'[p]), snapshot' = snapshot PROVE Neutral
  BY <1>b, <1>0 DEF Neutral
<1>1. CASE ProcessBegin(p)
  <2>1. proc[p].pc = "free" /\ proc'[p].pc = "load" /\ snapshot' = snapshot /\ msgCh' = msgCh
    BY <1>1, <1>t DEF ProcessBegin, Free, ProcAt, dataVars
  <2> QED
    BY <2>1, <1>b DEF Unsaid, Chatter
<1>2. CASE BuildLoad(p)
  <2>1. /\ proc[p].pc = "load" /\ proc'[p].pc = "dedup" /\ snapshot' = snapshot
        /\ Send(Msg("started", NoSnapshot))
    BY <1>2, <1>t DEF BuildLoad, ProcRecord, dataVars
  <2> QED
    BY <2>1, <1>b, <1>t, CalmChatter DEF Unsaid
<1>3. CASE BuildFail(p)
  <2>1. /\ proc[p].pc \in {"dedup", "build"} /\ proc'[p].pc = "commit" /\ snapshot' = snapshot
        /\ Send(Msg("error", NoSnapshot))
    BY <1>3, <1>t DEF BuildFail, ProcAt
  <2> QED
    BY <2>1, <1>b, <1>t, CalmChatter DEF Unsaid
<1>4. CASE BuildDedup(p)
  <2>1. /\ proc[p].pc = "dedup" /\ proc'[p].pc \in {"commit", "build"} /\ snapshot' = snapshot
        /\ msgCh' = msgCh
    BY <1>4, <1>t DEF BuildDedup, ProcAt, ProcRecord
  <2> QED
    BY <2>1, <1>b DEF Unsaid, Chatter
<1>5. CASE BuildSeal(p)
  <2>1. /\ proc[p].pc = "build" /\ proc'[p].pc = "commit" /\ snapshot' = snapshot
        /\ msgCh' = msgCh
    BY <1>5, <1>t DEF BuildSeal, ProcAt
  <2> QED
    BY <2>1, <1>b DEF Unsaid, Chatter
<1>6. CASE ProcessDiscard(p)
  <2>1. /\ proc[p].pc = "commit" /\ proc'[p].pc = "free" /\ snapshot' = snapshot
        /\ msgCh' = msgCh
    BY <1>6, <1>t, <1>n DEF ProcessDiscard, dataVars
  <2> QED
    BY <2>1, <1>b DEF Unsaid, Chatter
<1>7. CASE ProcessCommit(p)
  <2>1. /\ proc'[p].pc = "notify" /\ proc'[p].snap = proc[p].snap /\ proc[p].pc = "commit"
        /\ UNCHANGED <<builds, msgCh>>
        /\ snapshot' = IF proc[p].snap.id # 0 THEN proc[p].snap ELSE snapshot
    BY <1>7, <1>t DEF ProcessCommit, CommitIf, ProcRecord
  <2>2. CASE proc[p].snap.id = 0
    BY <2>1, <2>2, <1>b DEF Unsaid, Chatter
  <2>3. CASE proc[p].snap.id # 0
    BY <2>1, <2>3, <1>0 DEF Commits, Sealed, Unsaid
  <2> QED
    BY <2>2, <2>3
<1>8. CASE ProcessNotify(p)
  <2>1. /\ proc[p].pc = "notify" /\ proc'[p].pc = "free" /\ UNCHANGED <<snapshot, builds>>
        /\ IF proc[p].snap.id # 0 THEN Send(Msg("ready", proc[p].snap)) ELSE UNCHANGED msgCh
    BY <1>8, <1>t, <1>n DEF ProcessNotify, dataVars
  <2>2. CASE proc[p].snap.id = 0
    BY <2>1, <2>2, <1>b DEF Unsaid, Chatter
  <2>3. CASE proc[p].snap.id # 0
    BY <2>1, <2>3, <1>0 DEF Announces, Unsaid
  <2> QED
    BY <2>2, <2>3
<1> QED
  BY <1>1, <1>2, <1>3, <1>4, <1>5, <1>6, <1>7, <1>8 DEF Process

LEMMA WorkerKinds ==
  ASSUME TypeOK, Ordered, Calm, WorkerStep
  PROVE  (Neutral /\ Chatter) \/ \E p \in Proc : Commits(p) \/ Announces(p)
<1>c. ~ctxDone
  BY DEF Calm
<1>u. ASSUME UNCHANGED <<snapshot, proc>>, Chatter PROVE Neutral /\ Chatter
  BY <1>u DEF Neutral
<1>1. CASE CommonStep
  <2>1. CASE FileChange \/ StartLock \/ StartTrigger \/ ProcessJoin \/ \E r \in Recipes : SetRecipe(r)
    BY <2>1, <1>u DEF FileChange, StartLock, StartTrigger, ProcessJoin, SetRecipe, dataVars,
       buildVars, Chatter
  <2>2. CASE Phase2
    <3>1. UNCHANGED <<snapshot, proc>>
      BY <2>2 DEF Phase2, Phase2Done, Phase2Check, Phase2Notify, dataVars
    <3>2. PICK b \in phase2 : Phase2Done(b) \/ Phase2Check(b) \/ Phase2Notify(b)
      BY <2>2 DEF Phase2
    <3>3. b.snap \in Snapshot
      BY DEF TypeOK, DataTypes, Phase2Record
    <3>4. CASE Phase2Notify(b)
      <4>1. Send(Msg("phase2", b.snap)) /\ Msg("phase2", b.snap).kind = "phase2"
        BY <3>4 DEF Phase2Notify, Msg
      <4> QED
        BY <4>1, <3>1, <3>3, <1>c, <1>u, CalmSend DEF Chatter
    <3>5. CASE Phase2Done(b) \/ Phase2Check(b)
      BY <3>1, <3>5, <1>u DEF Phase2Done, Phase2Check, Chatter
    <3> QED
      BY <3>2, <3>4, <3>5
  <2> QED
    BY <1>1, <2>1, <2>2, ProcKinds DEF CommonStep
<1>2. CASE FileStep
  BY <1>2, <1>u DEF FileStep, WatcherNotify, StartLoop, Looping, LoopToken, LoopExit, dataVars,
     buildVars, Chatter
<1>3. CASE DoltStep
  <2>1. CASE DoltStart \/ ServerFails \/ ServerReturns \/ PollBaseline \/ PollSame \/ PollChanged
    BY <2>1, <1>u DEF DoltStart, ServerFails, ServerReturns, PollBaseline, PollSame, PollChanged,
       dataVars, buildVars, vars, Chatter
  <2>2. CASE PollFails
    <3>1. UNCHANGED <<snapshot, proc>> /\ (Send(Msg("lost", NoSnapshot)) \/ UNCHANGED msgCh)
      BY <2>2 DEF PollFails, PollFailsNotifyingAt, dataVars, buildVars
    <3> QED
      BY <3>1, <1>c, <1>u, CalmChatter DEF Chatter
  <2>3. CASE PollRestored \/ PollVerified
    <3>1. /\ UNCHANGED <<snapshot, proc>>
          /\ Send(Msg("restored", NoSnapshot)) \/ Send(Msg("verified", NoSnapshot))
      BY <2>3 DEF PollRestored, PollVerified, dataVars, buildVars
    <3> QED
      BY <3>1, <1>c, <1>u, CalmChatter
  <2> QED
    BY <1>3, <2>1, <2>2, <2>3 DEF DoltStep, Poll
<1> QED
  BY <1>1, <1>2, <1>3 DEF WorkerStep

(* The steps of the user interface leave the worker's results alone.       *)
LEMMA UIKinds ==
  ASSUME UIStep \/ UNCHANGED allVars
  PROVE  /\ UNCHANGED <<snapshot, proc, builds, phase2, fails>>
         /\ UNCHANGED msgCh \/ \E c \in Chains : Receive(c)
<1>1. ASSUME NEW c \in Chains, Receive(c)
      PROVE  UNCHANGED <<snapshot, proc, builds, phase2, fails>>
  BY <1>1 DEF Receive, dataVars, buildVars, pollVars
<1>2. ASSUME UNCHANGED <<vars, pollVars>>
      PROVE  UNCHANGED <<snapshot, proc, builds, phase2, fails, msgCh>>
  BY <1>2 DEF vars, dataVars, buildVars, pollVars
<1>3. ASSUME NEW c \in Chains, ForceRefreshKey(c)
      PROVE  UNCHANGED <<snapshot, proc, builds, phase2, fails, msgCh>>
  BY <1>3 DEF ForceRefreshKey, UserRefresh, dataVars, buildVars, pollVars
<1>4. ASSUME NEW c \in Chains, StartStep(c)
      PROVE  UNCHANGED <<snapshot, proc, builds, phase2, fails, msgCh>>
  BY <1>4 DEF StartStep, StartWatcher, dataVars, buildVars, pollVars
<1> QED
  BY <1>1, <1>2, <1>3, <1>4 DEF UIStep, HandleOther, HandleConnection, HandleReady,
     HandlePhase2Update, HandlePhase2Ready, ToggleModal, allVars
-----------------------------------------------------------------------------
(* What was announced stays so, whatever is published or announced next.   *)
LEMMA PastKept ==
  ASSUME TypeOK, Ids, Neutral \/ \E p \in Proc : Commits(p) \/ Announces(p)
  PROVE  \A s : Past(s, snapshot, proc) => Past(s, snapshot', proc')
<1>t. /\ proc \in [Proc -> ProcRecord] /\ snapshot.id \in Nat
      /\ \A q \in Proc : proc[q].snap.id \in Nat
  BY DEF TypeOK, DataTypes, ProcRecord, Snapshot
<1> SUFFICES ASSUME NEW s, Past(s, snapshot, proc) PROVE Past(s, snapshot', proc')
  OBVIOUS
<1>1. CASE Neutral
  BY <1>1 DEF Neutral, Past
<1>2. ASSUME NEW p \in Proc, Commits(p) PROVE Past(s, snapshot', proc')
  <2>1. PICK n \in Nat : n = proc[p].snap.id
    BY <1>t
  <2>2. /\ snapshot'.id = n /\ proc'[p].snap.id = n /\ snapshot.id < n
        /\ \A q \in Proc \ {p} : proc'[q] = proc[q]
    BY <1>2, <2>1 DEF Commits, Ids
  <2>3. s.id \in Nat /\ s.id < n
    BY <2>2, <1>t DEF Past, Snapshot
  <2> QED
    BY <2>2, <2>3 DEF Past
<1>3. ASSUME NEW p \in Proc, Announces(p) PROVE Past(s, snapshot', proc')
  BY <1>3 DEF Announces, Past
<1> QED
  BY <1>1, <1>2, <1>3

LEMMA AnnouncedPast ==
  ASSUME TypeOK, Ids, NEW p \in Proc, Announces(p)
  PROVE  Past(proc[p].snap, snapshot', proc')
<1>1. proc[p].snap \in Snapshot
  BY DEF TypeOK, DataTypes, ProcRecord
<1>2. \A q \in Proc : Unsaid(proc'[q]) => q # p /\ proc'[q] = proc[q]
  BY DEF Announces
<1> QED
  BY <1>1, <1>2 DEF Announces, Unsaid, Ids, Past

LEMMA PastNumber ==
  ASSUME NEW s, NEW shown, NEW ps, Past(s, shown, ps)
  PROVE  s \in Snapshot /\ s.id \in Nat /\ s.id # 0 /\ s.id <= shown.id
BY DEF Past, Snapshot

LEMMA ChainNext ==
  ASSUME TypeOK, ChainTypes, [UINext]_allVars
  PROVE  ChainTypes'
<1> USE DEF ChainTypes
<1>s. Silent.msg \in MessageOrError /\ Silent.st = "off" /\ Silent = [st |-> "off", msg |-> Silent.msg]
  BY NoSnapshotType DEF Silent, MessageOrError
<1>w. Waiting \in [st : {"off", "wait", "msg"}, msg : MessageOrError]
  BY <1>s DEF Waiting
<1>1. ASSUME NEW c \in Chains, Receive(c) PROVE ChainTypes'
  <2>1. Head(msgCh) \in Message
    BY <1>1, TailQueue DEF Receive, TypeOK, ChannelTypes
  <2>2. Head(msgCh) \in MessageOrError
    BY <2>1 DEF Message, MessageOrError
  <2>3. Holding(Head(msgCh)) \in [st : {"off", "wait", "msg"}, msg : MessageOrError]
    BY <2>2 DEF Holding
  <2> QED
    BY <1>1, <2>3 DEF Receive
<1>2. ASSUME NEW c \in Chains, StartStep(c) PROVE ChainTypes'
  <2>1. [kind |-> "error", snap |-> NoSnapshot] \in MessageOrError
    BY NoSnapshotType DEF MessageOrError
  <2>2. Holding([kind |-> "error", snap |-> NoSnapshot])
          \in [st : {"off", "wait", "msg"}, msg : MessageOrError]
    BY <2>1 DEF Holding
  <2> QED
    BY <1>2, <2>2 DEF StartStep
<1>3. ASSUME NEW c \in Chains, chain' = [chain EXCEPT ![c] = Waiting] PROVE ChainTypes'
  BY <1>3, <1>w
<1>4. CASE UNCHANGED chain
  BY <1>4
<1> QED
  BY <1>1, <1>2, <1>3, <1>4 DEF UINext, WorkerStep, UIStep, HandleOther, HandleConnection, HandleReady,
     HandlePhase2Update, HandlePhase2Ready, ForceRefreshKey, ToggleModal, Resubscribe, allVars, uiVars

\* A chain that holds a message of some kind, after a chain has been told to wait.
LEMMA HandledChain ==
  ASSUME ChainTypes, NEW c \in Chains, chain' = [chain EXCEPT ![c] = Waiting], NEW kinds
  PROVE  /\ \A d \in Chains : Handles(d, kinds)' => d # c /\ Handles(d, kinds) /\ chain'[d] = chain[d]
         /\ \A d \in Chains \ {c} : chain'[d] = chain[d]
<1>1. Waiting.st = "wait"
  BY DEF Waiting, Silent
<1> QED
  BY <1>1 DEF ChainTypes, Handles

LEMMA AnnouncedNext ==
  IInv /\ Calm /\ Ids /\ Announced /\ [UINext]_allVars => Announced'
<1> SUFFICES ASSUME IInv, Calm, Ids, Announced, [UINext]_allVars PROVE Announced'
  OBVIOUS
<1>i. TypeOK /\ Ordered /\ ChainTypes
  BY DEF IInv, Announced
<1>q. msgCh \in Seq(Message) /\ Len(msgCh) <= ChanCap
  BY <1>i DEF TypeOK, ChannelTypes
<1>c. ChainTypes'
  BY <1>i, ChainNext
<1>1. CASE WorkerStep
  <2>1. (Neutral /\ Chatter) \/ \E p \in Proc : Commits(p) \/ Announces(p)
    BY <1>1, <1>i, WorkerKinds
  <2>2. \A s : Past(s, snapshot, proc) => Past(s, snapshot', proc')
    BY <2>1, <1>i, PastKept
  <2>3. UNCHANGED <<chain, ui>>
    BY <1>1 DEF WorkerStep
  <2>4. ui' = NoSnapshot \/ Past(ui', snapshot', proc')
    BY <2>2, <2>3 DEF Announced
  <2>5. \A d \in Chains : Handles(d, {"ready"})' => Past(chain'[d].msg.snap, snapshot', proc')
    BY <2>2, <2>3 DEF Announced, Handles
  <2>6. \A m \in Contents(msgCh') : m.kind = "ready" => Past(m.snap, snapshot', proc')
    <3>1. CASE msgCh' = msgCh
      BY <3>1, <2>2 DEF Announced
    <3>2. ASSUME NEW m \in Message, m.kind # "ready", msgCh' = Push(msgCh, m)
          PROVE  \A n \in Contents(msgCh') : n.kind = "ready" => Past(n.snap, snapshot', proc')
      <4>1. \A n \in Contents(msgCh') : n.kind = "ready" => n \in Contents(msgCh)
        BY <3>2, <1>q, PushContents
      <4> QED
        BY <4>1, <2>2 DEF Announced
    <3>3. ASSUME NEW p \in Proc, Announces(p)
          PROVE  \A n \in Contents(msgCh') : n.kind = "ready" => Past(n.snap, snapshot', proc')
      <4>1. Past(proc[p].snap, snapshot', proc') /\ proc[p].snap \in Snapshot
        BY <3>3, <1>i, AnnouncedPast, PastNumber
      <4>2. \/ /\ Msg("ready", proc[p].snap) \in Message
               /\ msgCh' = Push(msgCh, Msg("ready", proc[p].snap))
            \/ msgCh' = msgCh
        BY <3>3, <4>1, CalmSend DEF Announces, Calm
      <4>3. \A n \in Contents(msgCh') : n \in Contents(msgCh) \/ n = Msg("ready", proc[p].snap)
        BY <4>2, <1>q, PushContents
      <4>4. Msg("ready", proc[p].snap).snap = proc[p].snap
        BY DEF Msg
      <4> QED
        BY <4>1, <4>3, <4>4, <2>2 DEF Announced
    <3> QED
      BY <2>1, <3>1, <3>2, <3>3 DEF Chatter, Commits
  <2> QED
    BY <1>c, <2>4, <2>5, <2>6 DEF Announced
<1>2. CASE UIStep \/ UNCHANGED allVars
  <2>1. snapshot' = snapshot /\ proc' = proc
    BY <1>2, UIKinds
  <2> DEFINE Old(s) == Past(s, snapshot, proc)
  <2>2. \A s : Old(s) <=> Past(s, snapshot', proc')
    BY <2>1
  <2>3. /\ ui = NoSnapshot \/ Old(ui)
        /\ \A m \in Contents(msgCh) : m.kind = "ready" => Old(m.snap)
        /\ \A d \in Chains : Handles(d, {"ready"}) => Old(chain[d].msg.snap)
    BY DEF Announced
  <2> HIDE DEF Old
  <2>b. ASSUME ui' = NoSnapshot \/ Old(ui'),
               \A m \in Contents(msgCh') : m.kind = "ready" => Old(m.snap),
               \A d \in Chains : Handles(d, {"ready"})' => Old(chain'[d].msg.snap)
        PROVE  Announced'
    BY <2>b, <2>2, <1>c DEF Announced
  <2>4. ASSUME NEW c \in Chains, Receive(c) PROVE Announced'
    <3>1. /\ ui' = ui /\ msgCh' = Tail(msgCh) /\ msgCh # <<>>
          /\ chain' = [chain EXCEPT ![c] = Holding(Head(msgCh))]
      BY <2>4 DEF Receive
    <3>2. Contents(msgCh) = Contents(msgCh') \cup {Head(msgCh)}
      BY <3>1, <1>q, TailQueue
    <3>3. chain'[c].msg = Head(msgCh) /\ \A d \in Chains \ {c} : chain'[d] = chain[d]
      BY <3>1, <1>i DEF Holding, ChainTypes
    <3>4. \A d \in Chains : Handles(d, {"ready"})' => Old(chain'[d].msg.snap)
      BY <3>2, <3>3, <2>3 DEF Handles
    <3> QED
      BY <3>1, <3>2, <3>4, <2>3, <2>b
  <2>5. ASSUME NEW c \in Chains, chain' = [chain EXCEPT ![c] = Waiting], ui' = NoSnapshot \/ Old(ui'),
               msgCh' = msgCh
        PROVE  Announced'
    <3>1. \A d \in Chains : Handles(d, {"ready"})' => Old(chain'[d].msg.snap)
      BY <2>5, <1>i, <2>3, HandledChain
    <3> QED
      BY <3>1, <2>3, <2>5, <2>b
  <2>6. ASSUME NEW c \in Chains, HandleReady(c) PROVE Announced'
    <3>1. /\ Handles(c, {"ready"}) /\ ui' = chain[c].msg.snap
          /\ chain' = [chain EXCEPT ![c] = Waiting] /\ msgCh' = msgCh
      BY <2>6 DEF HandleReady, Swap, Resubscribe, vars
    <3> QED
      BY <3>1, <2>3, <2>5
  <2>7. ASSUME NEW c \in Chains,
               HandleOther(c) \/ HandleConnection(c) \/ HandlePhase2Update(c) \/ ForceRefreshKey(c)
        PROVE  Announced'
    <3>1. chain' = [chain EXCEPT ![c] = Waiting] /\ ui' = ui /\ msgCh' = msgCh
      BY <2>7 DEF HandleOther, HandleConnection, HandlePhase2Update, ForceRefreshKey, UserRefresh,
         Resubscribe, vars
    <3> QED
      BY <3>1, <2>3, <2>5
  <2>8. ASSUME UNCHANGED <<chain, ui, msgCh>> PROVE Announced'
    BY <2>8, <2>3, <2>b DEF Handles
  <2>9. ASSUME NEW c \in Chains, StartStep(c) PROVE Announced'
    <3>1. /\ ui' = ui /\ msgCh' = msgCh
          /\ \/ chain' = [chain EXCEPT ![c] = Holding([kind |-> "error", snap |-> NoSnapshot])]
             \/ chain' = chain
      BY <2>9 DEF StartStep, StartWatcher
    <3>2. CASE chain' = [chain EXCEPT ![c] = Holding([kind |-> "error", snap |-> NoSnapshot])]
      <4>1. chain'[c].msg.kind = "error" /\ \A d \in Chains \ {c} : chain'[d] = chain[d]
        BY <3>2, <1>i DEF Holding, ChainTypes
      <4>2. \A d \in Chains : Handles(d, {"ready"})' => Old(chain'[d].msg.snap)
        BY <4>1, <2>3 DEF Handles
      <4> QED
        BY <4>2, <3>1, <2>3, <2>b
    <3> QED
      BY <3>1, <3>2, <2>8
  <2> QED
    BY <1>2, <2>4, <2>6, <2>7, <2>8, <2>9 DEF UIStep, HandlePhase2Ready, ToggleModal, allVars,
       uiVars, vars
<1> QED
  BY <1>1, <1>2 DEF UINext

-----------------------------------------------------------------------------
(* Phase 2 results are applied to the snapshot they belong to.             *)
LEMMA AppliedNext ==
  IInv /\ Ids /\ Announced /\ Applied /\ [UINext]_allVars => Applied'
<1> SUFFICES ASSUME IInv, Ids, Announced, Applied, [UINext]_allVars PROVE Applied'
  OBVIOUS
<1>t. /\ builds \in Nat /\ snapshot.id \in Nat /\ phase2 \subseteq Phase2Record
      /\ \A b \in phase2 : b.snap.id \in Nat
  BY DEF IInv, TypeOK, DataTypes, Snapshot, Phase2Record
<1>u. ui.id \in Nat /\ ui.id <= builds
  BY <1>t, PastNumber DEF Announced, NoSnapshot, Ids
<1>1. ASSUME UNCHANGED <<ui, applied>>, builds' \in {builds, builds + 1},
             \A b \in phase2' : \/ \E o \in phase2 : o.snap = b.snap /\ (b.pc = "run" => o.pc = "run")
                                \/ b.snap.id = builds + 1 /\ builds' = builds + 1
      PROVE  Applied'
  <2>1. \A b \in phase2' : b.snap.id <= builds'
    BY <1>1, <1>t DEF Applied
  <2>2. ASSUME applied, NEW b \in phase2', b.snap.id = ui.id PROVE b.pc # "run"
    BY <2>2, <1>1, <1>t, <1>u DEF Applied, AppliedOwn
  <2> QED
    BY <2>1, <2>2, <1>1 DEF Applied, AppliedOwn
<1>2. ASSUME UNCHANGED <<ui, applied, builds, phase2>> PROVE Applied'
  BY <1>2, <1>1
<1>3. CASE WorkerStep
  <2>1. UNCHANGED <<ui, applied>>
    BY <1>3 DEF WorkerStep
  <2>2. ASSUME NEW p \in Proc, BuildSeal(p) PROVE Applied'
    <3>1. PICK s : s = [id |-> builds + 1, data |-> proc[p].hash, recipe |-> proc[p].recipe]
      OBVIOUS
    <3>2. builds' = builds + 1 /\ s.id = builds + 1
      BY <2>2, <3>1 DEF BuildSeal
    <3>3. phase2' \subseteq phase2 \cup {[snap |-> s, pc |-> "run"]}
      BY <2>2, <3>1 DEF BuildSeal
    <3> QED
      BY <3>2, <3>3, <2>1, <1>1
  <2>3. ASSUME NEW p \in Proc, Process(p), ~BuildSeal(p) PROVE UNCHANGED <<builds, phase2>>
    BY <2>3 DEF Process, ProcessBegin, BuildLoad, BuildFail, BuildDedup, ProcessDiscard,
       ProcessCommit, CommitIf, ProcessNotify
  <2>4. CASE Phase2
    <3>1. PICK b \in phase2 : Phase2Done(b) \/ Phase2Check(b) \/ Phase2Notify(b)
      BY <2>4 DEF Phase2
    <3>2. b \in Phase2Record
      BY <1>t
    <3>3. /\ [b EXCEPT !.pc = "check"].snap = b.snap /\ [b EXCEPT !.pc = "check"].pc = "check"
          /\ [b EXCEPT !.pc = "send"].snap = b.snap /\ [b EXCEPT !.pc = "send"].pc = "send"
      BY <3>2 DEF Phase2Record
    <3>4. phase2' \subseteq phase2 \cup {[b EXCEPT !.pc = "check"], [b EXCEPT !.pc = "send"]}
          /\ builds' = builds
      BY <3>1 DEF Phase2Done, Phase2Check, Phase2Notify
    <3> QED
      BY <3>3, <3>4, <2>1, <1>1
  <2>5. CASE FileChange \/ StartLock \/ StartTrigger \/ ProcessJoin \/ \E r \in Recipes : SetRecipe(r)
    BY <2>5, <2>1, <1>2 DEF FileChange, StartLock, StartTrigger, ProcessJoin, SetRecipe, buildVars
  <2>6. CASE FileStep
    BY <2>6, <2>1, <1>2 DEF FileStep, WatcherNotify, StartLoop, Looping, LoopToken, LoopExit, buildVars
  <2>7. CASE DoltStep
    BY <2>7, <2>1, <1>2 DEF DoltStep, DoltStart, ServerFails, ServerReturns, Poll, PollBaseline,
       PollSame, PollChanged, PollFails, PollFailsNotifyingAt, PollRestored, PollVerified, buildVars, vars
  <2> QED
    BY <1>3, <2>1, <2>2, <2>3, <2>4, <2>5, <2>6, <2>7, <1>2 DEF WorkerStep, CommonStep
<1>4. CASE UIStep \/ UNCHANGED allVars
  <2>1. UNCHANGED <<builds, phase2>>
    BY <1>4, UIKinds
  <2>2. ASSUME NEW c \in Chains, HandleReady(c) PROVE Applied'
    BY <2>1, <2>2 DEF HandleReady, Swap, Applied, AppliedOwn
  <2>3. ASSUME NEW x \in awaiting, HandlePhase2Ready(x) PROVE Applied'
    BY <2>1, <2>3 DEF HandlePhase2Ready, Applied, AppliedOwn
  <2>4. CASE UNCHANGED <<ui, applied>>
    BY <2>1, <2>4, <1>2
  <2> QED
    BY <1>4, <2>2, <2>3, <2>4 DEF UIStep, Receive, HandleOther, HandleConnection, HandlePhase2Update,
       ForceRefreshKey, StartStep, ToggleModal, allVars, uiVars
<1> QED
  BY <1>3, <1>4 DEF UINext
-----------------------------------------------------------------------------
(* What can damage the delivery is never forgotten, and send() records it. *)
LEMMA MishapsGrow ==
  ASSUME [UINext]_allVars
  PROVE  mishaps \subseteq mishaps'
BY DEF UINext, WorkerStep, NoteMishaps, UIStep, Receive, HandleOther, HandleConnection, HandleReady,
   HandlePhase2Update, HandlePhase2Ready, ForceRefreshKey, StartStep, ToggleModal, allVars, uiVars

LEMMA PushLast ==
  ASSUME NEW q \in Seq(Message), Len(q) <= ChanCap, NEW m \in Message
  PROVE  Push(q, m)[Len(Push(q, m))] = m
BY PushShape

\* Every newly announced snapshot is the published one, unless one was overtaken.
LEMMA InOrderAnnounced ==
  ASSUME TypeOK, Calm, Ids, Announced, NoteMishaps, "overtaken" \notin mishaps',
         NEW p \in Proc, Announces(p), "ready" \in Kinds
  PROVE  /\ Msg("ready", proc[p].snap) \in Message
         /\ msgCh' = Push(msgCh, Msg("ready", proc[p].snap)) /\ msgCh' # msgCh
         /\ proc[p].snap.id = snapshot.id
<1>q. /\ msgCh \in Seq(Message) /\ Len(msgCh) <= ChanCap /\ snapshot.id \in Nat
      /\ proc[p].snap \in Snapshot
  BY DEF TypeOK, ChannelTypes, DataTypes, ProcRecord, Snapshot
<1>m. PICK m : m = Msg("ready", proc[p].snap)
  OBVIOUS
<1>n. m.kind = "ready" /\ m.snap = proc[p].snap /\ m.snap.id \in Nat
  BY <1>m, <1>q DEF Msg, Snapshot
<1>1. m \in Message /\ msgCh' = Push(msgCh, m)
  BY <1>q, <1>m, CalmSend DEF Announces, Calm
<1>2. m \notin Contents(msgCh)
  <2>1. \A n \in Contents(msgCh) : n.kind = "ready" => n.snap.id # proc[p].snap.id
    BY DEF Announced, Past, Announces
  <2> QED
    BY <2>1, <1>n
<1>3. m \in Contents(msgCh') /\ msgCh'[Len(msgCh')] = m
  BY <1>1, <1>q, PushContents, PushLast
<1>4. msgCh' # msgCh
  BY <1>2, <1>3
<1>5. ~(m.snap.id < snapshot.id)
  BY <1>3, <1>4, <1>n DEF NoteMishaps, Sent
<1>6. m.snap.id <= snapshot.id
  BY <1>n DEF Ids, Announces
<1> QED
  BY <1>1, <1>4, <1>5, <1>6, <1>n, <1>m, <1>q

LEMMA OrderlyNext ==
  IInv /\ Calm /\ Ids /\ Announced /\ Orderly /\ [UINext]_allVars => Orderly'
<1> SUFFICES ASSUME IInv, Calm, Ids, Announced, Orderly, [UINext]_allVars, InOrder'
             PROVE  /\ \A c \in Chains \ {1} : chain'[c] = Silent
                    /\ Rising(msgCh')
                    /\ Beyond(msgCh', ui'.id)
                    /\ Handles(1, {"ready"})' =>
                         ui'.id < chain'[1].msg.snap.id /\ Beyond(msgCh', chain'[1].msg.snap.id)
                    /\ \A x \in recycled' : x \in Nat /\ x < ui'.id
  BY DEF Orderly
<1>i. TypeOK /\ Ordered /\ ChainTypes
  BY DEF IInv, Announced
<1>q. msgCh \in Seq(Message) /\ Len(msgCh) <= ChanCap /\ snapshot.id \in Nat
  BY <1>i DEF TypeOK, ChannelTypes, DataTypes, Snapshot
<1>o. /\ InOrder /\ "overtaken" \notin mishaps' /\ "secondChain" \notin mishaps'
  BY MishapsGrow DEF InOrder
<1>h. /\ \A c \in Chains \ {1} : chain[c] = Silent
      /\ Rising(msgCh)
      /\ Beyond(msgCh, ui.id)
      /\ Handles(1, {"ready"}) =>
           ui.id < chain[1].msg.snap.id /\ Beyond(msgCh, chain[1].msg.snap.id)
      /\ \A x \in recycled : x \in Nat /\ x < ui.id
  BY <1>o DEF Orderly
<1>u. ui.id \in Nat /\ ui.id <= snapshot.id
  BY <1>q, PastNumber DEF Announced, NoSnapshot, Ids
<1>m. \A m \in Contents(msgCh) : m.kind = "ready" =>
        /\ m.snap.id \in Nat /\ m.snap.id # 0 /\ m.snap.id <= snapshot.id
        /\ \A p \in Proc : Unsaid(proc[p]) => proc[p].snap.id # m.snap.id
  BY PastNumber DEF Announced, Past
<1>1. CASE WorkerStep
  <2>1. NoteMishaps /\ UNCHANGED <<chain, ui, recycled>>
    BY <1>1 DEF WorkerStep
  <2>b. ASSUME Rising(msgCh'),
               \A x : (x = ui.id \/ (Handles(1, {"ready"}) /\ x = chain[1].msg.snap.id))
                      /\ Beyond(msgCh, x) => Beyond(msgCh', x)
        PROVE  /\ \A c \in Chains \ {1} : chain'[c] = Silent
               /\ Rising(msgCh')
               /\ Beyond(msgCh', ui'.id)
               /\ Handles(1, {"ready"})' =>
                    ui'.id < chain'[1].msg.snap.id /\ Beyond(msgCh', chain'[1].msg.snap.id)
               /\ \A x \in recycled' : x \in Nat /\ x < ui'.id
    BY <2>b, <2>1, <1>h DEF Handles
  <2>2. CASE msgCh' = msgCh
    BY <2>2, <2>b, <1>h
  <2>3. ASSUME NEW m \in Message, m.kind # "ready", msgCh' = Push(msgCh, m)
        PROVE  /\ Rising(msgCh')
               /\ \A x : Beyond(msgCh, x) => Beyond(msgCh', x)
    <3>1. Rising(msgCh')
      BY <2>3, <1>q, <1>h, PushQueue
    <3>2. \A n \in Contents(msgCh') : n.kind = "ready" => n \in Contents(msgCh)
      BY <2>3, <1>q, PushContents
    <3> QED
      BY <3>1, <3>2 DEF Beyond
  <2>4. ASSUME NEW p \in Proc, Announces(p), "ready" \in Kinds
        PROVE  /\ Rising(msgCh')
               /\ \A x : (x = ui.id \/ (Handles(1, {"ready"}) /\ x = chain[1].msg.snap.id))
                         /\ Beyond(msgCh, x) => Beyond(msgCh', x)
    <3>1. PICK m : m = Msg("ready", proc[p].snap)
      OBVIOUS
    <3>2. /\ m \in Message /\ msgCh' = Push(msgCh, m) /\ m.snap = proc[p].snap
          /\ m.snap.id = snapshot.id
      BY <2>1, <2>4, <3>1, <1>i, <1>o, InOrderAnnounced DEF Msg
    <3>3. Unsaid(proc[p]) /\ proc[p].snap.id = snapshot.id
      BY <2>4, <3>2 DEF Announces
    <3>4. \A n \in Contents(msgCh) : n.kind = "ready" => n.snap.id < m.snap.id
      BY <1>m, <3>2, <3>3, <1>q
    <3>5. Rising(msgCh')
      BY <3>2, <3>4, <1>q, <1>h, PushQueue
    <3>6. ui.id < m.snap.id
      <4>1. CASE ui = NoSnapshot
        BY <4>1, <3>2, <3>3, <1>q DEF NoSnapshot, Unsaid
      <4>2. CASE Past(ui, snapshot, proc)
        <5>1. ui.id # snapshot.id
          BY <4>2, <3>3 DEF Past
        <5>2. ui.id < snapshot.id
          BY <5>1, <1>u, <1>q
        <5> QED
          BY <5>2, <3>2
      <4> QED
        BY <4>1, <4>2 DEF Announced
    <3>7. Handles(1, {"ready"}) => chain[1].msg.snap.id < m.snap.id
      <4>1. Handles(1, {"ready"}) => Past(chain[1].msg.snap, snapshot, proc)
        BY DEF Announced
      <4>2. Handles(1, {"ready"}) => chain[1].msg.snap.id \in Nat
        BY <4>1, PastNumber
      <4> QED
        BY <4>1, <4>2, <3>2, <3>3, <1>q DEF Past
    <3>8. Contents(msgCh') \subseteq Contents(msgCh) \cup {m}
      BY <3>2, <1>q, PushContents
    <3> QED
      BY <3>5, <3>6, <3>7, <3>8 DEF Beyond
  <2>5. (Neutral /\ Chatter) \/ \E p \in Proc : Commits(p) \/ Announces(p)
    BY <1>1, <1>i, WorkerKinds
  <2>6. ASSUME NEW p \in Proc, Announces(p), "ready" \notin Kinds PROVE msgCh' = msgCh
    BY <2>6, <1>i, CalmSend DEF Announces, Calm, TypeOK, DataTypes, ProcRecord
  <2>7. CASE Neutral /\ Chatter
    BY <2>7, <2>2, <2>3, <2>b DEF Chatter
  <2>8. ASSUME NEW p \in Proc, Commits(p) PROVE msgCh' = msgCh
    BY <2>8 DEF Commits
  <2> QED
    BY <2>2, <2>4, <2>5, <2>6, <2>7, <2>8, <2>b
<1>2. CASE UIStep \/ UNCHANGED allVars
  <2>c. ASSUME NEW c \in Chains, chain[c].st \in {"wait", "msg"} PROVE c = 1
    BY <2>c, <1>h DEF Silent
  <2>1. ASSUME NEW c \in Chains, Receive(c)
        PROVE  /\ \A d \in Chains \ {1} : chain'[d] = Silent
               /\ Rising(msgCh')
               /\ Beyond(msgCh', ui'.id)
               /\ Handles(1, {"ready"})' =>
                    ui'.id < chain'[1].msg.snap.id /\ Beyond(msgCh', chain'[1].msg.snap.id)
               /\ \A x \in recycled' : x \in Nat /\ x < ui'.id
    <3>1. /\ chain[c] = Waiting /\ msgCh # <<>> /\ msgCh' = Tail(msgCh)
          /\ chain' = [chain EXCEPT ![c] = Holding(Head(msgCh))]
          /\ UNCHANGED <<ui, recycled>>
      BY <2>1 DEF Receive
    <3>2. c = 1
      BY <3>1, <2>c DEF Waiting, Silent
    <3>3. chain'[1].msg = Head(msgCh) /\ \A d \in Chains \ {1} : chain'[d] = chain[d]
      BY <3>1, <3>2, <1>i DEF Holding, ChainTypes
    <3>4. /\ Contents(msgCh) = Contents(msgCh') \cup {Head(msgCh)}
          /\ Rising(msgCh') /\ (Head(msgCh).kind = "ready" => Beyond(msgCh', Head(msgCh).snap.id))
      BY <3>1, <1>q, <1>h, TailQueue
    <3>5. Beyond(msgCh', ui.id) /\ (Head(msgCh).kind = "ready" => ui.id < Head(msgCh).snap.id)
      BY <3>4, <1>h DEF Beyond
    <3> QED
      BY <3>1, <3>3, <3>4, <3>5, <1>h DEF Handles
  <2>2. ASSUME NEW c \in Chains, HandleReady(c)
        PROVE  /\ \A d \in Chains \ {1} : chain'[d] = Silent
               /\ Rising(msgCh')
               /\ Beyond(msgCh', ui'.id)
               /\ Handles(1, {"ready"})' =>
                    ui'.id < chain'[1].msg.snap.id /\ Beyond(msgCh', chain'[1].msg.snap.id)
               /\ \A x \in recycled' : x \in Nat /\ x < ui'.id
    <3>1. /\ Handles(c, {"ready"}) /\ ui' = chain[c].msg.snap /\ msgCh' = msgCh
          /\ chain' = [chain EXCEPT ![c] = Waiting]
          /\ recycled' \subseteq recycled \cup {ui.id}
      BY <2>2 DEF HandleReady, Swap, Resubscribe, vars
    <3>2. c = 1
      BY <3>1, <2>c DEF Handles
    <3>3. ui.id < ui'.id /\ Beyond(msgCh, ui'.id)
      BY <3>1, <3>2, <1>h
    <3>4. ui'.id \in Nat
      BY <3>1, <3>2, PastNumber DEF Announced
    <3>5. \A x \in recycled' : x \in Nat /\ x < ui'.id
      BY <3>1, <3>3, <3>4, <1>h, <1>u
    <3>6. ~Handles(1, {"ready"})' /\ \A d \in Chains \ {1} : chain'[d] = chain[d]
      BY <3>1, <3>2, <1>i, HandledChain
    <3> QED
      BY <3>1, <3>3, <3>5, <3>6, <1>h
  <2>3. ASSUME NEW c \in Chains, HandleOther(c) \/ HandleConnection(c) \/ HandlePhase2Update(c)
        PROVE  /\ \A d \in Chains \ {1} : chain'[d] = Silent
               /\ Rising(msgCh')
               /\ Beyond(msgCh', ui'.id)
               /\ Handles(1, {"ready"})' =>
                    ui'.id < chain'[1].msg.snap.id /\ Beyond(msgCh', chain'[1].msg.snap.id)
               /\ \A x \in recycled' : x \in Nat /\ x < ui'.id
    <3>1. /\ chain[c].st = "msg" /\ msgCh' = msgCh /\ UNCHANGED <<ui, recycled>>
          /\ chain' = [chain EXCEPT ![c] = Waiting]
      BY <2>3 DEF HandleOther, HandleConnection, HandlePhase2Update, Handles, Resubscribe, vars
    <3>2. c = 1
      BY <3>1, <2>c
    <3>3. ~Handles(1, {"ready"})' /\ \A d \in Chains \ {1} : chain'[d] = chain[d]
      BY <3>1, <3>2, <1>i, HandledChain
    <3> QED
      BY <3>1, <3>3, <1>h
  <2>4. ASSUME UNCHANGED <<chain, msgCh, ui, recycled>>
        PROVE  /\ \A d \in Chains \ {1} : chain'[d] = Silent
               /\ Rising(msgCh')
               /\ Beyond(msgCh', ui'.id)
               /\ Handles(1, {"ready"})' =>
                    ui'.id < chain'[1].msg.snap.id /\ Beyond(msgCh', chain'[1].msg.snap.id)
               /\ \A x \in recycled' : x \in Nat /\ x < ui'.id
    BY <2>4, <1>h DEF Handles
  <2>5. ASSUME NEW c \in Chains, StartStep(c) PROVE UNCHANGED <<chain, msgCh, ui, recycled>>
    BY <2>5, <1>o DEF StartStep, StartWatcher
  <2>6. ASSUME NEW c \in Chains PROVE ~ForceRefreshKey(c)
    BY <1>o DEF ForceRefreshKey
  <2> QED
    BY <1>2, <2>1, <2>2, <2>3, <2>4, <2>5, <2>6 DEF UIStep, HandlePhase2Ready, ToggleModal, allVars,
       uiVars, vars
<1> QED
  BY <1>1, <1>2 DEF UINext
-----------------------------------------------------------------------------
(* Nothing is lost between the worker and the screen.                      *)
LEMMA ShippedNext ==
  ASSUME "ready" \in Kinds
  PROVE  IInv /\ Calm /\ Ids /\ Announced /\ Orderly /\ Shipped /\ [UINext]_allVars => Shipped'
<1> SUFFICES ASSUME IInv, Calm, Ids, Announced, Orderly, Shipped, [UINext]_allVars, mishaps' = {}
             PROVE  \/ ui' = snapshot'
                    \/ \E p \in Proc : Unsaid(proc'[p]) /\ proc'[p].snap = snapshot'
                    \/ \E m \in Contents(msgCh') : m.kind = "ready" /\ m.snap = snapshot'
                    \/ Handles(1, {"ready"})' /\ chain'[1].msg.snap = snapshot'
  BY DEF Shipped, Unsaid
<1>i. TypeOK /\ Ordered /\ ChainTypes
  BY DEF IInv, Announced
<1>q. msgCh \in Seq(Message) /\ Len(msgCh) <= ChanCap /\ snapshot.id \in Nat
  BY <1>i DEF TypeOK, ChannelTypes, DataTypes, Snapshot
<1>o. mishaps = {} /\ InOrder
  BY MishapsGrow DEF InOrder
<1>h. \/ ui = snapshot
      \/ \E p \in Proc : Unsaid(proc[p]) /\ proc[p].snap = snapshot
      \/ \E m \in Contents(msgCh) : m.kind = "ready" /\ m.snap = snapshot
      \/ Handles(1, {"ready"}) /\ chain[1].msg.snap = snapshot
  BY <1>o DEF Shipped
<1>1. CASE WorkerStep
  <2>1. NoteMishaps /\ UNCHANGED <<chain, ui>>
    BY <1>1 DEF WorkerStep
  <2>2. ASSUME NEW m \in Message, msgCh' = Push(msgCh, m)
        PROVE  Contents(msgCh) \subseteq Contents(msgCh') /\ (msgCh' # msgCh => m \in Contents(msgCh'))
    <3>1. CASE msgCh' = msgCh
      BY <3>1
    <3>2. CASE msgCh' # msgCh
      <4>1. Len(msgCh) # ChanCap
        BY <2>1, <3>2 DEF NoteMishaps, Sent
      <4>2. Len(msgCh) < ChanCap
        BY <4>1, <1>q
      <4> QED
        BY <4>2, <2>2, <1>q, PushContents
    <3> QED
      BY <3>1, <3>2
  <2>3. ASSUME Neutral, Chatter
        PROVE  \/ ui' = snapshot'
               \/ \E p \in Proc : Unsaid(proc'[p]) /\ proc'[p].snap = snapshot'
               \/ \E m \in Contents(msgCh') : m.kind = "ready" /\ m.snap = snapshot'
               \/ Handles(1, {"ready"})' /\ chain'[1].msg.snap = snapshot'
    <3>1. Contents(msgCh) \subseteq Contents(msgCh')
      BY <2>3, <2>2 DEF Chatter
    <3>2. \A p \in Proc : Unsaid(proc[p]) => proc'[p] = proc[p]
      BY <2>3 DEF Neutral
    <3>3. snapshot' = snapshot
      BY <2>3 DEF Neutral
    <3> QED
      BY <3>1, <3>2, <3>3, <2>1, <1>h DEF Handles
  <2>4. ASSUME NEW p \in Proc, Commits(p) PROVE Unsaid(proc'[p]) /\ proc'[p].snap = snapshot'
    BY <2>4 DEF Commits
  <2>5. ASSUME NEW p \in Proc, Announces(p)
        PROVE  \/ ui' = snapshot'
               \/ \E q \in Proc : Unsaid(proc'[q]) /\ proc'[q].snap = snapshot'
               \/ \E m \in Contents(msgCh') : m.kind = "ready" /\ m.snap = snapshot'
               \/ Handles(1, {"ready"})' /\ chain'[1].msg.snap = snapshot'
    <3>1. PICK m : m = Msg("ready", proc[p].snap)
      OBVIOUS
    <3>2. /\ m \in Message /\ msgCh' = Push(msgCh, m) /\ msgCh' # msgCh
      BY <2>1, <2>5, <3>1, <1>i, InOrderAnnounced
    <3>3. Contents(msgCh) \subseteq Contents(msgCh') /\ m \in Contents(msgCh')
      BY <3>2, <2>2
    <3>4. m.kind = "ready" /\ m.snap = proc[p].snap
      BY <3>1 DEF Msg
    <3>5. snapshot' = snapshot /\ \A q \in Proc \ {p} : proc'[q] = proc[q]
      BY <2>5 DEF Announces
    <3> QED
      BY <3>3, <3>4, <3>5, <2>1, <1>h DEF Handles
  <2> QED
    BY <1>1, <1>i, <2>3, <2>4, <2>5, WorkerKinds
<1>2. CASE UIStep \/ UNCHANGED allVars
  <2>0. snapshot' = snapshot /\ proc' = proc
    BY <1>2, UIKinds
  <2>s. \A c \in Chains \ {1} : chain[c] = Silent
    BY <1>o DEF Orderly
  <2>c. ASSUME NEW c \in Chains, chain[c].st \in {"wait", "msg"} PROVE c = 1
    BY <2>c, <2>s DEF Silent
  <2>1. ASSUME NEW c \in Chains, Receive(c)
        PROVE  \/ ui' = snapshot'
               \/ \E p \in Proc : Unsaid(proc'[p]) /\ proc'[p].snap = snapshot'
               \/ \E m \in Contents(msgCh') : m.kind = "ready" /\ m.snap = snapshot'
               \/ Handles(1, {"ready"})' /\ chain'[1].msg.snap = snapshot'
    <3>1. /\ chain[c] = Waiting /\ msgCh # <<>> /\ msgCh' = Tail(msgCh) /\ ui' = ui
          /\ chain' = [chain EXCEPT ![c] = Holding(Head(msgCh))]
      BY <2>1 DEF Receive
    <3>2. c = 1 /\ chain[c].st = "wait"
      BY <3>1, <2>c DEF Waiting, Silent
    <3>3. chain'[1].msg = Head(msgCh) /\ chain'[1].st = "msg"
      BY <3>1, <3>2, <1>i DEF Holding, ChainTypes
    <3>4. Contents(msgCh) = Contents(msgCh') \cup {Head(msgCh)}
      BY <3>1, <1>q, TailQueue
    <3>5. ~Handles(1, {"ready"})
      BY <3>2 DEF Handles
    <3> QED
      BY <3>1, <3>3, <3>4, <3>5, <2>0, <1>h DEF Handles
  <2>2. ASSUME NEW c \in Chains, HandleReady(c)
        PROVE  \/ ui' = snapshot'
               \/ \E p \in Proc : Unsaid(proc'[p]) /\ proc'[p].snap = snapshot'
               \/ \E m \in Contents(msgCh') : m.kind = "ready" /\ m.snap = snapshot'
    <3>1. Handles(c, {"ready"}) /\ ui' = chain[c].msg.snap /\ msgCh' = msgCh
      BY <2>2 DEF HandleReady, Swap, vars
    <3>2. c = 1
      BY <3>1, <2>c DEF Handles
    <3>3. ui.id < ui'.id /\ Past(ui', snapshot, proc)
      BY <3>1, <3>2, <1>o DEF Orderly, Announced
    <3>4. ui.id \in Nat /\ ui'.id \in Nat /\ ui'.id <= snapshot.id
      BY <3>3, PastNumber DEF Announced, NoSnapshot
    <3>5. ui # snapshot
      BY <3>3, <3>4, <1>q
    <3> QED
      BY <3>1, <3>2, <3>5, <2>0, <1>h
  <2>3. ASSUME NEW c \in Chains, HandleOther(c) \/ HandleConnection(c) \/ HandlePhase2Update(c)
        PROVE  \/ ui' = snapshot'
               \/ \E p \in Proc : Unsaid(proc'[p]) /\ proc'[p].snap = snapshot'
               \/ \E m \in Contents(msgCh') : m.kind = "ready" /\ m.snap = snapshot'
    <3>1. /\ chain[c].st = "msg" /\ chain[c].msg.kind # "ready" /\ ui' = ui /\ msgCh' = msgCh
      BY <2>3 DEF HandleOther, HandleConnection, HandlePhase2Update, Handles, vars
    <3>2. ~Handles(1, {"ready"})
      BY <3>1, <2>c DEF Handles
    <3> QED
      BY <3>1, <3>2, <2>0, <1>h
  <2>4. CASE UNCHANGED <<chain, msgCh, ui>>
    BY <2>4, <2>0, <1>h DEF Handles
  <2>5. ASSUME NEW c \in Chains, StartStep(c) PROVE UNCHANGED <<chain, msgCh, ui>>
    BY <2>5 DEF StartStep, StartWatcher
  <2>6. ASSUME NEW c \in Chains PROVE ~ForceRefreshKey(c)
    BY DEF ForceRefreshKey
  <2> QED
    BY <1>2, <2>1, <2>2, <2>3, <2>4, <2>5, <2>6 DEF UIStep, HandlePhase2Ready, ToggleModal, allVars,
       uiVars, vars
<1> QED
  BY <1>1, <1>2 DEF UINext

-----------------------------------------------------------------------------
(* What a step says of the connection while polls fail.                    *)
LEMMA PollKinds ==
  ASSUME TypeOK, Calm, PollTypes, Sources, "lost" \in Kinds, WorkerStep
  PROVE  \/ fails' = 0
         \/ \E m \in Message : m.kind = "lost" /\ msgCh' = Push(msgCh, m)
         \/ /\ fails > 0
            /\ \/ msgCh' = msgCh
               \/ \E m \in Message : m.kind \notin Cheerful /\ msgCh' = Push(msgCh, m)
<1>t. fails \in 0..ManyFails /\ ~ctxDone /\ ManyFails \in Nat
  BY DEF PollTypes, Calm, ManyFails, ReconnectAfter
<1>s. ASSUME NEW k, NEW s \in Snapshot, k \notin Cheerful, Send(Msg(k, s))
      PROVE  \/ msgCh' = msgCh
             \/ \E m \in Message : m.kind \notin Cheerful /\ msgCh' = Push(msgCh, m)
  <2>1. Msg(k, s).kind = k
    BY DEF Msg
  <2> QED
    BY <1>s, <2>1, <1>t, CalmSend
<1>b. ASSUME fails' = fails,
             \/ msgCh' = msgCh
             \/ \E m \in Message : m.kind \notin Cheerful /\ msgCh' = Push(msgCh, m)
      PROVE  \/ fails' = 0
             \/ /\ fails > 0
                /\ \/ msgCh' = msgCh
                   \/ \E m \in Message : m.kind \notin Cheerful /\ msgCh' = Push(msgCh, m)
  BY <1>b, <1>t
<1>1. CASE CommonStep /\ UNCHANGED pollVars
  <2>0. fails' = fails
    BY <1>1 DEF pollVars
  <2>1. CASE FileChange \/ StartLock \/ StartTrigger \/ ProcessJoin \/ \E r \in Recipes : SetRecipe(r)
    BY <2>0, <2>1, <1>b DEF FileChange, StartLock, StartTrigger, ProcessJoin, SetRecipe
  <2>2. CASE Phase2
    <3>1. PICK b \in phase2 : Phase2Done(b) \/ Phase2Check(b) \/ Phase2Notify(b)
      BY <2>2 DEF Phase2
    <3>2. b.snap \in Snapshot
      BY DEF TypeOK, DataTypes, Phase2Record
    <3>3. msgCh' = msgCh \/ Send(Msg("phase2", b.snap))
      BY <3>1 DEF Phase2Done, Phase2Check, Phase2Notify
    <3> QED
      BY <2>0, <3>2, <3>3, <1>s, <1>b DEF Cheerful
  <2>3. ASSUME NEW p \in Proc, Process(p)
        PROVE  \/ msgCh' = msgCh
               \/ \E m \in Message : m.kind \notin Cheerful /\ msgCh' = Push(msgCh, m)
    <3>1. proc[p].snap \in Snapshot
      BY DEF TypeOK, DataTypes, ProcRecord
    <3>2. \/ msgCh' = msgCh \/ Send(Msg("started", NoSnapshot)) \/ Send(Msg("error", NoSnapshot))
          \/ Send(Msg("ready", proc[p].snap))
      BY <2>3 DEF Process, ProcessBegin, BuildLoad, BuildFail, BuildDedup, BuildSeal, ProcessDiscard,
         ProcessCommit, CommitIf, ProcessNotify
    <3> QED
      BY <3>1, <3>2, <1>s, NoSnapshotType DEF Cheerful
  <2> QED
    BY <1>1, <2>0, <2>1, <2>2, <2>3, <1>b DEF CommonStep
<1>2. CASE FileStep /\ UNCHANGED pollVars
  BY <1>2, <1>b DEF FileStep, WatcherNotify, StartLoop, Looping, LoopToken, LoopExit, pollVars
<1>3. CASE DoltStep
  <2>1. CASE DoltStart \/ ServerFails \/ ServerReturns \/ PollBaseline \/ PollSame \/ PollChanged
    <3>1. fails' = fails /\ msgCh' = msgCh
      BY <2>1 DEF DoltStart, ServerFails, ServerReturns, PollBaseline, PollSame, PollChanged, vars
    <3> QED
      BY <3>1, <1>b
  <2>2. CASE PollFails
    <3>1. Msg("lost", NoSnapshot).kind = "lost"
      BY DEF Msg
    <3>2. CASE Send(Msg("lost", NoSnapshot))
      BY <3>1, <3>2, <1>t, CalmSend, NoSnapshotType
    <3>3. CASE ~Send(Msg("lost", NoSnapshot))
      <4>1. msgCh' = msgCh /\ (IF fails = ManyFails THEN fails ELSE fails + 1) # 1
        BY <2>2, <3>3 DEF PollFails, PollFailsNotifyingAt
      <4>2. fails > 0
        BY <4>1, <1>t DEF ManyFails, ReconnectAfter
      <4> QED
        BY <4>1, <4>2
    <3> QED
      BY <3>2, <3>3
  <2>3. CASE PollRestored
    BY <2>3 DEF PollRestored
  <2>4. CASE PollVerified
    BY <2>4 DEF PollVerified, Sources
  <2> QED
    BY <1>3, <2>1, <2>2, <2>3, <2>4 DEF DoltStep, Poll
<1> QED
  BY <1>1, <1>2, <1>3 DEF WorkerStep

LEMMA HonestNext ==
  ASSUME "lost" \in Kinds
  PROVE  IInv /\ Calm /\ PollTypes /\ Sources /\ Announced /\ Orderly /\ Honest /\ [UINext]_allVars
           => Honest'
<1> SUFFICES ASSUME IInv, Calm, PollTypes, Sources, Announced, Orderly, Honest, [UINext]_allVars,
                    mishaps' = {}, fails' > 0
             PROVE  /\ Sobering(msgCh')
                    /\ Handles(1, Cheerful)' => SomeLost(msgCh')
                    /\ connected' => SomeLost(msgCh') \/ Handles(1, {"lost"})'
  BY DEF Honest, Cheerful
<1>i. TypeOK /\ ChainTypes
  BY DEF IInv, Announced
<1>q. msgCh \in Seq(Message) /\ Len(msgCh) <= ChanCap
  BY <1>i DEF TypeOK, ChannelTypes
<1>o. mishaps = {} /\ InOrder
  BY MishapsGrow DEF InOrder
<1>1. CASE WorkerStep
  <2>1. NoteMishaps /\ UNCHANGED <<chain, connected>>
    BY <1>1 DEF WorkerStep
  <2>2. ASSUME NEW m \in Message, m.kind = "lost", msgCh' = Push(msgCh, m)
        PROVE  Sobering(msgCh') /\ SomeLost(msgCh')
    BY <2>2, <1>q, PushQueue
  <2>3. ASSUME fails > 0, Sobering(msgCh'), SomeLost(msgCh) => SomeLost(msgCh')
        PROVE  /\ Sobering(msgCh')
               /\ Handles(1, Cheerful)' => SomeLost(msgCh')
               /\ connected' => SomeLost(msgCh') \/ Handles(1, {"lost"})'
    BY <2>3, <2>1, <1>o DEF Honest, Handles
  <2>4. ASSUME fails > 0, NEW m \in Message, m.kind \notin Cheerful, msgCh' = Push(msgCh, m),
               msgCh' # msgCh
        PROVE  Sobering(msgCh') /\ (SomeLost(msgCh) => SomeLost(msgCh'))
    <3>1. Len(msgCh) # ChanCap
      BY <2>1, <2>4 DEF NoteMishaps, Sent
    <3>2. Len(msgCh) < ChanCap
      BY <3>1, <1>q
    <3>3. Sobering(msgCh)
      BY <2>4, <1>o DEF Honest
    <3>4. Sobering(msgCh')
      BY <3>2, <3>3, <2>4, <1>q, PushQueue
    <3>5. Contents(msgCh) \subseteq Contents(msgCh')
      BY <3>2, <2>4, <1>q, PushContents
    <3> QED
      BY <3>4, <3>5 DEF SomeLost
  <2>5. CASE fails > 0 /\ msgCh' = msgCh
    BY <2>5, <2>3, <1>o DEF Honest
  <2>6. CASE SomeLost(msgCh') /\ Sobering(msgCh')
    BY <2>6
  <2> QED
    BY <1>1, <1>i, <2>2, <2>3, <2>4, <2>5, <2>6, PollKinds
<1>2. CASE UIStep \/ UNCHANGED allVars
  <2>0. fails' = fails
    BY <1>2, UIKinds
  <2>h. /\ Sobering(msgCh)
        /\ Handles(1, Cheerful) => SomeLost(msgCh)
        /\ connected => SomeLost(msgCh) \/ Handles(1, {"lost"})
    BY <2>0, <1>o DEF Honest
  <2>s. \A c \in Chains \ {1} : chain[c] = Silent
    BY <1>o DEF Orderly
  <2>c. ASSUME NEW c \in Chains, chain[c].st \in {"wait", "msg"} PROVE c = 1
    BY <2>c, <2>s DEF Silent
  <2>1. ASSUME NEW c \in Chains, Receive(c)
        PROVE  /\ Sobering(msgCh')
               /\ Handles(1, Cheerful)' => SomeLost(msgCh')
               /\ connected' => SomeLost(msgCh') \/ Handles(1, {"lost"})'
    <3>1. /\ chain[c] = Waiting /\ msgCh # <<>> /\ msgCh' = Tail(msgCh) /\ connected' = connected
          /\ chain' = [chain EXCEPT ![c] = Holding(Head(msgCh))]
      BY <2>1 DEF Receive
    <3>2. c = 1 /\ chain[c].st = "wait"
      BY <3>1, <2>c DEF Waiting, Silent
    <3>3. chain'[1].msg = Head(msgCh) /\ chain'[1].st = "msg"
      BY <3>1, <3>2, <1>i DEF Holding, ChainTypes
    <3>4. /\ Contents(msgCh) = Contents(msgCh') \cup {Head(msgCh)}
          /\ Sobering(msgCh') /\ (Head(msgCh).kind \in Cheerful => SomeLost(msgCh'))
      BY <3>1, <1>q, <2>h, TailQueue
    <3>5. SomeLost(msgCh) => SomeLost(msgCh') \/ Head(msgCh).kind = "lost"
      BY <3>4 DEF SomeLost
    <3>6. ~Handles(1, {"lost"})
      BY <3>2 DEF Handles
    <3> QED
      BY <3>1, <3>3, <3>4, <3>5, <3>6, <2>h DEF Handles
  <2>2. ASSUME NEW c \in Chains, chain[c].st = "msg", chain' = [chain EXCEPT ![c] = Waiting],
               msgCh' = msgCh, connected' => SomeLost(msgCh)
        PROVE  /\ Sobering(msgCh')
               /\ Handles(1, Cheerful)' => SomeLost(msgCh')
               /\ connected' => SomeLost(msgCh') \/ Handles(1, {"lost"})'
    <3>1. c = 1
      BY <2>2, <2>c
    <3>2. ~Handles(1, Cheerful)'
      BY <3>1, <2>2, <1>i, HandledChain
    <3> QED
      BY <3>2, <2>2, <2>h
  <2>3. ASSUME NEW c \in Chains, HandleConnection(c)
        PROVE  /\ Sobering(msgCh')
               /\ Handles(1, Cheerful)' => SomeLost(msgCh')
               /\ connected' => SomeLost(msgCh') \/ Handles(1, {"lost"})'
    <3>1. /\ Handles(c, {"lost", "restored", "verified"}) /\ msgCh' = msgCh
          /\ connected' = (chain[c].msg.kind # "lost")
          /\ chain' = [chain EXCEPT ![c] = Waiting]
      BY <2>3 DEF HandleConnection, Resubscribe, vars
    <3>2. c = 1
      BY <3>1, <2>c DEF Handles
    <3>3. connected' => chain[c].msg.kind \in Cheerful
      BY <3>1 DEF Handles, Cheerful
    <3>4. connected' => Handles(1, Cheerful)
      BY <3>1, <3>2, <3>3 DEF Handles
    <3> QED
      BY <3>1, <3>4, <2>2, <2>h DEF Handles
  <2>4. ASSUME NEW c \in Chains, HandleOther(c) \/ HandleReady(c) \/ HandlePhase2Update(c)
        PROVE  /\ Sobering(msgCh')
               /\ Handles(1, Cheerful)' => SomeLost(msgCh')
               /\ connected' => SomeLost(msgCh') \/ Handles(1, {"lost"})'
    <3>1. /\ chain[c].st = "msg" /\ chain[c].msg.kind # "lost" /\ msgCh' = msgCh
          /\ connected' = connected /\ chain' = [chain EXCEPT ![c] = Waiting]
      BY <2>4 DEF HandleOther, HandleReady, HandlePhase2Update, Handles, Resubscribe, vars
    <3>2. ~Handles(1, {"lost"})
      BY <3>1, <2>c DEF Handles
    <3> QED
      BY <3>1, <3>2, <2>2, <2>h
  <2>5. CASE UNCHANGED <<chain, msgCh, connected>>
    BY <2>5, <2>h DEF Handles
  <2>6. ASSUME NEW c \in Chains, StartStep(c) PROVE UNCHANGED <<chain, msgCh, connected>>
    BY <2>6 DEF StartStep, StartWatcher
  <2>7. ASSUME NEW c \in Chains PROVE ~ForceRefreshKey(c)
    BY DEF ForceRefreshKey
  <2> QED
    BY <1>2, <2>1, <2>3, <2>4, <2>5, <2>6, <2>7 DEF UIStep, HandlePhase2Ready, ToggleModal, allVars,
       uiVars, vars
<1> QED
  BY <1>1, <1>2 DEF UINext

-----------------------------------------------------------------------------
UInv == WInv /\ Ids /\ Announced /\ Applied /\ Orderly

LEMMA UIInductive == UISpec => []UInv
<1>1. UIInit => Ids /\ Announced /\ Applied /\ Orderly
  <2> SUFFICES ASSUME UIInit PROVE Ids /\ Announced /\ Applied /\ Orderly
    OBVIOUS
  <2>1. Ids
    BY DEF UIInit, Init, Ids, NoSnapshot, IdleProc, ProcAt, Sealed, Unsaid
  <2>2. ChainTypes
    <3>1. Silent.msg \in MessageOrError /\ Silent = [st |-> "off", msg |-> Silent.msg]
      BY NoSnapshotType DEF Silent, MessageOrError
    <3>2. Silent \in [st : {"off", "wait", "msg"}, msg : MessageOrError]
      BY <3>1
    <3>3. Waiting \in [st : {"off", "wait", "msg"}, msg : MessageOrError]
      BY <3>1 DEF Waiting
    <3> QED
      BY <3>2, <3>3 DEF UIInit, ChainTypes
  <2>3. /\ \A c \in Chains \ {1} : chain[c] = Silent
        /\ \A c \in Chains : chain[c].st # "msg"
    BY DEF UIInit, Silent, Waiting
  <2>4. ui = NoSnapshot /\ msgCh = <<>> /\ phase2 = {} /\ ~applied /\ recycled = {}
    BY DEF UIInit, Init
  <2>5. Contents(msgCh) = {} /\ Rising(msgCh)
    BY <2>4 DEF Contents, Rising
  <2> QED
    BY <2>1, <2>2, <2>3, <2>4, <2>5 DEF Announced, Applied, AppliedOwn, Orderly, Beyond, Handles
<1>2. UInv /\ [UINext]_allVars => (Ids /\ Announced /\ Applied /\ Orderly)'
  BY IdsNext, AnnouncedNext, AppliedNext, OrderlyNext DEF UInv, WInv
<1> QED
  BY <1>1, <1>2, WorkerInductive, PTL DEF UISpec, UInv

(* Phase 2 results reach the views only for the snapshot being shown, and  *)
(* not before its own metrics are there: handlePhase2Ready compares the    *)
(* statistics the message carries with those of the snapshot being shown.  *)
THEOREM MetricsOwn == UISpec => []AppliedOwn
<1>1. UInv => AppliedOwn
  BY DEF UInv, Applied
<1> QED
  BY <1>1, UIInductive, PTL

(* Issues go back to the pool only when nobody holds them: with one chain  *)
(* and nothing overtaken, what handleSnapshotReady returned is older than  *)
(* the snapshot shown, the one published and the one being compared with.  *)
THEOREM PoolNeverEarly == UISpec => []PoolSafe
<1>1. UInv => PoolSafe
  <2> SUFFICES ASSUME UInv, InOrder
               PROVE  /\ {ui.id, snapshot.id} \cap recycled = {}
                      /\ \A p \in Proc : proc[p].pc = "build" => proc[p].prev \notin recycled
    BY DEF PoolSafe, InOrder
  <2>1. snapshot.id \in Nat
    BY DEF UInv, WInv, IInv, TypeOK, DataTypes, Snapshot
  <2>2. ui.id \in Nat /\ ui.id <= snapshot.id
    BY <2>1, PastNumber DEF UInv, Announced, NoSnapshot
  <2>3. \A x \in recycled : x \in Nat /\ x < ui.id
    BY DEF UInv, Orderly
  <2>4. ui.id \notin recycled /\ snapshot.id \notin recycled
    BY <2>1, <2>2, <2>3
  <2> QED
    BY <2>4 DEF UInv, Ids
<1> QED
  BY <1>1, UIInductive, PTL

(* The user never sees data go back while one chain of commands reads the  *)
(* channel and no snapshot is announced after a newer one was published.   *)
THEOREM ScreenForward == UISpec => UINeverRegresses
<1>1. UInv /\ [UINext]_allVars
        => [mishaps' \cap {"overtaken", "secondChain"} = {} => ui'.id >= ui.id]_allVars
  <2> SUFFICES ASSUME UInv, [UINext]_allVars, InOrder' PROVE ui'.id >= ui.id
    BY DEF InOrder
  <2>1. InOrder
    BY MishapsGrow DEF InOrder
  <2>2. ui.id \in Nat
    BY PastNumber DEF UInv, Announced, NoSnapshot
  <2>3. ASSUME NEW c \in Chains, HandleReady(c) PROVE ui'.id >= ui.id
    <3>1. Handles(c, {"ready"}) /\ ui' = chain[c].msg.snap
      BY <2>3 DEF HandleReady, Swap
    <3>2. c = 1
      BY <3>1, <2>1 DEF UInv, Orderly, Silent, Handles
    <3>3. ui'.id \in Nat /\ ui.id < ui'.id
      BY <3>1, <3>2, <2>1, PastNumber DEF UInv, Orderly, Announced
    <3> QED
      BY <3>3, <2>2
  <2>4. CASE ui' = ui
    BY <2>2, <2>4
  <2> QED
    BY <2>3, <2>4 DEF UINext, WorkerStep, UIStep, Receive, HandleOther, HandleConnection,
       HandlePhase2Update, HandlePhase2Ready, ForceRefreshKey, StartStep, ToggleModal, allVars, uiVars
<1> QED
  BY <1>1, UIInductive, PTL DEF UISpec, UINeverRegresses

(* Nothing that is published is lost: when every message has been handled, *)
(* none was dropped, none overtaken and nobody but the handlers issued a   *)
(* waiting command, the user sees the snapshot published last.             *)
THEOREM LastIsDelivered ==
  ASSUME "ready" \in Kinds
  PROVE  UISpec => []Delivered
<1>1. UIInit => Shipped
  BY DEF UIInit, Init, Shipped
<1>2. UInv /\ Shipped /\ [UINext]_allVars => Shipped'
  BY ShippedNext DEF UInv, WInv
<1>3. UInv /\ Shipped => Delivered
  <2> SUFFICES ASSUME Shipped, Drained, mishaps = {} PROVE ui = snapshot
    BY DEF Delivered
  <2>1. Contents(msgCh) = {}
    BY DEF Drained, Contents
  <2> QED
    BY <2>1 DEF Shipped, Drained, Unsaid, Handles
<1> QED
  BY <1>1, <1>2, <1>3, UIInductive, PTL DEF UISpec

(* While polls keep failing, a user who has been told everything has been  *)
(* told that the server is lost.                                           *)
THEOREM LostIsTold ==
  ASSUME "lost" \in Kinds
  PROVE  UISpec => []ConnectionHonest
<1>1. UIInit => Honest
  BY DEF UIInit, PollInit, Honest
<1>2. UInv /\ Honest /\ [UINext]_allVars => Honest'
  BY HonestNext DEF UInv, WInv
<1>3. UInv /\ Honest => ConnectionHonest
  <2> SUFFICES ASSUME Honest, Drained, mishaps = {}, fails > 0 PROVE ~connected
    BY DEF ConnectionHonest
  <2>1. Contents(msgCh) = {}
    BY DEF Drained, Contents
  <2> QED
    BY <2>1 DEF Honest, Drained, SomeLost, Handles
<1> QED
  BY <1>1, <1>2, <1>3, UIInductive, PTL DEF UISpec
=============================================================================
