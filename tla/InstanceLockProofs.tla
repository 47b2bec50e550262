------------------------- MODULE InstanceLockProofs -------------------------
(***************************************************************************)
(* What holds of the instance lock for any number of instances and of      *)
(* failing file operations.  That no lock is lost before somebody replaces *)
(* a claimed one is not inductive by itself: a file that is being created  *)
(* is as good as claimed although it names nobody yet.                     *)
(***************************************************************************)
EXTENDS InstanceLock, TLAPS

USE InstanceAssumption, FaultAssumption DEF Nobody, Gone, NoFile, OldLock, LegacyLock

LEMMA TypeInit == Init => TypeOK
<1> SUFFICES ASSUME Init PROVE TypeOK
  OBVIOUS
<1>1. lock \in Files /\ legacy \in {NoFile, LegacyLock}
  BY Zenon DEF Init, Files
<1>2. judged \in [Instance -> Files]
  BY DEF Init, Files
<1>3. isFirst \in [Instance -> BOOLEAN] /\ \A c \in Instance : ~isFirst[c]
  BY Zenon DEF Init
<1>4. /\ dead \subseteq Instance /\ company \subseteq Instance /\ late \in BOOLEAN
      /\ pc = [c \in Instance |-> "out"] /\ faults = MaxFaults
  BY Zenon DEF Init
<1>5. /\ faults \in 0..MaxFaults
      /\ pc \in [Instance -> {"out", "migrate", "remove", "rename", "open", "write", "failed", "check",
                              "judge", "takeover", "again", "verify", "done", "released"}]
  BY <1>4
<1> QED
  BY Zenon, <1>1, <1>2, <1>3, <1>4, <1>5 DEF TypeOK

LEMMA FileType == \A c \in Instance : FileOf(c) \in Files /\ NoFile \in Files
BY DEF FileOf, Files

(* Every variable stays in its type, and an instance is first only once    *)
(* its call has returned.                                                  *)
THEOREM TypeCorrect == Spec => []TypeOK
<1>1. Init => TypeOK
  BY TypeInit
<1>2. TypeOK /\ [Next]_vars => TypeOK'
  <2> SUFFICES ASSUME TypeOK, [Next]_vars PROVE TypeOK'
    OBVIOUS
  <2> USE DEF TypeOK, Goto, At, Fault, Replace, fileVars, histVars
  <2>1. ASSUME NEW c \in Instance, NewLock(c) PROVE TypeOK'
    <3>1. CASE Begin(c)
      BY <3>1 DEF Begin
    <3>2. CASE MigrateStat(c) \/ MigrateRemove(c)
      BY <3>2 DEF MigrateStat, MigrateRemove
    <3>3. CASE MigrateRename(c)
      <4>1. lock' \in Files /\ legacy' \in {NoFile, LegacyLock}
        BY <3>3 DEF MigrateRename, Files
      <4>2. late' \in BOOLEAN
        BY <3>3 DEF MigrateRename
      <4>3. faults' \in 0..MaxFaults
        BY <3>3 DEF MigrateRename
      <4> QED
        BY <3>3, <4>1, <4>2, <4>3 DEF MigrateRename
    <3>4. CASE Create(c)
      BY <3>4 DEF Create, Files
    <3>5. CASE WriteLockInfo(c)
      BY <3>5 DEF WriteLockInfo, Files, FileOf
    <3>6. CASE NewLockFails(c)
      BY <3>6 DEF NewLockFails, Files
    <3>7. CASE Exists(c)
      BY <3>7 DEF Exists
    <3> QED
      BY <2>1, <3>1, <3>2, <3>3, <3>4, <3>5, <3>6, <3>7 DEF NewLock, Migrate
  <2>2. ASSUME NEW c \in Instance, Takeover(c) PROVE TypeOK'
    <3>1. CASE CheckStale(c) \/ Judge(c)
      BY <3>1, ZenonT(40) DEF CheckStale, Judge
    <3>2. CASE TakeOver(c) \/ TakeOverAgain(c)
      BY <3>2, FileType DEF TakeOver, TakeOverAgain
    <3>3. CASE TakeOverFails(c) \/ TakeOverAgainFails(c)
      <4>1. lock' \in Files
        BY <3>3, FileType DEF TakeOverFails, TakeOverAgainFails
      <4>2. late' \in BOOLEAN
        BY <3>3 DEF TakeOverFails, TakeOverAgainFails
      <4>3. faults' \in 0..MaxFaults
        BY <3>3 DEF TakeOverFails, TakeOverAgainFails
      <4> QED
        BY <3>3, <4>1, <4>2, <4>3 DEF TakeOverFails, TakeOverAgainFails
    <3>4. CASE Verify(c)
      BY <3>4 DEF Verify
    <3> QED
      BY <2>2, <3>1, <3>2, <3>3, <3>4 DEF Takeover
  <2>3. ASSUME NEW c \in Instance, Release(c) PROVE TypeOK'
    BY <2>3 DEF Release, Files
  <2>4. ASSUME NEW p \in Instance, End(p) PROVE TypeOK'
    BY <2>4 DEF End
  <2>5. CASE UNCHANGED vars
    BY <2>5 DEF vars
  <2> QED
    BY <2>1, <2>2, <2>3, <2>4, <2>5 DEF Next
<1> QED
  BY <1>1, <1>2, PTL DEF Spec

-----------------------------------------------------------------------------
\* A lock file that names an instance was made by it.
SelfNamed == lock.pid \in Instance => lock = FileOf(lock.pid)

\* A live instance that created the lock file, or is the first, still finds its file there.
Live == Instance \ dead
Claimed ==
  ~late => \A c \in Live : /\ isFirst[c] => lock = FileOf(c)
                           /\ pc[c] = "write" => lock = [maker |-> c, pid |-> Nobody]

IInv == TypeOK /\ SelfNamed /\ Claimed

LEMMA ReplaceClaimed ==
  ASSUME IInv, NEW c \in Instance, NEW f \in Files, Replace(c, f),
         ~isFirst[c], pc[c] # "write", pc'[c] # "write", dead' = dead,
         \A d \in Instance \ {c} : pc'[d] = pc[d], isFirst' = isFirst
  PROVE  Claimed'
<1> SUFFICES ASSUME ~late', NEW d \in Live
             PROVE  ~isFirst'[d] /\ pc'[d] # "write"
  BY DEF Claimed, Live
<1> USE DEF Live
<1>1. CASE d = c
  BY <1>1
<1>2. CASE d # c
  <2>1. ~late /\ ~(lock.maker = d /\ (isFirst[d] \/ pc[d] = "write"))
    BY <1>2 DEF Replace
  <2>2. isFirst[d] \/ pc[d] = "write" => lock.maker = d
    BY <2>1 DEF IInv, Claimed, FileOf
  <2> QED
    BY <1>2, <2>1, <2>2
<1> QED
  BY <1>1, <1>2

LEMMA InductiveStep == IInv /\ TypeOK' /\ [Next]_vars => IInv'
<1> SUFFICES ASSUME IInv, TypeOK', [Next]_vars PROVE SelfNamed' /\ Claimed'
  BY DEF IInv
<1>t. TypeOK /\ SelfNamed /\ Claimed
  BY DEF IInv
<1> USE DEF At, Goto, fileVars, histVars, Live
<1>1. ASSUME NEW c \in Instance, NewLock(c) PROVE SelfNamed' /\ Claimed'
  <2>1. CASE Begin(c) \/ MigrateStat(c) \/ MigrateRemove(c) \/ Exists(c)
    BY <1>t, <2>1 DEF Begin, MigrateStat, MigrateRemove, Exists, SelfNamed, Claimed, TypeOK
  <2>2. CASE MigrateRename(c)
    <3>1. CASE legacy # NoFile /\ Replace(c, legacy)
      <4>1. SelfNamed'
        BY <1>t, <3>1 DEF Replace, SelfNamed, TypeOK
      <4>2. ~isFirst[c] /\ pc[c] # "write" /\ pc'[c] # "write" /\ isFirst' = isFirst
            /\ dead' = dead /\ \A d \in Instance \ {c} : pc'[d] = pc[d]
        BY <1>t, <2>2 DEF MigrateRename, TypeOK
      <4>3. legacy \in Files
        BY <1>t DEF TypeOK, Files
      <4> QED
        BY <3>1, <4>1, <4>2, <4>3, ReplaceClaimed
    <3>2. CASE UNCHANGED <<fileVars, late>>
      BY <1>t, <2>2, <3>2 DEF MigrateRename, SelfNamed, Claimed, TypeOK
    <3> QED
      BY <2>2, <3>1, <3>2 DEF MigrateRename
  <2>3. CASE Create(c)
    <3>1. ~late => \A d \in Live : ~isFirst[d] /\ pc[d] # "write"
      BY <1>t, <2>3 DEF Create, Claimed, FileOf
    <3> QED
      BY <1>t, <2>3, <3>1 DEF Create, SelfNamed, Claimed, TypeOK
  <2>4. CASE WriteLockInfo(c)
    <3>1. SelfNamed'
      BY <1>t, <2>4 DEF WriteLockInfo, SelfNamed, FileOf
    <3>2. ~late => /\ lock' = FileOf(c)
                   /\ \A d \in Live \ {c} : ~isFirst[d] /\ pc[d] # "write"
      BY <1>t, <2>4 DEF WriteLockInfo, Claimed, FileOf
    <3>3. \A d \in Live \ {c} : isFirst'[d] = isFirst[d] /\ pc'[d] = pc[d]
      BY <1>t, <2>4 DEF WriteLockInfo, TypeOK
    <3>4. pc'[c] # "write"
      BY <1>t, <2>4 DEF WriteLockInfo, TypeOK
    <3>5. UNCHANGED <<dead, late>>
      BY <2>4 DEF WriteLockInfo
    <3> QED
      BY <3>1, <3>2, <3>3, <3>4, <3>5 DEF Claimed
  <2>5. CASE NewLockFails(c)
    <3>1. SelfNamed'
      BY <1>t, <2>5 DEF NewLockFails, SelfNamed, TypeOK
    <3>2. ~late /\ pc[c] = "write" => \A d \in Live \ {c} : ~isFirst[d] /\ pc[d] # "write"
      BY <1>t, <2>5 DEF NewLockFails, Claimed, FileOf
    <3>3. ~isFirst[c]
      BY <1>t, <2>5 DEF NewLockFails, TypeOK
    <3> QED
      BY <1>t, <2>5, <3>1, <3>2, <3>3 DEF NewLockFails, Claimed, TypeOK
  <2> QED
    BY <1>1, <2>1, <2>2, <2>3, <2>4, <2>5 DEF NewLock, Migrate
<1>2. ASSUME NEW c \in Instance, Takeover(c) PROVE SelfNamed' /\ Claimed'
  <2>1. CASE CheckStale(c) \/ Judge(c) \/ TakeOverAgainFails(c)
    BY <1>t, <2>1 DEF CheckStale, Judge, TakeOverAgainFails, SelfNamed, Claimed, TypeOK
  <2>2. ASSUME NEW f \in {FileOf(c), NoFile}, Replace(c, f), ~isFirst[c], pc[c] # "write",
               pc'[c] # "write", isFirst' = isFirst, dead' = dead,
               \A d \in Instance \ {c} : pc'[d] = pc[d]
        PROVE  SelfNamed' /\ Claimed'
    <3>1. f \in Files
      BY DEF Files, FileOf
    <3>2. SelfNamed'
      BY <2>2 DEF Replace, SelfNamed, FileOf
    <3> QED
      BY <2>2, <3>1, <3>2, ReplaceClaimed
  <2>3. CASE TakeOver(c) \/ TakeOverAgain(c)
    <3>1. /\ Replace(c, FileOf(c)) /\ ~isFirst[c] /\ pc[c] # "write" /\ pc'[c] # "write"
          /\ isFirst' = isFirst /\ dead' = dead /\ \A d \in Instance \ {c} : pc'[d] = pc[d]
      BY <1>t, <2>3 DEF TakeOver, TakeOverAgain, TypeOK
    <3> QED
      BY <2>2, <3>1
  <2>4. CASE TakeOverFails(c)
    <3>1. /\ ~isFirst[c] /\ pc[c] # "write" /\ pc'[c] # "write"
          /\ isFirst' = isFirst /\ dead' = dead /\ \A d \in Instance \ {c} : pc'[d] = pc[d]
      BY <1>t, <2>4 DEF TakeOverFails, TypeOK
    <3>2. CASE UNCHANGED <<lock, late>>
      BY <1>t, <3>1, <3>2 DEF SelfNamed, Claimed
    <3>3. CASE Replace(c, NoFile)
      BY <2>2, <3>1, <3>3
    <3> QED
      BY <2>4, <3>2, <3>3 DEF TakeOverFails
  <2>5. CASE Verify(c)
    <3>1. lock.pid = c => lock = FileOf(c)
      BY <1>t DEF SelfNamed
    <3>2. SelfNamed'
      BY <1>t, <2>5 DEF Verify, SelfNamed
    <3>3. \A d \in Live \ {c} : isFirst'[d] = isFirst[d] /\ pc'[d] = pc[d]
      BY <1>t, <2>5 DEF Verify, TypeOK
    <3>4. (isFirst'[c] => lock = FileOf(c)) /\ pc'[c] # "write"
      BY <1>t, <2>5, <3>1 DEF Verify, TypeOK
    <3>5. UNCHANGED <<lock, dead, late>>
      BY <2>5 DEF Verify
    <3> QED
      BY <1>t, <3>2, <3>3, <3>4, <3>5 DEF Claimed
  <2> QED
    BY <1>2, <2>1, <2>3, <2>4, <2>5 DEF Takeover
<1>3. ASSUME NEW c \in Instance, Release(c) PROVE SelfNamed' /\ Claimed'
  <2>1. SelfNamed'
    BY <1>t, <1>3 DEF Release, SelfNamed
  <2>2. ~late /\ isFirst[c] => \A d \in Live \ {c} : ~isFirst[d] /\ pc[d] # "write"
    BY <1>t, <1>3 DEF Release, Claimed, FileOf
  <2> QED
    BY <1>t, <1>3, <2>1, <2>2 DEF Release, Claimed, TypeOK
<1>4. ASSUME NEW p \in Instance, End(p) PROVE SelfNamed' /\ Claimed'
  BY <1>t, <1>4 DEF End, SelfNamed, Claimed
<1>5. CASE UNCHANGED vars
  BY <1>t, <1>5 DEF vars, SelfNamed, Claimed
<1> QED
  BY <1>1, <1>2, <1>3, <1>4, <1>5 DEF Next

LEMMA Inductive == Spec => []IInv
<1>1. Init => IInv
  <2> SUFFICES ASSUME Init PROVE IInv
    OBVIOUS
  <2>1. SelfNamed
    BY DEF Init, SelfNamed
  <2>2. Claimed
    BY DEF Init, Claimed, Live
  <2> QED
    BY <2>1, <2>2, TypeInit DEF IInv
<1> QED
  BY <1>1, InductiveStep, TypeCorrect, PTL DEF Spec

(* As long as nobody took away a lock a live instance had claimed, the     *)
(* lock file of an instance that is the first is there and is its own.     *)
THEOREM HolderOwnsLock == Spec => []HolderKeepsLock
<1>1. IInv => HolderKeepsLock
  BY DEF IInv, Claimed, HolderKeepsLock, First, Live
<1> QED
  BY <1>1, Inductive, PTL

(* And until then at most one instance believes to be the first, however   *)
(* many take a stale lock over at the same time.                           *)
THEOREM AtMostOneFirst == Spec => []OneFirstUnlessLate
<1>1. IInv => OneFirstUnlessLate
  BY DEF IInv, Claimed, OneFirstUnlessLate, First, Live, FileOf
<1> QED
  BY <1>1, Inductive, PTL
-----------------------------------------------------------------------------
(* An instance that is alone while it calls NewLock: everybody else has    *)
(* ended or not begun.  Step by step, a lock it finds stale is stale, the  *)
(* one it puts there stays, and it gives up only where the file names      *)
(* nobody, which from then on no one changes.                              *)
Alone(c) == c \notin company /\ c \notin dead /\ Inside(c)
Absent(d) == d \in dead \/ pc[d] = "out"
OthersAbsent == \A c \in Instance : Alone(c) => \A d \in Instance \ {c} : Absent(d)

NamedBegun == lock.pid \in Instance => pc[lock.pid] \in {"verify", "done", "released"}

Migrated ==
  faults = MaxFaults =>
    \A c \in Instance : /\ pc[c] \notin {"out", "migrate", "remove", "rename"} => legacy = NoFile
                        /\ pc[c] # "again"

OnCourse(c) == /\ pc[c] = "check" => lock # NoFile
               /\ pc[c] = "judge" => ~Alive(judged[c].pid)
               /\ pc[c] = "verify" => lock.pid = c
Undisturbed == faults = MaxFaults => \A c \in Instance : Alone(c) => OnCourse(c)

Powerless(d) == ~isFirst[d] /\ pc[d] \in {"out", "open", "check", "done", "failed", "released"}
Stuck == /\ lock # NoFile /\ lock.pid = Nobody /\ legacy = NoFile
         /\ \A d \in Instance \ dead : Powerless(d)
Ended == faults = MaxFaults =>
           \A c \in Instance : pc[c] = "done" /\ c \notin company => isFirst[c] \/ Stuck

AInv == OthersAbsent /\ NamedBegun /\ Migrated /\ Undisturbed /\ Ended

Step(c) == NewLock(c) \/ Takeover(c) \/ Release(c)

LEMMA OthersKept ==
  ASSUME TypeOK, NEW c \in Instance, Step(c)
  PROVE  /\ dead' = dead /\ c \notin dead /\ company \subseteq company'
         /\ faults \in 0..MaxFaults /\ faults' \in 0..MaxFaults /\ faults' <= faults
         /\ \A d \in Instance \ {c} : pc'[d] = pc[d] /\ isFirst'[d] = isFirst[d] /\ judged'[d] = judged[d]
<1> USE DEF TypeOK, At, Goto, Fault, fileVars, histVars
<1>1. CASE Begin(c) \/ MigrateStat(c) \/ MigrateRemove(c) \/ MigrateRename(c)
  BY <1>1 DEF Begin, MigrateStat, MigrateRemove, MigrateRename, Replace
<1>2. CASE Create(c) \/ WriteLockInfo(c) \/ NewLockFails(c) \/ Exists(c)
  BY <1>2 DEF Create, WriteLockInfo, NewLockFails, Exists
<1>3. CASE CheckStale(c) \/ Judge(c) \/ TakeOver(c) \/ TakeOverFails(c)
  BY <1>3 DEF CheckStale, Judge, TakeOver, TakeOverFails, Replace
<1>4. CASE TakeOverAgain(c) \/ TakeOverAgainFails(c) \/ Verify(c) \/ Release(c)
  BY <1>4 DEF TakeOverAgain, TakeOverAgainFails, Verify, Release, Replace
<1> QED
  BY <1>1, <1>2, <1>3, <1>4 DEF Step, NewLock, Migrate, Takeover

LEMMA StepStands ==
  ASSUME TypeOK, NEW b \in Instance, Step(b), ~Begin(b)
  PROVE  b \notin dead /\ pc[b] # "out" /\ (Inside(b)' => Inside(b))
<1> USE DEF TypeOK, At, Goto, Inside
<1>1. CASE Create(b) \/ WriteLockInfo(b) \/ NewLockFails(b) \/ Exists(b)
  BY <1>1 DEF Create, WriteLockInfo, NewLockFails, Exists
<1>2. CASE Migrate(b)
  BY <1>2 DEF Migrate, MigrateStat, MigrateRemove, MigrateRename
<1>3. CASE Takeover(b)
  BY <1>3 DEF Takeover, CheckStale, Judge, TakeOver, TakeOverFails, TakeOverAgain, TakeOverAgainFails, Verify
<1>4. CASE Release(b)
  BY <1>4 DEF Release
<1> QED
  BY <1>1, <1>2, <1>3, <1>4 DEF Step, NewLock

LEMMA AloneActs ==
  ASSUME TypeOK, OthersAbsent, NEW b \in Instance, Step(b), NEW c \in Instance, Alone(c)'
  PROVE  b = c /\ (Begin(c) \/ Alone(c))
<1>1. CASE Begin(b) /\ b # c
  BY <1>1 DEF Begin, At, Goto, TypeOK, Alone, Inside
<1>2. CASE ~Begin(b) /\ b # c
  BY <1>2, OthersKept, StepStands DEF OthersAbsent, Alone, Inside, Absent
<1>3. CASE ~Begin(b) /\ b = c
  BY <1>3, OthersKept, StepStands DEF Alone
<1> QED
  BY <1>1, <1>2, <1>3

LEMMA OthersAbsentNext == TypeOK /\ OthersAbsent /\ [Next]_vars => OthersAbsent'
<1> SUFFICES ASSUME TypeOK, OthersAbsent, [Next]_vars, NEW c \in Instance, Alone(c)',
                    NEW d \in Instance \ {c}
             PROVE  Absent(d)'
  BY DEF OthersAbsent
<1>1. ASSUME NEW b \in Instance, Step(b) PROVE Absent(d)'
  <2>1. b = c /\ (Begin(c) \/ Alone(c))
    BY <1>1, AloneActs
  <2>2. Absent(d)
    BY <1>1, <2>1 DEF OthersAbsent, Begin, At, Alone, Absent
  <2> QED
    BY <1>1, <2>1, <2>2, OthersKept DEF Absent
<1>2. ASSUME NEW p \in Instance, End(p) PROVE Absent(d)'
  BY <1>2 DEF End, OthersAbsent, Alone, Inside, Absent, histVars
<1>3. CASE UNCHANGED vars
  BY <1>3 DEF vars, OthersAbsent, Alone, Inside, Absent, histVars
<1> QED
  BY <1>1, <1>2, <1>3 DEF Next, Step

LEMMA NamedBegunNext == TypeOK /\ NamedBegun /\ [Next]_vars => NamedBegun'
<1> SUFFICES ASSUME TypeOK, NamedBegun, [Next]_vars PROVE NamedBegun'
  OBVIOUS
<1> USE DEF NamedBegun, TypeOK, At, Goto, fileVars
<1>1. ASSUME NEW c \in Instance, NewLock(c) PROVE NamedBegun'
  <2>1. CASE Begin(c) \/ MigrateStat(c) \/ MigrateRemove(c) \/ Exists(c)
    <3>1. lock' = lock
      BY <2>1 DEF Begin, MigrateStat, MigrateRemove, Exists
    <3>2. \A d \in Instance : pc[d] \in {"verify", "done", "released"} => pc'[d] = pc[d]
      BY <2>1 DEF Begin, MigrateStat, MigrateRemove, Exists
    <3> QED
      BY <3>1, <3>2
  <2>2. CASE MigrateRename(c)
    BY <2>2 DEF MigrateRename, Replace
  <2>3. CASE Create(c)
    BY <2>3 DEF Create
  <2>4. CASE WriteLockInfo(c)
    BY <2>4 DEF WriteLockInfo, FileOf
  <2>5. CASE NewLockFails(c)
    BY <2>5 DEF NewLockFails
  <2> QED
    BY <1>1, <2>1, <2>2, <2>3, <2>4, <2>5 DEF NewLock, Migrate
<1>2. ASSUME NEW c \in Instance, Takeover(c) PROVE NamedBegun'
  <2>1. CASE CheckStale(c) \/ Judge(c) \/ TakeOverAgainFails(c)
    <3>1. lock' = lock
      BY <2>1 DEF CheckStale, Judge, TakeOverAgainFails
    <3>2. \A d \in Instance : pc[d] \in {"verify", "done", "released"} => pc'[d] = pc[d]
      BY <2>1 DEF CheckStale, Judge, TakeOverAgainFails
    <3> QED
      BY <3>1, <3>2
  <2>2. CASE TakeOver(c) \/ TakeOverAgain(c)
    BY <2>2 DEF TakeOver, TakeOverAgain, Replace, FileOf
  <2>3. CASE TakeOverFails(c)
    <3>1. lock' = lock \/ lock'.pid \notin Instance
      BY <2>3 DEF TakeOverFails, Replace
    <3>2. \A d \in Instance : pc[d] \in {"verify", "done", "released"} => pc'[d] = pc[d]
      BY <2>3 DEF TakeOverFails
    <3> QED
      BY <3>1, <3>2
  <2>4. CASE Verify(c)
    BY <2>4 DEF Verify
  <2> QED
    BY <1>2, <2>1, <2>2, <2>3, <2>4 DEF Takeover
<1>3. ASSUME NEW c \in Instance, Release(c) PROVE NamedBegun'
  BY <1>3 DEF Release
<1>4. ASSUME NEW p \in Instance, End(p) PROVE NamedBegun'
  BY <1>4 DEF End
<1>5. CASE UNCHANGED vars
  BY <1>5 DEF vars
<1> QED
  BY <1>1, <1>2, <1>3, <1>4, <1>5 DEF Next

LEMMA MigratedNext == TypeOK /\ Migrated /\ [Next]_vars => Migrated'
<1> SUFFICES ASSUME TypeOK, Migrated, [Next]_vars, faults' = MaxFaults
             PROVE  \A d \in Instance : /\ pc'[d] \notin {"out", "migrate", "remove", "rename"} => legacy' = NoFile
                                        /\ pc'[d] # "again"
  BY DEF Migrated
<1> USE DEF Migrated
<1>1. ASSUME NEW c \in Instance, Step(c)
      PROVE  \A d \in Instance : /\ pc'[d] \notin {"out", "migrate", "remove", "rename"} => legacy' = NoFile
                                 /\ pc'[d] # "again"
  <2>1. faults = MaxFaults /\ ~Fault
    BY <1>1, OthersKept DEF Fault
  <2>2. legacy = NoFile => legacy' = NoFile
    BY <1>1 DEF Step, NewLock, Migrate, MigrateStat, MigrateRemove, MigrateRename, Create, Begin,
        WriteLockInfo, NewLockFails, Exists, Takeover, CheckStale, Judge, TakeOver, TakeOverFails,
        TakeOverAgain, TakeOverAgainFails, Verify, Release, fileVars, Replace
  <2>3. pc'[c] \notin {"out", "migrate", "remove", "rename"} => legacy' = NoFile
    <3>1. CASE pc[c] \in {"out", "migrate", "remove", "rename"}
      BY <1>1, <2>1, <3>1 DEF TypeOK, Step, NewLock, Migrate, MigrateStat, MigrateRemove, MigrateRename,
          Create, Begin, WriteLockInfo, NewLockFails, Exists, Takeover, CheckStale, Judge, TakeOver,
          TakeOverFails, TakeOverAgain, TakeOverAgainFails, Verify, Release, fileVars, At, Goto
    <3> QED
      BY <2>1, <2>2, <3>1
  <2>4. pc'[c] # "again"
    BY <1>1, <2>1 DEF TypeOK, Step, NewLock, Migrate, MigrateStat, MigrateRemove, MigrateRename, Create,
        Begin, WriteLockInfo, NewLockFails, Exists, Takeover, CheckStale, Judge, TakeOver,
        TakeOverFails, TakeOverAgain, TakeOverAgainFails, Verify, Release, At, Goto
  <2> QED
    BY <1>1, <2>1, <2>2, <2>3, <2>4, OthersKept
<1>2. CASE UNCHANGED <<pc, legacy, faults>>
  BY <1>2
<1> QED
  BY <1>1, <1>2 DEF Next, Step, End, vars, fileVars

LEMMA UndisturbedNext ==
  ASSUME TypeOK, OthersAbsent, NamedBegun, Migrated, Undisturbed, [Next]_vars
  PROVE  Undisturbed'
<1> SUFFICES ASSUME faults' = MaxFaults, NEW c \in Instance, Alone(c)' PROVE OnCourse(c)'
  BY DEF Undisturbed
<1>1. ASSUME NEW b \in Instance, Step(b) PROVE OnCourse(c)'
  <2>1. b = c /\ (Begin(c) \/ Alone(c))
    BY <1>1, AloneActs
  <2>2. faults = MaxFaults /\ ~Fault
    BY <1>1, OthersKept DEF Fault
  <2>3. pc'[c] \in {"check", "judge", "verify"} => Alone(c) /\ OnCourse(c)
    BY <2>1, <2>2 DEF Undisturbed, Begin, Goto, TypeOK
  <2> USE DEF TypeOK, At, Goto, OnCourse
  <2>4. CASE Begin(c) \/ Migrate(c) \/ Create(c) \/ WriteLockInfo(c) \/ NewLockFails(c)
    BY <2>4 DEF Begin, Migrate, MigrateStat, MigrateRemove, MigrateRename, Create, WriteLockInfo, NewLockFails
  <2>5. CASE Exists(c)
    BY <2>5 DEF Exists, fileVars
  <2>6. CASE CheckStale(c)
    <3>1. pc'[c] = "judge" => judged'[c] = lock /\ lock.pid # Nobody
      BY <2>6 DEF CheckStale
    <3>2. lock.pid \in Instance => lock.pid # c /\ pc[lock.pid] # "out"
      BY <2>6 DEF CheckStale, NamedBegun
    <3>3. pc'[c] = "judge" => ~Alive(lock.pid)
      BY <2>3, <3>2 DEF Alive, OthersAbsent, Absent
    <3> QED
      BY <2>6, <3>1, <3>3 DEF CheckStale, Alive
  <2>7. CASE Judge(c)
    BY <2>7 DEF Judge
  <2>8. CASE TakeOver(c)
    BY <2>8 DEF TakeOver, Replace, FileOf
  <2>9. CASE TakeOverFails(c) \/ TakeOverAgain(c) \/ TakeOverAgainFails(c)
    BY <2>2, <2>9 DEF TakeOverFails, TakeOverAgain, TakeOverAgainFails, Migrated
  <2>10. CASE Verify(c) \/ Release(c)
    BY <2>10 DEF Verify, Release
  <2> QED
    BY <1>1, <2>1, <2>4, <2>5, <2>6, <2>7, <2>8, <2>9, <2>10 DEF Step, NewLock, Takeover
<1>2. ASSUME NEW p \in Instance, End(p) PROVE OnCourse(c)'
  <2>1. Alone(c)
    BY <1>2 DEF End, Alone, Inside, histVars
  <2> QED
    BY <1>2, <2>1 DEF End, Undisturbed, OnCourse, fileVars, Alive
<1>3. CASE UNCHANGED vars
  BY <1>3 DEF vars, Undisturbed, OnCourse, Alone, Inside, Alive, fileVars, histVars
<1> QED
  BY <1>1, <1>2, <1>3 DEF Next, Step

LEMMA StuckStays ==
  ASSUME TypeOK, Stuck, [Next]_vars, faults' = MaxFaults
  PROVE  Stuck'
<1>1. ASSUME NEW b \in Instance, Step(b) PROVE Stuck'
  <2>1. faults = MaxFaults /\ ~Fault
    BY <1>1, OthersKept DEF Fault
  <2>2. b \notin dead /\ Powerless(b)
    BY <1>1, OthersKept DEF Stuck
  <2> SUFFICES lock' = lock /\ legacy' = legacy /\ Powerless(b)'
    BY <1>1, OthersKept DEF Stuck, Powerless
  <2> USE DEF TypeOK, At, Goto, Powerless, fileVars
  <2>3. CASE Begin(b)
    BY <2>2, <2>3 DEF Begin, Stuck
  <2>4. CASE Migrate(b) \/ Create(b) \/ WriteLockInfo(b) \/ NewLockFails(b)
    BY <2>1, <2>2, <2>4 DEF Migrate, MigrateStat, MigrateRemove, MigrateRename, Create, WriteLockInfo,
       NewLockFails, Stuck
  <2>5. CASE Exists(b)
    BY <2>2, <2>5 DEF Exists
  <2>6. CASE CheckStale(b)
    BY <2>2, <2>6 DEF CheckStale, Stuck
  <2>7. CASE Judge(b) \/ TakeOver(b) \/ TakeOverFails(b) \/ TakeOverAgain(b) \/ TakeOverAgainFails(b) \/ Verify(b)
    BY <2>2, <2>7 DEF Judge, TakeOver, TakeOverFails, TakeOverAgain, TakeOverAgainFails, Verify
  <2>8. CASE Release(b)
    BY <2>2, <2>8 DEF Release
  <2> QED
    BY <1>1, <2>3, <2>4, <2>5, <2>6, <2>7, <2>8 DEF Step, NewLock, Takeover
<1>2. ASSUME NEW p \in Instance, End(p) PROVE Stuck'
  BY <1>2 DEF End, Stuck, Powerless, fileVars
<1>3. CASE UNCHANGED vars
  BY <1>3 DEF vars, Stuck, Powerless, fileVars
<1> QED
  BY <1>1, <1>2, <1>3 DEF Next, Step

LEMMA EndedNext ==
  ASSUME TypeOK, OthersAbsent, NamedBegun, Migrated, Undisturbed, Ended, [Next]_vars
  PROVE  Ended'
<1> SUFFICES ASSUME faults' = MaxFaults, NEW c \in Instance, pc'[c] = "done", c \notin company'
             PROVE  isFirst'[c] \/ Stuck'
  BY DEF Ended
<1>1. ASSUME faults = MaxFaults, pc[c] = "done", c \notin company, isFirst'[c] = isFirst[c]
      PROVE  isFirst'[c] \/ Stuck'
  BY <1>1, StuckStays DEF Ended
<1>2. ASSUME NEW b \in Instance, Step(b) PROVE isFirst'[c] \/ Stuck'
  <2>1. faults = MaxFaults /\ ~Fault /\ c \notin company
    BY <1>2, OthersKept DEF Fault
  <2>2. CASE b # c
    BY <1>1, <1>2, <2>1, <2>2, OthersKept
  <2>3. CASE b = c
    <3> USE DEF TypeOK, At, Goto
    <3>1. c \notin dead
      BY <1>2, <2>3, OthersKept
    <3>2. CASE WriteLockInfo(c)
      BY <3>2 DEF WriteLockInfo
    <3>3. CASE CheckStale(c)
      <4>1. Alone(c) /\ OnCourse(c)
        BY <2>1, <3>1, <3>3 DEF CheckStale, Alone, Inside, Undisturbed
      <4>2. lock # NoFile /\ lock.pid = Nobody /\ UNCHANGED <<lock, legacy, dead, isFirst>>
        BY <3>3, <4>1 DEF CheckStale, OnCourse, fileVars
      <4>3. legacy = NoFile
        BY <2>1, <3>3 DEF CheckStale, Migrated
      <4>4. \A d \in Instance \ dead : Powerless(d)'
        BY <3>3, <4>1 DEF CheckStale, OthersAbsent, Absent, Powerless
      <4> QED
        BY <4>2, <4>3, <4>4 DEF Stuck
    <3>4. CASE Judge(c)
      BY <2>1, <3>1, <3>4 DEF Judge, Alone, Inside, Undisturbed, OnCourse
    <3>5. CASE Verify(c)
      BY <2>1, <3>1, <3>5 DEF Verify, Alone, Inside, Undisturbed, OnCourse
    <3>6. CASE Begin(c) \/ Migrate(c) \/ Create(c) \/ NewLockFails(c) \/ Exists(c) \/ Release(c)
      BY <3>6 DEF Begin, Migrate, MigrateStat, MigrateRemove, MigrateRename, Create, NewLockFails, Exists, Release
    <3>7. CASE TakeOver(c) \/ TakeOverFails(c) \/ TakeOverAgain(c) \/ TakeOverAgainFails(c)
      BY <2>1, <3>7 DEF TakeOver, TakeOverFails, TakeOverAgain, TakeOverAgainFails
    <3> QED
      BY <1>2, <2>3, <3>2, <3>3, <3>4, <3>5, <3>6, <3>7 DEF Step, NewLock, Takeover
  <2> QED
    BY <2>2, <2>3
<1>3. ASSUME NEW p \in Instance, End(p) PROVE isFirst'[c] \/ Stuck'
  BY <1>1, <1>3 DEF End, histVars
<1>4. CASE UNCHANGED vars
  BY <1>1, <1>4 DEF vars, histVars
<1> QED
  BY <1>2, <1>3, <1>4 DEF Next, Step

(* No crash, stale lock or legacy lock keeps the next instance from being  *)
(* the first: if it is alone while it calls NewLock and no file operation  *)
(* fails it becomes the first, unless it meets a lock file that nobody     *)
(* finished writing.                                                       *)
THEOREM FirstWhenAlone == Spec => []AloneIsFirst
<1>1. Init => AInv
  BY DEF Init, AInv, OthersAbsent, Alone, Inside, NamedBegun, Migrated, Undisturbed, Ended
<1>2. TypeOK /\ AInv /\ [Next]_vars => AInv'
  BY OthersAbsentNext, NamedBegunNext, MigratedNext, UndisturbedNext, EndedNext DEF AInv
<1>3. AInv => AloneIsFirst
  BY DEF AInv, Ended, Stuck, AloneIsFirst
<1> QED
  BY <1>1, <1>2, <1>3, TypeCorrect, PTL DEF Spec
=============================================================================
