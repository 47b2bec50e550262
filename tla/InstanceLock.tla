---------------------------- MODULE InstanceLock ----------------------------
(***************************************************************************)
(* pkg/instance/lock.go: instances of bt find out which of them was first  *)
(* by a lock file.  NewLock creates it exclusively; if it exists and names *)
(* a process that is gone, checkStale renames a file of its own over it    *)
(* and reads back who won.  A lock of the program's earlier name is moved  *)
(* to the new one first.  The file system calls of different instances     *)
(* interleave, and an instance may end anywhere without releasing.         *)
(*                                                                         *)
(* An instance is its process, which calls NewLock once.  A file is its    *)
(* maker and the process it names, Nobody as long as it cannot be parsed.  *)
(***************************************************************************)
EXTENDS Integers

CONSTANTS
  Instance,  \* the processes, by PID
  MaxFaults  \* bound: file operations that fail

ASSUME InstanceAssumption == Instance \subseteq Nat \ {0}
ASSUME FaultAssumption == MaxFaults \in Nat

Nobody == 0
Gone == -1  \* the process named by the lock files found at the beginning

VARIABLES
  lock,     \* .bt.lock
  legacy,   \* .bv.lock
  dead,     \* the processes that have ended
  pc,       \* what each instance does next
  judged,   \* the file each checkStale has read
  isFirst,  \* isFirst of its Lock
  company,  \* history: instances another one was alive beside while they called NewLock
  late,     \* history: a lock file was taken away from a live instance that counted on it
  faults

fileVars == <<lock, legacy>>
histVars == <<company, late>>
vars == <<fileVars, dead, pc, judged, isFirst, histVars, faults>>

NoFile == [maker |-> 0, pid |-> Nobody]
OldLock == [maker |-> -1, pid |-> Gone]
LegacyLock == [maker |-> -2, pid |-> Gone]
FileOf(c) == [maker |-> c, pid |-> c]
Files == {NoFile, OldLock, LegacyLock} \cup [maker : Instance, pid : Instance \cup {Nobody}]

Alive(pid) == pid \in Instance \ dead

Init ==
  /\ lock \in {NoFile, OldLock} /\ legacy \in {NoFile, LegacyLock}
  /\ dead = {} /\ faults = MaxFaults
  /\ pc = [c \in Instance |-> "out"] /\ judged = [c \in Instance |-> NoFile]
  /\ isFirst = [c \in Instance |-> FALSE]
  /\ company = {} /\ late = FALSE

Inside(c) == pc[c] \notin {"out", "done", "failed", "released"}

At(c, place) == pc[c] = place /\ c \notin dead
Goto(c, place) == pc' = [pc EXCEPT ![c] = place]
Fault == faults > 0 /\ faults' = faults - 1

\* Instance c puts f in the place of the lock file, NoFile to remove it.
Replace(c, f) ==
  /\ lock' = f
  /\ late' = (late \/ \E d \in Instance \ (dead \cup {c}) :
                         lock.maker = d /\ (isFirst[d] \/ pc[d] = "write"))

-----------------------------------------------------------------------------
(* NewLock, and migrateLegacyLock before it.                               *)
Begin(c) ==
  /\ At(c, "out")
  /\ Goto(c, IF legacy = NoFile THEN "open" ELSE "migrate")
  /\ LET others == {d \in Instance \ {c} : pc[d] # "out" /\ d \notin dead}
     IN  company' = company \cup {d \in others : Inside(d)} \cup (IF others # {} THEN {c} ELSE {})
  /\ UNCHANGED <<fileVars, dead, judged, isFirst, late, faults>>

\* The new lock decides what happens to the legacy one.
MigrateStat(c) ==
  /\ At(c, "migrate")
  /\ Goto(c, IF lock = NoFile THEN "rename" ELSE "remove")
  /\ UNCHANGED <<fileVars, dead, judged, isFirst, histVars, faults>>

MigrateRemove(c) ==
  /\ At(c, "remove")
  /\ legacy' = NoFile
  /\ Goto(c, "open")
  /\ UNCHANGED <<lock, dead, judged, isFirst, histVars, faults>>

MigrateRename(c) ==
  /\ At(c, "rename")
  /\ \/ legacy # NoFile /\ Replace(c, legacy) /\ legacy' = NoFile /\ UNCHANGED faults
     \/ legacy = NoFile /\ UNCHANGED <<fileVars, late, faults>>
     \/ Fault /\ UNCHANGED <<fileVars, late>>
  /\ Goto(c, "open")
  /\ UNCHANGED <<dead, judged, isFirst, company>>

\* Variant: the instance is the first before its lock can be read.
CreateClaiming(c) ==
  /\ At(c, "open") /\ lock = NoFile
  /\ lock' = [maker |-> c, pid |-> Nobody]
  /\ isFirst' = [isFirst EXCEPT ![c] = TRUE]
  /\ Goto(c, "write")
  /\ UNCHANGED <<legacy, dead, judged, histVars, faults>>

Create(c) ==
  /\ At(c, "open") /\ lock = NoFile
  /\ lock' = [maker |-> c, pid |-> Nobody]
  /\ Goto(c, "write")
  /\ UNCHANGED <<legacy, dead, judged, isFirst, histVars, faults>>

\* Writing goes to the file that was created, wherever its name leads by now.
WriteLockInfo(c) ==
  /\ At(c, "write")
  /\ lock' = IF lock.maker = c THEN FileOf(c) ELSE lock
  /\ isFirst' = [isFirst EXCEPT ![c] = TRUE]
  /\ Goto(c, "done")
  /\ UNCHANGED <<legacy, dead, judged, histVars, faults>>

\* Neither an error that is not os.IsExist nor a failing write gives a Lock.
NewLockFails(c) ==
  /\ At(c, "open") \/ At(c, "write")
  /\ Fault
  /\ lock' = IF pc[c] = "write" THEN NoFile ELSE lock
  /\ Goto(c, "failed")
  /\ UNCHANGED <<legacy, dead, judged, isFirst, histVars>>

\* Variant: an existing lock file is not looked into.
ExistsAccepted(c) ==
  /\ At(c, "open") /\ lock # NoFile
  /\ Goto(c, "done")
  /\ UNCHANGED <<fileVars, dead, judged, isFirst, histVars, faults>>

Exists(c) ==
  /\ At(c, "open") /\ lock # NoFile
  /\ Goto(c, "check")
  /\ UNCHANGED <<fileVars, dead, judged, isFirst, histVars, faults>>

-----------------------------------------------------------------------------
(* checkStale.  Its mutex serialises calls within one process only.        *)
\* A missing or unreadable file ends it.
CheckStale(c) ==
  /\ At(c, "check")
  /\ judged' = [judged EXCEPT ![c] = lock]
  /\ Goto(c, IF lock.pid = Nobody THEN "done" ELSE "judge")
  /\ UNCHANGED <<fileVars, dead, isFirst, histVars, faults>>

Judge(c) ==
  /\ At(c, "judge")
  /\ Goto(c, IF Alive(judged[c].pid) THEN "done" ELSE "takeover")
  /\ UNCHANGED <<fileVars, dead, judged, isFirst, histVars, faults>>

TakeOver(c) ==
  /\ At(c, "takeover")
  /\ Replace(c, FileOf(c))
  /\ Goto(c, "verify")
  /\ UNCHANGED <<legacy, dead, judged, isFirst, company, faults>>

\* The temporary file cannot be written or renamed; Windows removes the lock and tries again.
TakeOverFails(c) ==
  /\ At(c, "takeover") /\ Fault
  /\ \/ Goto(c, "done") /\ UNCHANGED <<lock, late>>
     \/ Goto(c, "again") /\ lock # NoFile /\ Replace(c, NoFile)
  /\ UNCHANGED <<legacy, dead, judged, isFirst, company>>

TakeOverAgain(c) ==
  /\ At(c, "again")
  /\ Replace(c, FileOf(c))
  /\ Goto(c, "verify")
  /\ UNCHANGED <<legacy, dead, judged, isFirst, company, faults>>

TakeOverAgainFails(c) ==
  /\ At(c, "again") /\ Fault
  /\ Goto(c, "done")
  /\ UNCHANGED <<fileVars, dead, judged, isFirst, histVars>>

\* Variant: a rename that succeeded is taken for a takeover.
VerifyNothing(c) ==
  /\ At(c, "verify")
  /\ isFirst' = [isFirst EXCEPT ![c] = TRUE]
  /\ Goto(c, "done")
  /\ UNCHANGED <<fileVars, dead, judged, histVars, faults>>

Verify(c) ==
  /\ At(c, "verify")
  /\ isFirst' = [isFirst EXCEPT ![c] = (lock.pid = c)]
  /\ Goto(c, "done")
  /\ UNCHANGED <<fileVars, dead, judged, histVars, faults>>

-----------------------------------------------------------------------------
\* Variant: the lock file is removed whoever it belongs to.
ReleaseAny(c) ==
  /\ At(c, "done")
  /\ lock' = NoFile
  /\ isFirst' = [isFirst EXCEPT ![c] = FALSE]
  /\ Goto(c, "released")
  /\ UNCHANGED <<legacy, dead, judged, histVars, faults>>

Release(c) ==
  /\ At(c, "done")
  /\ lock' = IF isFirst[c] THEN NoFile ELSE lock
  /\ isFirst' = [isFirst EXCEPT ![c] = FALSE]
  /\ Goto(c, "released")
  /\ UNCHANGED <<legacy, dead, judged, histVars, faults>>

\* The process ends, wherever its calls are; what they held is left behind.
End(pid) ==
  /\ pid \in Instance \ dead
  /\ dead' = dead \cup {pid}
  /\ UNCHANGED <<fileVars, pc, judged, isFirst, histVars, faults>>

Migrate(c) == MigrateStat(c) \/ MigrateRemove(c) \/ MigrateRename(c)
NewLock(c) == Begin(c) \/ Migrate(c) \/ Create(c) \/ WriteLockInfo(c) \/ NewLockFails(c) \/ Exists(c)
Takeover(c) == \/ CheckStale(c) \/ Judge(c) \/ TakeOver(c) \/ TakeOverFails(c)
               \/ TakeOverAgain(c) \/ TakeOverAgainFails(c) \/ Verify(c)

Next == (\E c \in Instance : NewLock(c) \/ Takeover(c) \/ Release(c)) \/ (\E p \in Instance : End(p))

Spec == Init /\ [][Next]_vars

-----------------------------------------------------------------------------
(* Every variable stays in its type, and only a call that came to its end  *)
(* is first.                                                               *)
TypeOK ==
  /\ lock \in Files /\ legacy \in {NoFile, LegacyLock}
  /\ dead \subseteq Instance /\ faults \in 0..MaxFaults
  /\ pc \in [Instance -> {"out", "migrate", "remove", "rename", "open", "write", "failed", "check",
                       "judge", "takeover", "again", "verify", "done", "released"}]
  /\ judged \in [Instance -> Files] /\ isFirst \in [Instance -> BOOLEAN]
  /\ company \subseteq Instance /\ late \in BOOLEAN
  /\ \A c \in Instance : isFirst[c] => pc[c] = "done"

First(c) == isFirst[c] /\ c \notin dead

(* Of instances that take a stale lock over at the same time, create it,   *)
(* move a legacy one, release theirs or crash, at most one believes to be  *)
(* the first, unless one took away a lock file a live one had claimed.     *)
OneFirstUnlessLate == ~late => \A c, d \in Instance : First(c) /\ First(d) => c = d

(* Unless that happened, the lock file is there and is its own for as long *)
(* as an instance is the first: nobody else's Release, migration or failed *)
(* takeover takes it away.                                                 *)
HolderKeepsLock == ~late => \A c \in Instance : First(c) => lock = FileOf(c)

(* No crash, stale lock or legacy lock keeps the next instance from being  *)
(* the first if it runs alone and no file operation fails, except that a   *)
(* lock file nobody finished writing is never taken over.                  *)
AloneIsFirst ==
  \A c \in Instance : (pc[c] = "done" /\ c \notin company /\ faults = MaxFaults) =>
                      isFirst[c] \/ (lock # NoFile /\ lock.pid = Nobody)

(* What the code means to hold and does not (see the findings).            *)
(* "Verify we won the race ... This handles the case where two processes   *)
(* both rename simultaneously": never are two instances the first.         *)
OneFirst == \A c, d \in Instance : First(c) /\ First(d) => c = d
=============================================================================
