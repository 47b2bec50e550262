---------------------------- MODULE EmbeddedCache ----------------------------
(***************************************************************************)
(* internal/datasource/embedded.go, embedded_cache.go: the load of an      *)
(* embedded project.  The hash of the storage manifest, read first, is the *)
(* key of a snapshot under .bt/.  A hit spares the `bd export`; a miss     *)
(* exports, and writes what it got under the key it read before.  Readers  *)
(* are loads of any process; bd commits, and the files of the project can  *)
(* be brought back to an earlier state.                                    *)
(*                                                                         *)
(* A version of the data stands for the issues and for the manifest.       *)
(***************************************************************************)
EXTENDS Naturals

CONSTANTS
  Reader,       \* loads that may run at the same time
  Attempts,     \* exports a load tries, 1 + embeddedExportMaxRetries
  MaxCommits,   \* versions of the data
  MaxTroubles   \* exports, writes and processes that fail

ASSUME AttemptsAssumption == Attempts \in Nat \ {0}
ASSUME CommitsAssumption == MaxCommits \in Nat \ {0} /\ MaxTroubles \in Nat

VARIABLES
  data,      \* version of the data
  newest,    \* the last version committed
  rewound,   \* history: was an earlier state brought back?
  snap,      \* the snapshot file
  load,      \* where each load is
  tries,     \* exports it has tried
  key,       \* the version of the manifest it read, 0 when there is none
  issues,    \* the version it has in hand
  since,     \* history: the versions the data had since the load was called
  troubles   \* faults left

embeddedVars == <<data, newest, rewound, snap, load, tries, key, issues, since, troubles>>

Versions == 1..MaxCommits
NoSnap == [key |-> 0, issues |-> 0]

\* A project has no manifest before its first commit.
EmbeddedInit ==
  /\ data = 0 /\ newest = 0 /\ rewound = FALSE /\ snap = NoSnap
  /\ load = [r \in Reader |-> "idle"] /\ tries = [r \in Reader |-> 0]
  /\ key = [r \in Reader |-> 0] /\ issues = [r \in Reader |-> 0]
  /\ since = [r \in Reader |-> {}] /\ troubles = MaxTroubles

Trouble == troubles > 0 /\ troubles' = troubles - 1

-----------------------------------------------------------------------------
\* The data become version v, for every load that is running.
BecomesData(v) ==
  /\ data' = v
  /\ since' = [r \in Reader |-> IF load[r] = "idle" THEN since[r] ELSE since[r] \cup {v}]

\* A commit replaces the manifest in one step.
Commit ==
  /\ newest < MaxCommits
  /\ newest' = newest + 1 /\ BecomesData(newest + 1)
  /\ UNCHANGED <<rewound, snap, load, tries, key, issues, troubles>>

\* A backup, or a checkout of .beads.
BringBack ==
  /\ \E v \in 1..(data - 1) : BecomesData(v)
  /\ rewound' = TRUE
  /\ UNCHANGED <<newest, snap, load, tries, key, issues, troubles>>

-----------------------------------------------------------------------------
(* LoadIssues.                                                             *)

\* A load is over, with its issues or without.
Ends(r) ==
  /\ load' = [load EXCEPT ![r] = "idle"]
  /\ tries' = [tries EXCEPT ![r] = 0]
  /\ key' = [key EXCEPT ![r] = 0] /\ issues' = [issues EXCEPT ![r] = 0]
  /\ since' = [since EXCEPT ![r] = {}]

\* computeEmbeddedCacheKey.
ReadKey(r) ==
  /\ load[r] = "idle"
  /\ load' = [load EXCEPT ![r] = IF data = 0 THEN "export" ELSE "lookup"]
  /\ key' = [key EXCEPT ![r] = data]
  /\ since' = [since EXCEPT ![r] = {data}]
  /\ UNCHANGED <<data, newest, rewound, snap, tries, issues, troubles>>

\* readEmbeddedSnapshot: a file that is absent, unreadable or of another key is a miss.
Lookup(r, hit) ==
  /\ load[r] = "lookup"
  /\ \/ /\ hit
        /\ load' = [load EXCEPT ![r] = "loaded"]
        /\ issues' = [issues EXCEPT ![r] = snap.issues] /\ UNCHANGED troubles
     \/ /\ IF hit THEN Trouble ELSE UNCHANGED troubles
        /\ load' = [load EXCEPT ![r] = "export"] /\ UNCHANGED issues
  /\ UNCHANGED <<data, newest, rewound, snap, tries, key, since>>

ReadSnapshot(r) == Lookup(r, snap.key = key[r])

\* One run of `bd export`, which prints the data of one moment.
Export(r) ==
  /\ load[r] = "export" /\ tries[r] < Attempts
  /\ issues' = [issues EXCEPT ![r] = data]
  /\ load' = [load EXCEPT ![r] = IF key[r] = 0 THEN "loaded" ELSE "write"]
  /\ UNCHANGED <<data, newest, rewound, snap, tries, key, since, troubles>>

ExportFails(r) ==
  /\ load[r] = "export" /\ tries[r] < Attempts /\ Trouble
  /\ tries' = [tries EXCEPT ![r] = @ + 1]
  /\ UNCHANGED <<data, newest, rewound, snap, load, key, issues, since>>

\* All attempts failed, the time is up, or the output does not parse.
LoadFails(r) ==
  /\ load[r] = "export"
  /\ IF tries[r] = Attempts THEN UNCHANGED troubles ELSE Trouble
  /\ Ends(r)
  /\ UNCHANGED <<data, newest, rewound, snap>>

\* writeEmbeddedSnapshot: a temporary file, and a rename over the snapshot.
Write(r, under) ==
  /\ load[r] = "write"
  /\ snap' = [key |-> under, issues |-> issues[r]]
  /\ load' = [load EXCEPT ![r] = "loaded"]
  /\ UNCHANGED <<data, newest, rewound, tries, key, issues, since, troubles>>

\* Variant: the manifest is read after the export.
WriteUnderPresent(r) == Write(r, data)
WriteSnapshot(r) == Write(r, key[r])

\* Windows removes the snapshot first.
RemoveSnapshot(r) ==
  /\ load[r] = "write" /\ snap # NoSnap
  /\ snap' = NoSnap
  /\ UNCHANGED <<data, newest, rewound, load, tries, key, issues, since, troubles>>

WriteFails(r) ==
  /\ load[r] = "write" /\ Trouble
  /\ load' = [load EXCEPT ![r] = "loaded"]
  /\ UNCHANGED <<data, newest, rewound, snap, tries, key, issues, since>>

LoadReturns(r) ==
  /\ load[r] = "loaded"
  /\ Ends(r)
  /\ UNCHANGED <<data, newest, rewound, snap, troubles>>

\* The process ends before it has the issues in hand.
LoaderDies(r) ==
  /\ load[r] \notin {"idle", "loaded"} /\ Trouble
  /\ Ends(r)
  /\ UNCHANGED <<data, newest, rewound, snap>>

EmbeddedNext ==
  \/ Commit \/ BringBack
  \/ \E r \in Reader :
       \/ ReadKey(r) \/ ReadSnapshot(r) \/ Export(r) \/ ExportFails(r) \/ LoadFails(r)
       \/ WriteSnapshot(r) \/ RemoveSnapshot(r) \/ WriteFails(r)
       \/ LoadReturns(r) \/ LoaderDies(r)

-----------------------------------------------------------------------------
EmbeddedTypes ==
  /\ data \in 0..MaxCommits /\ newest \in 0..MaxCommits /\ rewound \in BOOLEAN
  /\ snap \in {NoSnap} \cup [key : Versions, issues : Versions]
  /\ load \in [Reader -> {"idle", "lookup", "export", "write", "loaded"}]
  /\ tries \in [Reader -> 0..Attempts]
  /\ key \in [Reader -> 0..MaxCommits] /\ issues \in [Reader -> 0..MaxCommits]
  /\ since \in [Reader -> SUBSET (0..MaxCommits)] /\ troubles \in 0..MaxTroubles

(* "unchanged hash means the parsed issue snapshot ... is still exactly    *)
(* correct": the issues a load returns, exported or from the snapshot that *)
(* another load wrote while commits went on, are the issues of a moment    *)
(* between its call and its return.  Not so once an earlier manifest is    *)
(* brought back, because the snapshot may be newer than its key.           *)
LoadsPresent == \A r \in Reader : load[r] = "loaded" => issues[r] \in since[r] \/ rewound

(* The snapshot is at least as new as its key, and neither is of the       *)
(* future.                                                                 *)
SnapNotOlder == ~rewound => snap.key <= snap.issues /\ snap.issues <= data
=============================================================================
