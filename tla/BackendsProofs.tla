---------------------------- MODULE BackendsProofs ----------------------------
(***************************************************************************)
(* The three ways to the data (Backends).  The embedded snapshot, for any  *)
(* number of loads, attempts, versions and faults: as long as no earlier   *)
(* state of the project is brought back, a load returns the issues of a    *)
(* moment between its call and its return.  The days of the global mode,   *)
(* for any limit and any length of a session: a sweep evicts none that it  *)
(* covers.  The Dolt server, shared by any number of instances: which      *)
(* servers an instance stops, and which it may leave running.              *)
(***************************************************************************)
EXTENDS Backends, FiniteSetTheorems, WellFoundedInduction, TLAPS

(* The embedded snapshot.                                                  *)
CacheTypes ==
  /\ data \in Nat /\ newest \in Nat /\ rewound \in BOOLEAN
  /\ snap \in [key : Nat, issues : Nat]
  /\ load \in [Reader -> {"idle", "lookup", "export", "write", "loaded"}]
  /\ key \in [Reader -> Nat] /\ issues \in [Reader -> Nat]
  /\ since \in [Reader -> SUBSET Nat]

\* The versions since the call are those from the key to the present, and so is what a load has in
\* hand; the snapshot is as new as its key, or newer, because it was exported after the key was read.
InOrder ==
  /\ data = newest
  /\ snap.key <= snap.issues /\ snap.issues <= data
  /\ \A r \in Reader : load[r] # "idle" => key[r] <= data /\ since[r] = key[r]..data
  /\ \A r \in Reader : load[r] \in {"write", "loaded"} => key[r] <= issues[r] /\ issues[r] <= data

CacheInv == CacheTypes /\ (~rewound => InOrder)

\* Nothing runs yet and there is no snapshot.
LEMMA CacheStarts == EmbeddedInit => CacheInv
<1> SUFFICES ASSUME EmbeddedInit PROVE CacheInv
  OBVIOUS
<1>1. snap \in [key : Nat, issues : Nat] /\ snap.key = 0 /\ snap.issues = 0
  BY DEF EmbeddedInit, NoSnap
<1>2. since \in [Reader -> SUBSET Nat] /\ key \in [Reader -> Nat] /\ issues \in [Reader -> Nat]
  BY DEF EmbeddedInit
<1>3. load = [r \in Reader |-> "idle"] /\ data = 0 /\ newest = 0 /\ rewound = FALSE
  BY DEF EmbeddedInit
<1>4. \A r \in Reader : load[r] = "idle"
  BY <1>3
<1>5. InOrder
  BY <1>1, <1>3, <1>4 DEF InOrder
<1>6. CacheTypes
  <2>1. load \in [Reader -> {"idle", "lookup", "export", "write", "loaded"}]
    BY <1>3
  <2> QED  BY <1>1, <1>2, <1>3, <2>1 DEF CacheTypes
<1> QED  BY <1>5, <1>6 DEF CacheInv

\* A commit extends what every running load may return by the version that it makes.
LEMMA CommitInOrder == ASSUME CacheInv, Commit PROVE CacheInv'
<1> USE DEF Commit, BecomesData
<1>1. CacheTypes'
  <2>1. newest + 1 \in Nat
    BY DEF CacheInv, CacheTypes
  <2>2. since' \in [Reader -> SUBSET Nat]
    BY <2>1 DEF CacheInv, CacheTypes
  <2> QED  BY <2>1, <2>2 DEF CacheInv, CacheTypes
<1>2. ASSUME ~rewound PROVE InOrder'
  <2>1. data' = data + 1 /\ data \in Nat /\ data' = newest'
    BY <1>2 DEF CacheInv, InOrder, CacheTypes
  <2>2. snap'.key <= snap'.issues /\ snap'.issues <= data'
    BY <1>2, <2>1 DEF CacheInv, InOrder, CacheTypes
  <2>3. ASSUME NEW r \in Reader, load'[r] # "idle" PROVE key'[r] <= data' /\ since'[r] = key'[r]..data'
    <3>1. since'[r] = since[r] \cup {data + 1}
      BY <1>2, <2>3 DEF CacheInv, CacheTypes, InOrder
    <3>2. key[r] \in Nat /\ key[r] <= data /\ since[r] = key[r]..data
      BY <1>2, <2>3 DEF CacheInv, CacheTypes, InOrder
    <3>3. (key[r]..data) \cup {data + 1} = key[r]..(data + 1)
      BY <2>1, <3>2
    <3>4. data' = data + 1 /\ data \in Nat /\ key' = key
      BY <2>1
    <3>5. since'[r] = key'[r]..data'
      BY <3>1, <3>2, <3>3, <3>4
    <3> QED  BY <3>2, <3>4, <3>5
  <2>4. ASSUME NEW r \in Reader, load'[r] \in {"write", "loaded"}
        PROVE  key'[r] <= issues'[r] /\ issues'[r] <= data'
    <3>1. issues[r] \in Nat /\ key[r] \in Nat
      BY DEF CacheInv, CacheTypes
    <3> QED  BY <1>2, <2>1, <2>4, <3>1 DEF CacheInv, InOrder
  <2> QED  BY <2>1, <2>2, <2>3, <2>4 DEF InOrder
<1> QED  BY <1>1, <1>2 DEF CacheInv

\* Once something is brought back, only the types are kept.
LEMMA BringBackTyped == ASSUME CacheInv, BringBack PROVE CacheInv'
<1> USE DEF BringBack, BecomesData
<1>1. PICK v \in 1..(data - 1) : BecomesData(v)
  OBVIOUS
<1>2. v \in Nat
  BY DEF CacheInv, CacheTypes
<1>3. since' \in [Reader -> SUBSET Nat]
  BY <1>1, <1>2 DEF CacheInv, CacheTypes
<1> QED  BY <1>1, <1>2, <1>3 DEF CacheInv, CacheTypes

\* A load that ends has nothing in hand any more.
LEMMA EndsInOrder ==
  ASSUME CacheInv, NEW r \in Reader, Ends(r), UNCHANGED <<data, newest, rewound, snap>> PROVE CacheInv'
<1> USE DEF Ends
<1>1. CacheTypes'
  BY DEF CacheInv, CacheTypes
<1>2. ASSUME ~rewound PROVE InOrder'
  BY <1>2 DEF CacheInv, CacheTypes, InOrder
<1> QED  BY <1>1, <1>2 DEF CacheInv

\* What one load does with its own state, the data and the snapshot being what they were.
LEMMA LoadInOrder ==
  ASSUME CacheInv, NEW r \in Reader,
         ReadKey(r) \/ ReadSnapshot(r) \/ Export(r) \/ ExportFails(r) \/ WriteFails(r)
  PROVE  CacheInv'
<1>1. CASE ReadKey(r)
  <2>1. CacheTypes'
    BY <1>1 DEF ReadKey, CacheInv, CacheTypes
  <2>2. ASSUME ~rewound PROVE InOrder'
    <3>1. data \in Nat /\ {data} = data..data
      BY DEF CacheInv, CacheTypes
    <3>2. ASSUME NEW q \in Reader, load'[q] # "idle" PROVE key'[q] <= data' /\ since'[q] = key'[q]..data'
      <4>1. CASE q = r
        BY <1>1, <3>1, <4>1 DEF ReadKey, CacheInv, CacheTypes
      <4>2. CASE q # r
        BY <1>1, <2>2, <3>2, <4>2 DEF ReadKey, CacheInv, CacheTypes, InOrder
      <4> QED  BY <4>1, <4>2
    <3>3. ASSUME NEW q \in Reader, load'[q] \in {"write", "loaded"}
          PROVE  key'[q] <= issues'[q] /\ issues'[q] <= data'
      BY <1>1, <2>2, <3>3 DEF ReadKey, CacheInv, CacheTypes, InOrder
    <3> QED  BY <1>1, <2>2, <3>2, <3>3 DEF ReadKey, CacheInv, InOrder
  <2> QED  BY <1>1, <2>1, <2>2 DEF CacheInv, ReadKey
<1>2. CASE ReadSnapshot(r)
  <2>1. CacheTypes'
    BY <1>2 DEF ReadSnapshot, Lookup, CacheInv, CacheTypes
  <2>2. ASSUME ~rewound PROVE InOrder'
    BY <1>2, <2>2 DEF ReadSnapshot, Lookup, CacheInv, CacheTypes, InOrder
  <2> QED  BY <1>2, <2>1, <2>2 DEF CacheInv, ReadSnapshot, Lookup
<1>3. CASE Export(r)
  <2>1. CacheTypes'
    BY <1>3 DEF Export, CacheInv, CacheTypes
  <2>2. ASSUME ~rewound PROVE InOrder'
    BY <1>3, <2>2 DEF Export, CacheInv, CacheTypes, InOrder
  <2> QED  BY <1>3, <2>1, <2>2 DEF CacheInv, Export
<1>4. CASE ExportFails(r)
  BY <1>4 DEF ExportFails, CacheInv, CacheTypes, InOrder
<1>5. CASE WriteFails(r)
  <2>1. CacheTypes'
    BY <1>5 DEF WriteFails, CacheInv, CacheTypes
  <2>2. ASSUME ~rewound PROVE InOrder'
    BY <1>5, <2>2 DEF WriteFails, CacheInv, CacheTypes, InOrder
  <2> QED  BY <1>5, <2>1, <2>2 DEF CacheInv, WriteFails
<1> QED  BY <1>1, <1>2, <1>3, <1>4, <1>5

\* The snapshot is replaced by one that is as new as its key, or is removed.
LEMMA SnapInOrder ==
  ASSUME CacheInv, NEW r \in Reader, WriteSnapshot(r) \/ RemoveSnapshot(r) PROVE CacheInv'
<1>1. CASE WriteSnapshot(r)
  <2>1. CacheTypes'
    BY <1>1 DEF WriteSnapshot, Write, CacheInv, CacheTypes
  <2>2. ASSUME ~rewound PROVE InOrder'
    BY <1>1, <2>2 DEF WriteSnapshot, Write, CacheInv, CacheTypes, InOrder
  <2> QED  BY <1>1, <2>1, <2>2 DEF CacheInv, WriteSnapshot, Write
<1>2. CASE RemoveSnapshot(r)
  BY <1>2 DEF RemoveSnapshot, NoSnap, CacheInv, CacheTypes, InOrder
<1> QED  BY <1>1, <1>2

LEMMA CacheKept == CacheInv /\ [EmbeddedNext]_embeddedVars => CacheInv'
<1> SUFFICES ASSUME CacheInv, [EmbeddedNext]_embeddedVars PROVE CacheInv'
  OBVIOUS
<1>1. CASE Commit
  BY <1>1, CommitInOrder
<1>2. CASE BringBack
  BY <1>2, BringBackTyped
<1>3. ASSUME NEW r \in Reader, LoadFails(r) \/ LoadReturns(r) \/ LoaderDies(r) PROVE CacheInv'
  BY <1>3, EndsInOrder DEF LoadFails, LoadReturns, LoaderDies
<1>4. CASE UNCHANGED embeddedVars
  BY <1>4 DEF embeddedVars, CacheInv, CacheTypes, InOrder
<1> QED  BY <1>1, <1>2, <1>3, <1>4, LoadInOrder, SnapInOrder DEF EmbeddedNext

\* A hit and an export alike give the issues of a moment since the call (embedded_cache.go:22,
\* "unchanged hash means the parsed issue snapshot ... is still exactly correct").
THEOREM LoadsArePresent == Spec => []LoadsPresent
<1>1. CacheInv => LoadsPresent
  <2> SUFFICES ASSUME CacheInv, NEW r \in Reader, load[r] = "loaded", ~rewound PROVE issues[r] \in since[r]
    BY DEF LoadsPresent
  <2>1. since[r] = key[r]..data /\ key[r] <= issues[r] /\ issues[r] <= data
    BY DEF CacheInv, InOrder
  <2>2. key[r] \in Nat /\ issues[r] \in Nat /\ data \in Nat
    BY DEF CacheInv, CacheTypes
  <2> QED  BY <2>1, <2>2
<1>2. Init => CacheInv
  BY CacheStarts DEF Init
<1>3. CacheInv /\ [Next]_vars => CacheInv'
  BY CacheKept DEF Next, vars, OfServer, OfEmbedded, OfGlobal
<1> QED  BY <1>1, <1>2, <1>3, PTL DEF Spec

-----------------------------------------------------------------------------
(* The days of the global mode.                                            *)
LEMMA LeastNatural == ASSUME NEW T \in SUBSET Nat, T # {} PROVE \E x \in T : \A y \in T : x <= y
<1> DEFINE R == OpToRel(<, Nat)
<1>1. \A x, y \in Nat : <<y, x>> \notin R => x <= y
  BY DEF OpToRel
<1>2. IsWellFoundedOn(R, Nat)
  BY NatLessThanWellFounded
<1> HIDE DEF R
<1>3. \E x \in T : \A y \in T : <<y, x>> \notin R
  BY <1>2, WFMin
<1> QED
  BY <1>1, <1>3

LEMMA DaysAreIntegers == \A d \in Days : d \in Int /\ d + HistoryDays \in Nat /\ d <= MaxDays
BY TemporalAssumption DEF Days

LEMMA OldestIs ==
  ASSUME NEW T \in SUBSET Days, T # {}
  PROVE  Oldest(T) \in T /\ \A d \in T : Oldest(T) <= d
<1> DEFINE Shifted == {d + HistoryDays : d \in T}
<1>0. HistoryDays \in Int /\ \A d \in T : d \in Int /\ d + HistoryDays \in Nat
  BY TemporalAssumption, DaysAreIntegers
<1>1. Shifted \in SUBSET Nat /\ Shifted # {}
  BY <1>0, Zenon
<1>2. PICK m \in Shifted : \A y \in Shifted : m <= y
  BY <1>1, LeastNatural
<1>3. PICK d \in T : m = d + HistoryDays
  BY <1>2
<1>4. ASSUME NEW e \in T PROVE d <= e
  <2>1. m <= e + HistoryDays
    BY <1>2
  <2> HIDE DEF Shifted
  <2> QED
    BY <1>0, <1>3, <2>1
<1> QED
  BY <1>4 DEF Oldest

LEMMA DaysFinite == ASSUME NEW T \in SUBSET Days PROVE IsFiniteSet(T) /\ Cardinality(T) \in Nat
<1>1. IsFiniteSet(Days)
  BY TemporalAssumption, FS_Interval DEF Days
<1> QED
  BY <1>1, FS_Subset, FS_CardinalityType

\* Each day that is kept has its own number of later ones, and these numbers are below the limit.
LEMMA EvictionBounds ==
  ASSUME NEW T \in SUBSET Days
  PROVE  Cardinality(EvictOldest(T)) <= MaxSnapshots
<1> DEFINE Later(d) == {e \in T : e > d}
           K == EvictOldest(T)
           count == [d \in K |-> Cardinality(Later(d))]
<1>1. K \subseteq T /\ \A d \in K : Cardinality(Later(d)) < MaxSnapshots
  BY DEF EvictOldest
<1>2. \A d \in T : Later(d) \subseteq T /\ IsFiniteSet(Later(d)) /\ Cardinality(Later(d)) \in Nat
  BY DaysFinite
<1>3. ASSUME NEW c \in K, NEW d \in K, c < d PROVE count[d] < count[c]
  <2> HIDE DEF K
  <2>0. c \in Int /\ d \in T /\ d \in Int /\ \A e \in T : e \in Int
    BY <1>1, <1>3, DaysAreIntegers
  <2>1. d \notin Later(d) /\ Later(d) \cup {d} \subseteq Later(c)
    <3>1. ~(d > d) /\ d > c
      BY <1>3, <2>0
    <3>2. ASSUME NEW e \in T, e > d PROVE e > c
      BY <1>3, <2>0, <3>2
    <3>3. d \notin Later(d) /\ d \in Later(c)
      BY <2>0, <3>1
    <3>4. Later(d) \subseteq Later(c)
      BY <3>2, Zenon
    <3> HIDE DEF Later
    <3> QED
      BY <3>3, <3>4
  <2>2. Cardinality(Later(d) \cup {d}) = Cardinality(Later(d)) + 1
    BY <1>1, <1>2, <2>1, FS_AddElement
  <2>3. Cardinality(Later(d) \cup {d}) <= Cardinality(Later(c))
    BY <1>1, <1>2, <2>1, FS_Subset
  <2> HIDE DEF Later, K
  <2> QED
    BY <1>1, <1>2, <2>2, <2>3
<1>4. count \in [K -> 0..(MaxSnapshots - 1)]
  <2> HIDE DEF Later, K
  <2> QED
    BY <1>1, <1>2, TemporalAssumption
<1>5. count \in Injection(K, 0..(MaxSnapshots - 1))
  <2>1. \A c, d \in K : c # d => count[c] # count[d]
    <3>0. \A c \in K : c \in Int
      BY <1>1, DaysAreIntegers
    <3>1. \A c, d \in K : c # d => c < d \/ d < c
      BY <3>0
    <3>2. \A c \in K : count[c] \in Int
      BY <1>4
    <3> HIDE DEF K, count
    <3> QED
      BY <1>3, <3>1, <3>2
  <2> HIDE DEF K, count
  <2> QED
    BY <1>4, <2>1 DEF Injection, IsInjective
<1>6. IsFiniteSet(0..(MaxSnapshots - 1)) /\ Cardinality(0..(MaxSnapshots - 1)) = MaxSnapshots
  BY TemporalAssumption, FS_Interval
<1> HIDE DEF K, count
<1>7. Cardinality(K) <= Cardinality(0..(MaxSnapshots - 1))
  BY <1>5, <1>6, FS_Injection
<1> QED
  BY <1>6, <1>7 DEF K

\* No more days than the limit lie between a covered day and the last one covered.
LEMMA EvictionKeeps ==
  ASSUME NEW T \in SUBSET Days, NEW day \in 0..MaxDays, \A e \in T : e < day - HistoryDays + MaxSnapshots,
         NEW d \in T \cap Window(day)
  PROVE  d \in EvictOldest(T)
<1> DEFINE Later == {e \in T : e > d}
           Between == (d + 1)..(day - HistoryDays + MaxSnapshots - 1)
<1> USE TemporalAssumption
<1>0. day \in Int /\ \A e \in T : e \in Int
  BY DaysAreIntegers
<1>1. d \in Int /\ d >= day - HistoryDays /\ d < day - HistoryDays + MaxSnapshots
  BY <1>0 DEF Window
<1>2. Later \subseteq Between
  <2> SUFFICES ASSUME NEW e \in T, e > d PROVE e \in Between
    BY Zenon
  <2>1. e \in Int /\ e < day - HistoryDays + MaxSnapshots
    BY <1>0
  <2> QED
    BY <1>0, <1>1, <2>1
<1>3. IsFiniteSet(Between) /\ Cardinality(Between) <= MaxSnapshots - 1
  <2> DEFINE a == d + 1
             b == day - HistoryDays + MaxSnapshots - 1
  <2>1. a \in Int /\ b \in Int /\ a <= b + 1 /\ b - a + 1 <= MaxSnapshots - 1
    BY <1>0, <1>1
  <2> HIDE DEF a, b
  <2>2. IsFiniteSet(a..b) /\ Cardinality(a..b) = (IF a > b THEN 0 ELSE b - a + 1)
    BY <2>1, FS_Interval
  <2>3. Cardinality(a..b) <= MaxSnapshots - 1
    BY <2>1, <2>2
  <2> QED
    BY <2>2, <2>3 DEF a, b
<1> HIDE DEF Between
<1>4. Cardinality(Later) <= Cardinality(Between) /\ Cardinality(Later) \in Nat /\ Cardinality(Between) \in Nat
  BY <1>2, <1>3, FS_Subset, FS_CardinalityType
<1>5. Cardinality(Later) < MaxSnapshots
  <2> HIDE DEF Later
  <2> QED
    BY <1>3, <1>4
<1> QED
  BY <1>5 DEF EvictOldest

\* The cache has no day beyond those the last sweep covered; during a sweep it keeps what it
\* had, and as long as nothing was loaded it has no day of those already asked for.
Covered == \A d \in snapshots : d < to - HistoryDays + MaxSnapshots
Sweeping ==
  populating => /\ unasked \subseteq Window(to) /\ had \cap Window(to) \subseteq snapshots
                /\ ~loaded => snapshots \cap Window(to) \subseteq unasked
DaysInv == TemporalTypes /\ to <= today /\ (~populating => unasked = {}) /\ Covered /\ Sweeping /\ RecentDaysKept

LEMMA WindowDays ==
  ASSUME NEW day \in 0..MaxDays
  PROVE  Window(day) \subseteq Days /\ \A d \in Window(day) : d < day - HistoryDays + MaxSnapshots
BY TemporalAssumption DEF Window, Days

LEMMA DaysNext == DaysInv /\ [TemporalNext]_temporalVars => DaysInv'
<1> SUFFICES ASSUME DaysInv, [TemporalNext]_temporalVars PROVE DaysInv'
  OBVIOUS
<1> USE TemporalAssumption DEF DaysInv, TemporalTypes
<1>1. CASE DaysPass
  BY <1>1 DEF DaysPass, Covered, Sweeping, RecentDaysKept
<1>2. CASE Sweep
  <2>0. Window(today) \subseteq Days
    BY WindowDays
  <2>1. TemporalTypes' /\ to' <= today' /\ (~populating => unasked = {})'
    <3>1. today' \in 0..MaxDays /\ to' \in 0..MaxDays /\ to' <= today' /\ populating'
      BY <1>2 DEF Sweep
    <3>2. snapshots' \subseteq Days /\ unasked' \subseteq Days /\ had' \subseteq Days
      BY <1>2, <2>0, Zenon DEF Sweep
    <3>3. populating' \in BOOLEAN /\ loaded' \in BOOLEAN /\ disabled' \in BOOLEAN
      BY <1>2, Zenon DEF Sweep
    <3> QED
      BY <3>1, <3>2, <3>3, Zenon DEF TemporalTypes
  <2>2. Covered'
    BY <1>2 DEF Sweep, Covered, Days
  <2>3. Sweeping' /\ RecentDaysKept'
    BY <1>2 DEF Sweep, Sweeping, RecentDaysKept
  <2> QED
    BY <2>1, <2>2, <2>3
<1>3. CASE AskLoaded
  <2> DEFINE day == Oldest(unasked)
  <2>1. populating /\ day \in unasked /\ day \in Window(to) /\ day \in Days
    BY <1>3, OldestIs, WindowDays DEF AskLoaded, Sweeping
  <2>2. /\ snapshots' = snapshots \cup {day} /\ had' = had \cup {day} /\ unasked' = unasked \ {day}
        /\ loaded' = TRUE /\ UNCHANGED <<today, populating, to, disabled>>
    BY <1>3 DEF AskLoaded
  <2> HIDE DEF day
  <2>3. TemporalTypes' /\ to' <= today' /\ (~populating => unasked = {})'
    BY <2>1, <2>2
  <2>4. Covered'
    BY <2>1, <2>2, WindowDays DEF Covered
  <2>5. Sweeping' /\ RecentDaysKept'
    BY <2>1, <2>2 DEF Sweeping, RecentDaysKept
  <2> QED
    BY <2>3, <2>4, <2>5
<1>4. CASE AskFailed
  <2> DEFINE day == Oldest(unasked)
  <2>1. populating /\ day \notin snapshots
    BY <1>4 DEF AskFailed
  <2>2. unasked' = unasked \ {day} /\ UNCHANGED <<today, snapshots, populating, to, loaded, disabled, had>>
    BY <1>4 DEF AskFailed
  <2> HIDE DEF day
  <2>3. TemporalTypes' /\ to' <= today' /\ (~populating => unasked = {})'
    BY <2>1, <2>2
  <2>4. Covered' /\ Sweeping' /\ RecentDaysKept'
    BY <2>1, <2>2 DEF Covered, Sweeping, RecentDaysKept
  <2> QED
    BY <2>3, <2>4
<1>5. CASE EndSweep
  <2>1. snapshots' = EvictOldest(snapshots) /\ snapshots' \subseteq snapshots
    BY <1>5 DEF EndSweep, EvictOldest
  <2>2. /\ populating /\ unasked = {} /\ ~populating' /\ (disabled' <=> ~loaded)
        /\ UNCHANGED <<today, to, unasked, loaded, had>>
    BY <1>5 DEF EndSweep
  <2>3. TemporalTypes' /\ to' <= today' /\ (~populating => unasked = {})'
    BY <1>5, <2>1 DEF EndSweep
  <2>4. Covered' /\ Sweeping'
    BY <2>1, <2>2 DEF Covered, Sweeping
  <2>5. Cardinality(snapshots') <= MaxSnapshots
    BY <2>1, EvictionBounds
  <2>6. snapshots \cap Window(to) \subseteq snapshots'
    BY <2>1, EvictionKeeps DEF Covered
  <2>7. ~loaded => snapshots' \cap Window(to) = {}
    BY <2>1, <2>2 DEF Sweeping
  <2>8. RecentDaysKept'
    BY <2>2, <2>5, <2>6, <2>7 DEF RecentDaysKept, Sweeping, Window
  <2> QED
    BY <2>3, <2>4, <2>8
<1>6. CASE UNCHANGED temporalVars
  BY <1>6 DEF temporalVars, Covered, Sweeping, RecentDaysKept, Window
<1> QED
  BY <1>1, <1>2, <1>3, <1>4, <1>5, <1>6 DEF TemporalNext

(* Between sweeps the cache is within its limit and has lost no day that   *)
(* the last sweep covered and that it had or got, whatever days failed and *)
(* however long the computer slept; and the circuit breaker has tripped    *)
(* only when the cache knows nothing of that time.                         *)
THEOREM CoveredDaysKept == Spec => []RecentDaysKept
<1>1. Init => DaysInv
  <2> SUFFICES ASSUME Init PROVE DaysInv
    OBVIOUS
  <2> USE TemporalAssumption DEF Init, TemporalInit
  <2>1. RecentDaysKept
    BY FS_EmptySet DEF RecentDaysKept
  <2>2. today \in 0..MaxDays /\ to \in 0..MaxDays /\ to <= today
    BY TemporalAssumption
  <2>3. TemporalTypes
    BY <2>2, Zenon DEF TemporalTypes
  <2> QED
    BY <2>1, <2>2, <2>3 DEF DaysInv, Covered, Sweeping
<1>2. DaysInv /\ [Next]_vars => DaysInv'
  BY DaysNext DEF Next, vars, OfServer, OfEmbedded, OfGlobal
<1>3. DaysInv => RecentDaysKept
  BY DEF DaysInv
<1> QED
  BY <1>1, <1>2, <1>3, PTL DEF Spec

-----------------------------------------------------------------------------
(* The Dolt server.  What an instance stops and what it may leave running  *)
(* rest on what it remembers of the process it started, and so on a fresh  *)
(* process number for every server.                                        *)
USE PortsAssumption, FaultsAssumption

States == [has : BOOLEAN, owned : BOOLEAN, pid : Pids \cup {0}, port : Ports \cup {0}, adopted : BOOLEAN]
Places == {"off", "launching", "loading", "running", "quitting", "checked", "ended"}

\* The variables by what they describe.
Server == /\ server \in {NoServer} \cup [pid : Pids, port : Ports, by : Instance \cup {0}]
          /\ pidFile \in Pids \cup {0} /\ portFile \in Ports \cup {0}
          /\ server # NoServer => pidFile = server.pid
Calls == /\ main \in [Instance -> Places]
         /\ ensure \in [Instance -> {"idle", "dial", "start", "wait", "done"}]
Memory == /\ got \in [Instance -> States] /\ handle \in [Instance -> States]
          /\ \A i \in Instance : (got[i].owned => got[i].pid # 0) /\ (handle[i].owned => handle[i].pid # 0)
Counts == /\ dsn \in [Instance -> Ports \cup {0}] /\ fails \in [Instance -> 0..ManyFails]
          /\ mishaps \subseteq {"replaced", "left"} /\ doltFaults \in 0..MaxFaults
Typed == Server /\ Calls /\ Memory /\ Counts

LEMMA TypedTypes == Typed /\ doltMode \in Modes => DoltTypes
BY DEF Typed, Server, Calls, Memory, Counts, DoltTypes, States, Places

\* One number more than an instance, a call and the PID file can remember.
LEMMA FreePid ==
  ASSUME Typed
  PROVE  NewPid \in Pids /\ NewPid # pidFile /\ \A i \in Instance : NewPid # handle[i].pid /\ NewPid # got[i].pid
<1> DEFINE n == Cardinality(Instance)
           H == {handle[i].pid : i \in Instance}
           G == {got[i].pid : i \in Instance}
           Used == (H \cup G) \cup {pidFile}
<1>1. IsFiniteSet(Instance) /\ n \in Nat
  BY InstanceAssumption, FS_CardinalityType
<1>2. IsFiniteSet(H) /\ Cardinality(H) \in Nat /\ Cardinality(H) <= n
  <2>1. [i \in Instance |-> handle[i].pid] \in Surjection(Instance, H)
    BY DEF Surjection
  <2> QED
    BY <1>1, <2>1, FS_Surjection, FS_CardinalityType
<1>3. IsFiniteSet(G) /\ Cardinality(G) \in Nat /\ Cardinality(G) <= n
  <2>1. [i \in Instance |-> got[i].pid] \in Surjection(Instance, G)
    BY DEF Surjection
  <2> QED
    BY <1>1, <2>1, FS_Surjection, FS_CardinalityType
<1> HIDE DEF H, G, n
<1>4. IsFiniteSet(H \cup G) /\ Cardinality(H \cup G) <= 2 * n /\ Cardinality(H \cup G) \in Nat
  <2>1. Cardinality(H \cap G) \in Nat
    BY <1>2, FS_Intersection, FS_CardinalityType
  <2>2. IsFiniteSet(H \cup G) /\ Cardinality(H \cup G) = Cardinality(H) + Cardinality(G) - Cardinality(H \cap G)
    BY <1>2, <1>3, FS_Union
  <2>3. Cardinality(H \cup G) \in Nat
    BY <2>2, FS_CardinalityType
  <2> QED
    BY <1>1, <1>2, <1>3, <2>1, <2>2, <2>3
<1>5. IsFiniteSet(Used) /\ Cardinality(Used) \in Nat /\ Cardinality(Used) <= 2 * n + 1
  <2>1. IsFiniteSet(Used) /\ Cardinality(Used) \in {Cardinality(H \cup G), Cardinality(H \cup G) + 1}
    BY <1>4, FS_AddElement
  <2> HIDE DEF Used
  <2> QED
    BY <1>1, <1>4, <2>1
<1>6. Cardinality(Pids) = 2 * n + 2
  BY <1>1, FS_Interval DEF Pids, n
<1> HIDE DEF Used
<1>7. ~(Pids \subseteq Used)
  BY <1>1, <1>5, <1>6, FS_Subset
<1>8. \E p \in Pids : p # pidFile /\ \A i \in Instance : p # handle[i].pid /\ p # got[i].pid
  BY <1>7 DEF Used, H, G
<1> QED
  BY <1>8 DEF NewPid

LEMMA StartedServer ==
  ASSUME Typed, NEW by \in Instance \cup {0}, NewServer(by)
  PROVE  /\ server' \in [pid : Pids, port : Ports, by : Instance \cup {0}]
         /\ server'.pid = NewPid /\ server'.by = by
         /\ pidFile' = NewPid /\ NewPid \in Pids /\ portFile' \in Ports
BY FreePid DEF NewServer

\* Process numbers and ports of servers are not 0.
LEMMA Positive == 0 \notin Pids /\ 0 \notin Ports /\ (server = NoServer => server.by = 0) /\ 0 \notin Instance
BY InstanceAssumption DEF Pids, NoServer

\* The server goes, or a new one comes.
ServerMoves == \/ UNCHANGED serverVars
               \/ server' = NoServer /\ pidFile' \in {0, pidFile} /\ portFile' \in {0, portFile}
               \/ \E by \in Instance \cup {0} : NewServer(by)

LEMMA ServerStep ==
  ASSUME Typed, [DoltNext]_doltVars
  PROVE  ServerMoves
<1>1. CASE ServerDies \/ OtherStarts
  BY <1>1 DEF ServerMoves, ServerDies, Fault, OtherStarts, serverVars
<1>2. ASSUME NEW i \in Instance, LaunchServed(i) \/ LaunchUnserved(i) \/ LaunchEnsured(i)
                              \/ LaunchLoad(i)
      PROVE  ServerMoves
  BY <1>2 DEF ServerMoves, LaunchServed, LaunchUnserved, LaunchEnsured, LaunchLoad, Fault, serverVars
<1>3. ASSUME NEW i \in Instance, EnsureAttach(i) \/ EnsureStart(i) \/ BdStarts(i) \/ BdFindsServer(i)
                              \/ EnsureReady(i) \/ BdStartFails(i) \/ EnsureTimesOut(i)
      PROVE  ServerMoves
  <2>1. CASE EnsureAttach(i) \/ EnsureStart(i) \/ BdStarts(i) \/ BdFindsServer(i)
    BY <2>1 DEF ServerMoves, EnsureAttach, ServerState, EnsureStart, BdStarts, BdFindsServer, serverVars
  <2>2. CASE EnsureReady(i) \/ BdStartFails(i) \/ EnsureTimesOut(i)
    BY <2>2 DEF ServerMoves, EnsureReady, BdStartFails, EnsureFails, Fault, EnsureTimesOut,
       EnsureGivesUp, serverVars
  <2> QED
    BY <1>3, <2>1, <2>2
<1>4. ASSUME NEW i \in Instance, PollAnswered(i) \/ PollFailed(i) \/ Reconnected(i)
      PROVE  ServerMoves
  BY <1>4 DEF ServerMoves, PollAnswered, PollFailed, Fault, Reconnected, ReconnectedWith, serverVars
<1>5. ASSUME NEW i \in Instance, Quit(i) \/ StopNotOwned(i) \/ StopCheck(i) \/ BdStops(i)
                              \/ BdStopFails(i) \/ Crash(i) \/ LaunchExits(i) \/ TUIFails(i)
      PROVE  ServerMoves
  <2>1. CASE Quit(i) \/ StopNotOwned(i) \/ StopCheck(i) \/ BdStops(i)
    BY <2>1 DEF ServerMoves, Quit, StopNotOwned, ExitsEnsuring, Left, StopCheck, StopCheckIf,
       BdStops, serverVars
  <2>2. CASE BdStopFails(i) \/ Crash(i)
    BY <2>2 DEF ServerMoves, BdStopFails, ExitsEnsuring, Fault, Crash, serverVars
  <2>3. CASE LaunchExits(i) \/ TUIFails(i)
    BY <2>3 DEF ServerMoves, LaunchExits, TUIFails, Abandons, ExitsEnsuring, Fault, serverVars
  <2> QED
    BY <1>5, <2>1, <2>2, <2>3
<1>6. CASE UNCHANGED doltVars
  BY <1>6 DEF ServerMoves, doltVars
<1> QED
  BY <1>1, <1>2, <1>3, <1>4, <1>5, <1>6 DEF DoltNext, Launch, Progress, Ensure

LEMMA ServerNext == ASSUME Typed, [DoltNext]_doltVars PROVE Server'
BY ServerStep, StartedServer DEF ServerMoves, Server, Typed, serverVars

LEMMA CallsNext ==
  ASSUME Typed, [DoltNext]_doltVars
  PROVE  Calls'
<1>1. CASE ServerDies \/ OtherStarts
  BY <1>1 DEF Typed, Calls, Places, ServerDies, Fault, OtherStarts, serverVars
<1>2. ASSUME NEW i \in Instance, LaunchServed(i) \/ LaunchUnserved(i) \/ LaunchEnsured(i)
                              \/ LaunchLoad(i)
      PROVE  Calls'
  BY <1>2 DEF Typed, Calls, Places, LaunchServed, LaunchUnserved, LaunchEnsured, LaunchLoad,
     Fault, serverVars
<1>3. ASSUME NEW i \in Instance, EnsureAttach(i) \/ EnsureStart(i) \/ BdStarts(i) \/ BdFindsServer(i)
                              \/ EnsureReady(i) \/ BdStartFails(i) \/ EnsureTimesOut(i)
      PROVE  Calls'
  <2>1. CASE EnsureAttach(i) \/ EnsureStart(i) \/ BdStarts(i) \/ BdFindsServer(i)
    BY <2>1 DEF Typed, Calls, Places, EnsureAttach, ServerState, EnsureStart, BdStarts,
       BdFindsServer, serverVars
  <2>2. CASE EnsureReady(i) \/ BdStartFails(i) \/ EnsureTimesOut(i)
    BY <2>2 DEF Typed, Calls, Places, EnsureReady, BdStartFails, EnsureFails, Fault,
       EnsureTimesOut, EnsureGivesUp, serverVars
  <2> QED
    BY <1>3, <2>1, <2>2
<1>4. ASSUME NEW i \in Instance, PollAnswered(i) \/ PollFailed(i) \/ Reconnected(i)
      PROVE  Calls'
  BY <1>4 DEF Typed, Calls, Places, PollAnswered, PollFailed, Fault, Reconnected, ReconnectedWith,
     serverVars
<1>5. ASSUME NEW i \in Instance, Quit(i) \/ StopNotOwned(i) \/ StopCheck(i) \/ BdStops(i)
                              \/ BdStopFails(i) \/ Crash(i) \/ LaunchExits(i) \/ TUIFails(i)
      PROVE  Calls'
  <2>1. CASE Quit(i) \/ StopNotOwned(i) \/ StopCheck(i) \/ BdStops(i)
    BY <2>1 DEF Typed, Calls, Places, Quit, StopNotOwned, ExitsEnsuring, Left, StopCheck,
       StopCheckIf, BdStops, serverVars
  <2>2. CASE BdStopFails(i) \/ Crash(i)
    BY <2>2 DEF Typed, Calls, Places, BdStopFails, ExitsEnsuring, Fault, Crash, serverVars
  <2>3. CASE LaunchExits(i) \/ TUIFails(i)
    BY <2>3 DEF Typed, Calls, Places, LaunchExits, TUIFails, Abandons, ExitsEnsuring, Fault,
       serverVars
  <2> QED
    BY <1>5, <2>1, <2>2, <2>3
<1>6. CASE UNCHANGED doltVars
  BY <1>6 DEF Typed, Calls, Places, doltVars, serverVars
<1> QED
  BY <1>1, <1>2, <1>3, <1>4, <1>5, <1>6 DEF DoltNext, Launch, Progress, Ensure

LEMMA Remembered ==
  ASSUME Memory, NEW i \in Instance, NEW s \in States, s.pid # 0,
         handle' = handle, got' = got \/ got' = [got EXCEPT ![i] = s]
  PROVE  Memory'
<1>1. \A j \in Instance : got'[j] = got[j] \/ got'[j] = s
  BY DEF Memory
<1>2. got' \in [Instance -> States]
  BY DEF Memory
<1> QED
  BY <1>1, <1>2 DEF Memory

LEMMA MemoryNext ==
  ASSUME Typed, [DoltNext]_doltVars
  PROVE  Memory'
<1>1. CASE ServerDies \/ OtherStarts
  <2>1. CASE ServerDies
    BY <2>1 DEF Typed, Memory, States, NoState, ServerDies, Fault, serverVars
  <2>2. CASE OtherStarts
    BY <2>2 DEF Typed, Memory, States, NoState, OtherStarts, Fault, serverVars
  <2> QED
    BY <1>1, <2>1, <2>2
<1>2. ASSUME NEW i \in Instance, LaunchServed(i) \/ LaunchUnserved(i) \/ LaunchEnsured(i)
                              \/ LaunchLoad(i)
      PROVE  Memory'
  <2>1. CASE LaunchServed(i)
    BY <2>1 DEF Typed, Memory, States, NoState, LaunchServed, serverVars
  <2>2. CASE LaunchUnserved(i)
    BY <2>2 DEF Typed, Memory, States, NoState, LaunchUnserved, serverVars
  <2>3. CASE LaunchEnsured(i)
    BY <2>3 DEF Typed, Memory, States, NoState, LaunchEnsured, serverVars
  <2>4. CASE LaunchLoad(i)
    BY <2>4 DEF Typed, Memory, States, NoState, LaunchLoad, Fault, serverVars
  <2> QED
    BY <1>2, <2>1, <2>2, <2>3, <2>4
<1>3. ASSUME NEW i \in Instance, EnsureAttach(i) \/ EnsureStart(i) \/ BdStarts(i) \/ BdFindsServer(i)
                              \/ EnsureReady(i) \/ BdStartFails(i) \/ EnsureTimesOut(i)
      PROVE  Memory'
  <2>1. CASE EnsureAttach(i)
    BY <2>1 DEF Typed, Memory, States, NoState, EnsureAttach, ServerState, serverVars
  <2>2. CASE EnsureStart(i)
    BY <2>2 DEF Typed, Memory, States, NoState, EnsureStart, serverVars
  <2>3. CASE BdStarts(i)
    <3>1. pidFile' \in Pids /\ portFile' \in Ports
      BY <2>3, StartedServer DEF BdStarts
    <3>2. ServerState(TRUE, pidFile', portFile', FALSE) \in States /\ ServerState(TRUE, pidFile', portFile', FALSE).pid # 0
      BY <3>1, Positive DEF ServerState, States
    <3>3. handle' = handle /\ (got' = got \/ got' = [got EXCEPT ![i] = ServerState(TRUE, pidFile', portFile', FALSE)])
      BY <2>3 DEF BdStarts
    <3> QED
      BY <3>2, <3>3, Remembered DEF Typed
  <2>4. CASE BdFindsServer(i)
    <3>1. pidFile \in Pids /\ portFile \in Ports \cup {0}
      BY <2>4 DEF BdFindsServer, Typed, Server
    <3>2. ServerState(TRUE, pidFile, portFile, TRUE) \in States /\ ServerState(TRUE, pidFile, portFile, TRUE).pid # 0
      BY <3>1, Positive DEF ServerState, States
    <3>3. handle' = handle /\ (got' = got \/ got' = [got EXCEPT ![i] = ServerState(TRUE, pidFile, portFile, TRUE)])
      BY <2>4 DEF BdFindsServer
    <3> QED
      BY <3>2, <3>3, Remembered DEF Typed
  <2>5. CASE EnsureReady(i)
    BY <2>5 DEF Typed, Memory, States, NoState, EnsureReady, serverVars
  <2>6. CASE BdStartFails(i)
    BY <2>6 DEF Typed, Memory, States, NoState, BdStartFails, EnsureFails, Fault, serverVars
  <2>7. CASE EnsureTimesOut(i)
    BY <2>7 DEF Typed, Memory, States, NoState, EnsureTimesOut, EnsureGivesUp, EnsureFails,
       Fault, serverVars
  <2> QED
    BY <1>3, <2>1, <2>2, <2>3, <2>4, <2>5, <2>6, <2>7
<1>4. ASSUME NEW i \in Instance, PollAnswered(i) \/ PollFailed(i) \/ Reconnected(i)
      PROVE  Memory'
  <2>1. CASE PollAnswered(i)
    BY <2>1 DEF Typed, Memory, States, NoState, PollAnswered, serverVars
  <2>2. CASE PollFailed(i)
    BY <2>2 DEF Typed, Memory, States, NoState, PollFailed, Fault, serverVars
  <2>3. CASE Reconnected(i)
    BY <2>3 DEF Typed, Memory, States, NoState, Reconnected, ReconnectedWith, serverVars
  <2> QED
    BY <1>4, <2>1, <2>2, <2>3
<1>5. ASSUME NEW i \in Instance, Quit(i) \/ StopNotOwned(i) \/ StopCheck(i) \/ BdStops(i)
                              \/ BdStopFails(i) \/ Crash(i) \/ LaunchExits(i) \/ TUIFails(i)
      PROVE  Memory'
  <2>1. CASE Quit(i)
    BY <2>1 DEF Typed, Memory, States, NoState, Quit, serverVars
  <2>2. CASE StopNotOwned(i)
    BY <2>2 DEF Typed, Memory, States, NoState, StopNotOwned, ExitsEnsuring, Left, serverVars
  <2>3. CASE StopCheck(i)
    BY <2>3 DEF Typed, Memory, States, NoState, StopCheck, StopCheckIf, serverVars
  <2>4. CASE BdStops(i)
    BY <2>4 DEF Typed, Memory, States, NoState, BdStops, ExitsEnsuring, serverVars
  <2>5. CASE BdStopFails(i)
    BY <2>5 DEF Typed, Memory, States, NoState, BdStopFails, ExitsEnsuring, Fault, serverVars
  <2>6. CASE Crash(i)
    BY <2>6 DEF Typed, Memory, States, NoState, Crash, ExitsEnsuring, Fault, serverVars
  <2>7. CASE LaunchExits(i)
    BY <2>7 DEF Typed, Memory, States, NoState, LaunchExits, Abandons, ExitsEnsuring,
       serverVars
  <2>8. CASE TUIFails(i)
    BY <2>8 DEF Typed, Memory, States, NoState, TUIFails, Abandons, ExitsEnsuring, Fault,
       serverVars
  <2> QED
    BY <1>5, <2>1, <2>2, <2>3, <2>4, <2>5, <2>6, <2>7, <2>8
<1>6. CASE UNCHANGED doltVars
  BY <1>6 DEF Typed, Memory, States, NoState, doltVars, serverVars
<1> QED
  BY <1>1, <1>2, <1>3, <1>4, <1>5, <1>6 DEF DoltNext, Launch, Progress, Ensure

LEMMA CountsNext ==
  ASSUME Typed, [DoltNext]_doltVars
  PROVE  Counts'
<1>1. CASE ServerDies \/ OtherStarts
  <2>1. CASE ServerDies
    BY <2>1 DEF Typed, Counts, Replaced, Server, Configured, ManyFails, ReconnectAfter,
       ServerDies, Fault, serverVars
  <2>2. CASE OtherStarts
    BY <2>2 DEF Typed, Counts, Replaced, Server, Configured, ManyFails, ReconnectAfter,
       OtherStarts, Fault, serverVars
  <2> QED
    BY <1>1, <2>1, <2>2
<1>2. ASSUME NEW i \in Instance, LaunchServed(i) \/ LaunchUnserved(i) \/ LaunchEnsured(i)
                              \/ LaunchLoad(i)
      PROVE  Counts'
  <2>1. CASE LaunchServed(i)
    BY <2>1 DEF Typed, Counts, Replaced, Server, Configured, ManyFails, ReconnectAfter,
       LaunchServed, serverVars
  <2>2. CASE LaunchUnserved(i)
    BY <2>2 DEF Typed, Counts, Replaced, Server, Configured, ManyFails, ReconnectAfter,
       LaunchUnserved, serverVars
  <2>3. CASE LaunchEnsured(i)
    BY <2>3 DEF Typed, Counts, Replaced, Server, Configured, ManyFails, ReconnectAfter,
       LaunchEnsured, serverVars
  <2>4. CASE LaunchLoad(i)
    BY <2>4 DEF Typed, Counts, Replaced, Server, Configured, ManyFails, ReconnectAfter,
       LaunchLoad, Fault, serverVars
  <2> QED
    BY <1>2, <2>1, <2>2, <2>3, <2>4
<1>3. ASSUME NEW i \in Instance, EnsureAttach(i) \/ EnsureStart(i) \/ BdStarts(i) \/ BdFindsServer(i)
                              \/ EnsureReady(i) \/ BdStartFails(i) \/ EnsureTimesOut(i)
      PROVE  Counts'
  <2>1. CASE EnsureAttach(i)
    BY <2>1 DEF Typed, Counts, Replaced, Server, Configured, ManyFails, ReconnectAfter,
       EnsureAttach, ServerState, serverVars
  <2>2. CASE EnsureStart(i)
    BY <2>2 DEF Typed, Counts, Replaced, Server, Configured, ManyFails, ReconnectAfter,
       EnsureStart, serverVars
  <2>3. CASE BdStarts(i)
    BY <2>3 DEF Typed, Counts, Replaced, Server, Configured, ManyFails, ReconnectAfter,
       BdStarts, ServerState, serverVars
  <2>4. CASE BdFindsServer(i)
    BY <2>4 DEF Typed, Counts, Replaced, Server, Configured, ManyFails, ReconnectAfter,
       BdFindsServer, ServerState, serverVars
  <2>5. CASE EnsureReady(i)
    BY <2>5 DEF Typed, Counts, Replaced, Server, Configured, ManyFails, ReconnectAfter,
       EnsureReady, serverVars
  <2>6. CASE BdStartFails(i)
    <3>1. mishaps' \subseteq {"replaced", "left"}
      BY <2>6 DEF BdStartFails, Typed, Counts, Replaced
    <3>2. doltFaults' \in 0..MaxFaults
      BY <2>6 DEF BdStartFails, Fault, Typed, Counts
    <3>3. dsn' = dsn /\ fails' \in [Instance -> 0..ManyFails]
      BY <2>6 DEF BdStartFails, EnsureFails, Typed, Counts, ManyFails, ReconnectAfter
    <3> QED
      BY <3>1, <3>2, <3>3 DEF Typed, Counts
  <2>7. CASE EnsureTimesOut(i)
    BY <2>7 DEF Typed, Counts, Replaced, Server, Configured, ManyFails, ReconnectAfter,
       EnsureTimesOut, EnsureGivesUp, EnsureFails, Fault, serverVars
  <2> QED
    BY <1>3, <2>1, <2>2, <2>3, <2>4, <2>5, <2>6, <2>7
<1>4. ASSUME NEW i \in Instance, PollAnswered(i) \/ PollFailed(i) \/ Reconnected(i)
      PROVE  Counts'
  <2>1. CASE PollAnswered(i)
    BY <2>1 DEF Typed, Counts, Replaced, Server, Configured, ManyFails, ReconnectAfter,
       PollAnswered, serverVars
  <2>2. CASE PollFailed(i)
    BY <2>2 DEF Typed, Counts, Replaced, Server, Configured, ManyFails, ReconnectAfter,
       PollFailed, Fault, serverVars
  <2>3. CASE Reconnected(i)
    BY <2>3 DEF Typed, Counts, Replaced, Server, Configured, ManyFails, ReconnectAfter,
       Reconnected, ReconnectedWith, serverVars
  <2> QED
    BY <1>4, <2>1, <2>2, <2>3
<1>5. ASSUME NEW i \in Instance, Quit(i) \/ StopNotOwned(i) \/ StopCheck(i) \/ BdStops(i)
                              \/ BdStopFails(i) \/ Crash(i) \/ LaunchExits(i) \/ TUIFails(i)
      PROVE  Counts'
  <2>1. CASE Quit(i)
    BY <2>1 DEF Typed, Counts, Replaced, Server, Configured, ManyFails, ReconnectAfter, Quit, serverVars
  <2>2. CASE StopNotOwned(i)
    BY <2>2 DEF Typed, Counts, Replaced, Server, Configured, ManyFails, ReconnectAfter,
       StopNotOwned, ExitsEnsuring, Left, serverVars
  <2>3. CASE StopCheck(i)
    BY <2>3 DEF Typed, Counts, Replaced, Server, Configured, ManyFails, ReconnectAfter,
       StopCheck, StopCheckIf, serverVars
  <2>4. CASE BdStops(i)
    BY <2>4 DEF Typed, Counts, Replaced, Server, Configured, ManyFails, ReconnectAfter, BdStops,
       ExitsEnsuring, serverVars
  <2>5. CASE BdStopFails(i)
    BY <2>5 DEF Typed, Counts, Replaced, Server, Configured, ManyFails, ReconnectAfter,
       BdStopFails, ExitsEnsuring, Fault, serverVars
  <2>6. CASE Crash(i)
    BY <2>6 DEF Typed, Counts, Replaced, Server, Configured, ManyFails, ReconnectAfter, Crash,
       ExitsEnsuring, Fault, serverVars
  <2>7. CASE LaunchExits(i)
    BY <2>7 DEF Typed, Counts, Server, ManyFails, ReconnectAfter, LaunchExits, Abandons,
       ExitsEnsuring, serverVars
  <2>8. CASE TUIFails(i)
    BY <2>8 DEF Typed, Counts, Server, ManyFails, ReconnectAfter, TUIFails, Abandons,
       ExitsEnsuring, Fault, serverVars
  <2> QED
    BY <1>5, <2>1, <2>2, <2>3, <2>4, <2>5, <2>6, <2>7, <2>8
<1>6. CASE UNCHANGED doltVars
  BY <1>6 DEF Typed, Counts, Replaced, Server, Configured, ManyFails, ReconnectAfter, doltVars,
     serverVars
<1> QED
  BY <1>1, <1>2, <1>3, <1>4, <1>5, <1>6 DEF DoltNext, Launch, Progress, Ensure

-----------------------------------------------------------------------------
(* What an instance remembers.  Its ServerState names the server it        *)
(* started as long as nobody has started another one.                      *)
Working == \A i \in Instance : main[i] = "off" => ensure[i] = "idle"
Launching == \A i \in Instance : main[i] \in {"off", "launching"} => ~handle[i].owned

OwnStarted ==
  server # NoServer =>
    \A i \in Instance : /\ got[i].owned /\ ~got[i].adopted /\ got[i].pid = server.pid => server.by = i
                        /\ handle[i].owned /\ ~handle[i].adopted /\ handle[i].pid = server.pid => server.by = i

StillOwn ==
  server # NoServer /\ "replaced" \notin mishaps =>
    \A i \in Instance : main[i] = "checked" => handle[i].owned /\ handle[i].pid = server.pid

\* A running server is held by the instance that started it, in its ServerState or in the
\* answer EnsureServer is about to give; such an answer is about this server.
Returning(i) == ensure[i] \in {"wait", "done"} /\ got[i].owned
Current == \A i \in Instance : Returning(i) /\ server.by = i => got[i].pid = server.pid
Holds(i) == main[i] \notin {"off", "ended"} /\ (Returning(i) \/ (handle[i].owned /\ handle[i].pid = server.pid))
Held == "left" \notin mishaps => \A i \in Instance : server.by = i => Holds(i)

LEMMA WorkingNext ==
  ASSUME Typed, Working, [DoltNext]_doltVars
  PROVE  Working'
<1>1. CASE ServerDies \/ OtherStarts
  BY <1>1 DEF Typed, Calls, Working, ServerDies, Fault, OtherStarts, serverVars
<1>2. ASSUME NEW i \in Instance, LaunchServed(i) \/ LaunchUnserved(i) \/ LaunchEnsured(i)
                              \/ LaunchLoad(i)
      PROVE  Working'
  <2>1. CASE LaunchServed(i) \/ LaunchUnserved(i) \/ LaunchEnsured(i)
    BY <2>1 DEF Typed, Calls, Working, LaunchServed, LaunchUnserved, LaunchEnsured, serverVars
  <2>2. CASE LaunchLoad(i)
    BY <2>2 DEF Typed, Calls, Working, LaunchLoad, Fault, serverVars
  <2> QED
    BY <1>2, <2>1, <2>2
<1>3. ASSUME NEW i \in Instance, EnsureAttach(i) \/ EnsureStart(i) \/ BdStarts(i) \/ BdFindsServer(i)
                              \/ EnsureReady(i) \/ BdStartFails(i) \/ EnsureTimesOut(i)
      PROVE  Working'
  <2>1. CASE EnsureAttach(i) \/ EnsureStart(i) \/ BdStarts(i)
    BY <2>1 DEF Typed, Calls, Working, EnsureAttach, ServerState, EnsureStart, BdStarts, serverVars
  <2>2. CASE BdFindsServer(i) \/ EnsureReady(i) \/ BdStartFails(i)
    BY <2>2 DEF Typed, Calls, Working, BdFindsServer, ServerState, EnsureReady, BdStartFails,
       EnsureFails, Fault, serverVars
  <2>3. CASE EnsureTimesOut(i)
    BY <2>3 DEF Typed, Calls, Working, EnsureTimesOut, EnsureGivesUp, EnsureFails, Fault, serverVars
  <2> QED
    BY <1>3, <2>1, <2>2, <2>3
<1>4. ASSUME NEW i \in Instance, PollAnswered(i) \/ PollFailed(i) \/ Reconnected(i)
      PROVE  Working'
  BY <1>4 DEF Typed, Calls, Working, PollAnswered, PollFailed, Fault, Reconnected,
     ReconnectedWith, serverVars
<1>5. ASSUME NEW i \in Instance, Quit(i) \/ StopNotOwned(i) \/ StopCheck(i) \/ BdStops(i)
                              \/ BdStopFails(i) \/ Crash(i) \/ LaunchExits(i) \/ TUIFails(i)
      PROVE  Working'
  <2>1. CASE Quit(i) \/ StopNotOwned(i) \/ StopCheck(i)
    BY <2>1 DEF Typed, Calls, Working, Quit, StopNotOwned, ExitsEnsuring, Left, StopCheck,
       StopCheckIf, serverVars
  <2>2. CASE BdStops(i) \/ BdStopFails(i) \/ Crash(i)
    BY <2>2 DEF Typed, Calls, Working, BdStops, ExitsEnsuring, BdStopFails, Fault, Crash, serverVars
  <2>3. CASE LaunchExits(i) \/ TUIFails(i)
    BY <2>3 DEF Typed, Calls, Working, LaunchExits, TUIFails, Abandons, ExitsEnsuring, Fault,
       serverVars
  <2> QED
    BY <1>5, <2>1, <2>2, <2>3
<1>6. CASE UNCHANGED doltVars
  BY <1>6 DEF Typed, Calls, Working, doltVars, serverVars
<1> QED
  BY <1>1, <1>2, <1>3, <1>4, <1>5, <1>6 DEF DoltNext, Launch, Progress, Ensure

LEMMA LaunchingNext ==
  ASSUME Typed, Launching, [DoltNext]_doltVars
  PROVE  Launching'
<1>1. CASE ServerDies \/ OtherStarts
  BY <1>1 DEF Typed, Memory, Calls, Launching, NoState, ServerDies, Fault, OtherStarts, serverVars
<1>2. ASSUME NEW i \in Instance, LaunchServed(i) \/ LaunchUnserved(i) \/ LaunchEnsured(i)
                              \/ LaunchLoad(i)
      PROVE  Launching'
  <2>1. CASE LaunchServed(i) \/ LaunchUnserved(i) \/ LaunchEnsured(i)
    BY <2>1 DEF Typed, Memory, Calls, Launching, NoState, LaunchServed, LaunchUnserved,
       LaunchEnsured, serverVars
  <2>2. CASE LaunchLoad(i)
    BY <2>2 DEF Typed, Memory, Calls, Launching, NoState, LaunchLoad, Fault, serverVars
  <2> QED
    BY <1>2, <2>1, <2>2
<1>3. ASSUME NEW i \in Instance, EnsureAttach(i) \/ EnsureStart(i) \/ BdStarts(i) \/ BdFindsServer(i)
                              \/ EnsureReady(i) \/ BdStartFails(i) \/ EnsureTimesOut(i)
      PROVE  Launching'
  <2>1. CASE EnsureAttach(i) \/ EnsureStart(i) \/ BdStarts(i)
    BY <2>1 DEF Typed, Memory, Calls, Launching, NoState, EnsureAttach, ServerState,
       EnsureStart, BdStarts, serverVars
  <2>2. CASE BdFindsServer(i) \/ EnsureReady(i) \/ BdStartFails(i)
    BY <2>2 DEF Typed, Memory, Calls, Launching, NoState, BdFindsServer, ServerState,
       EnsureReady, BdStartFails, EnsureFails, Fault, serverVars
  <2>3. CASE EnsureTimesOut(i)
    BY <2>3 DEF Typed, Memory, Calls, Launching, NoState, EnsureTimesOut, EnsureGivesUp,
       EnsureFails, Fault, serverVars
  <2> QED
    BY <1>3, <2>1, <2>2, <2>3
<1>4. ASSUME NEW i \in Instance, PollAnswered(i) \/ PollFailed(i) \/ Reconnected(i)
      PROVE  Launching'
  BY <1>4 DEF Typed, Memory, Calls, Launching, NoState, PollAnswered, PollFailed, Fault,
     Reconnected, ReconnectedWith, serverVars
<1>5. ASSUME NEW i \in Instance, Quit(i) \/ StopNotOwned(i) \/ StopCheck(i) \/ BdStops(i)
                              \/ BdStopFails(i) \/ Crash(i) \/ LaunchExits(i) \/ TUIFails(i)
      PROVE  Launching'
  <2>1. CASE Quit(i) \/ StopNotOwned(i) \/ StopCheck(i)
    BY <2>1 DEF Typed, Memory, Calls, Launching, NoState, Quit, StopNotOwned, ExitsEnsuring,
       Left, StopCheck, StopCheckIf, serverVars
  <2>2. CASE BdStops(i) \/ BdStopFails(i) \/ Crash(i)
    BY <2>2 DEF Typed, Memory, Calls, Launching, NoState, BdStops, ExitsEnsuring, BdStopFails,
       Fault, Crash, serverVars
  <2>3. CASE LaunchExits(i) \/ TUIFails(i)
    BY <2>3 DEF Typed, Memory, Calls, Launching, NoState, LaunchExits, TUIFails, Abandons,
       ExitsEnsuring, Fault, serverVars
  <2> QED
    BY <1>5, <2>1, <2>2, <2>3
<1>6. CASE UNCHANGED doltVars
  BY <1>6 DEF Typed, Memory, Calls, Launching, NoState, doltVars, serverVars
<1> QED
  BY <1>1, <1>2, <1>3, <1>4, <1>5, <1>6 DEF DoltNext, Launch, Progress, Ensure

LEMMA OwnStartedNext ==
  ASSUME Typed, OwnStarted, [DoltNext]_doltVars
  PROVE  OwnStarted'
<1>1. CASE ServerDies \/ OtherStarts
  <2>1. CASE ServerDies
    BY <2>1 DEF Typed, Memory, Server, OwnStarted, NoState, ServerDies, Fault, serverVars
  <2>2. CASE OtherStarts
    BY <2>2, StartedServer, FreePid, Positive DEF Typed, Memory, Server, OwnStarted, NoState,
       OtherStarts, Fault, serverVars
  <2> QED
    BY <1>1, <2>1, <2>2
<1>2. ASSUME NEW i \in Instance, LaunchServed(i) \/ LaunchUnserved(i) \/ LaunchEnsured(i)
                              \/ LaunchLoad(i)
      PROVE  OwnStarted'
  <2>1. CASE LaunchServed(i)
    BY <2>1 DEF Typed, Memory, Server, OwnStarted, NoState, LaunchServed, serverVars
  <2>2. CASE LaunchUnserved(i)
    BY <2>2 DEF Typed, Memory, Server, OwnStarted, NoState, LaunchUnserved, serverVars
  <2>3. CASE LaunchEnsured(i)
    BY <2>3 DEF Typed, Memory, Server, OwnStarted, NoState, LaunchEnsured, serverVars
  <2>4. CASE LaunchLoad(i)
    BY <2>4 DEF Typed, Memory, Server, OwnStarted, NoState, LaunchLoad, Fault, serverVars
  <2> QED
    BY <1>2, <2>1, <2>2, <2>3, <2>4
<1>3. ASSUME NEW i \in Instance, EnsureAttach(i) \/ EnsureStart(i) \/ BdStarts(i) \/ BdFindsServer(i)
                              \/ EnsureReady(i) \/ BdStartFails(i) \/ EnsureTimesOut(i)
      PROVE  OwnStarted'
  <2>1. CASE EnsureAttach(i)
    BY <2>1 DEF Typed, Memory, Server, OwnStarted, NoState, EnsureAttach, ServerState, serverVars
  <2>2. CASE EnsureStart(i)
    BY <2>2 DEF Typed, Memory, Server, OwnStarted, NoState, EnsureStart, serverVars
  <2>3. CASE BdStarts(i)
    BY <2>3, StartedServer, FreePid, Positive DEF Typed, Memory, Server, OwnStarted, NoState,
       BdStarts, ServerState, serverVars
  <2>4. CASE BdFindsServer(i)
    BY <2>4 DEF Typed, Memory, Server, OwnStarted, NoState, BdFindsServer, ServerState, serverVars
  <2>5. CASE EnsureReady(i)
    BY <2>5 DEF Typed, Memory, Server, OwnStarted, NoState, EnsureReady, serverVars
  <2>6. CASE BdStartFails(i)
    BY <2>6, StartedServer, FreePid, Positive DEF Typed, Memory, Server, OwnStarted, NoState,
       BdStartFails, EnsureFails, Fault, serverVars
  <2>7. CASE EnsureTimesOut(i)
    BY <2>7 DEF Typed, Memory, Server, OwnStarted, NoState, EnsureTimesOut, EnsureGivesUp,
       EnsureFails, Fault, serverVars
  <2> QED
    BY <1>3, <2>1, <2>2, <2>3, <2>4, <2>5, <2>6, <2>7
<1>4. ASSUME NEW i \in Instance, PollAnswered(i) \/ PollFailed(i) \/ Reconnected(i)
      PROVE  OwnStarted'
  <2>1. CASE PollAnswered(i)
    BY <2>1 DEF Typed, Memory, Server, OwnStarted, NoState, PollAnswered, serverVars
  <2>2. CASE PollFailed(i)
    BY <2>2 DEF Typed, Memory, Server, OwnStarted, NoState, PollFailed, Fault, serverVars
  <2>3. CASE Reconnected(i)
    BY <2>3 DEF Typed, Memory, Server, OwnStarted, NoState, Reconnected, ReconnectedWith, serverVars
  <2> QED
    BY <1>4, <2>1, <2>2, <2>3
<1>5. ASSUME NEW i \in Instance, Quit(i) \/ StopNotOwned(i) \/ StopCheck(i) \/ BdStops(i)
                              \/ BdStopFails(i) \/ Crash(i) \/ LaunchExits(i) \/ TUIFails(i)
      PROVE  OwnStarted'
  <2>1. CASE Quit(i)
    BY <2>1 DEF Typed, Memory, Server, OwnStarted, NoState, Quit, serverVars
  <2>2. CASE StopNotOwned(i)
    BY <2>2 DEF Typed, Memory, Server, OwnStarted, NoState, StopNotOwned, ExitsEnsuring, Left,
       serverVars
  <2>3. CASE StopCheck(i)
    BY <2>3 DEF Typed, Memory, Server, OwnStarted, NoState, StopCheck, StopCheckIf, serverVars
  <2>4. CASE BdStops(i)
    BY <2>4 DEF Typed, Memory, Server, OwnStarted, NoState, BdStops, ExitsEnsuring, serverVars
  <2>5. CASE BdStopFails(i)
    BY <2>5 DEF Typed, Memory, Server, OwnStarted, NoState, BdStopFails, ExitsEnsuring, Fault,
       serverVars
  <2>6. CASE Crash(i)
    BY <2>6 DEF Typed, Memory, Server, OwnStarted, NoState, Crash, ExitsEnsuring, Fault, serverVars
  <2>7. CASE LaunchExits(i) \/ TUIFails(i)
    BY <2>7 DEF Typed, Memory, Server, OwnStarted, NoState, LaunchExits, TUIFails, Abandons,
       ExitsEnsuring, Fault, serverVars
  <2> QED
    BY <1>5, <2>1, <2>2, <2>3, <2>4, <2>5, <2>6, <2>7
<1>6. CASE UNCHANGED doltVars
  BY <1>6 DEF Typed, Memory, Server, OwnStarted, NoState, doltVars, serverVars
<1> QED
  BY <1>1, <1>2, <1>3, <1>4, <1>5, <1>6 DEF DoltNext, Launch, Progress, Ensure

LEMMA StillOwnNext ==
  ASSUME Typed, StillOwn, [DoltNext]_doltVars
  PROVE  StillOwn'
<1>1. CASE ServerDies \/ OtherStarts
  BY <1>1, Positive DEF Typed, Memory, Server, Calls, StillOwn, Replaced, NoState, ServerDies,
     Fault, OtherStarts, serverVars
<1>2. ASSUME NEW i \in Instance, LaunchServed(i) \/ LaunchUnserved(i) \/ LaunchEnsured(i)
                              \/ LaunchLoad(i)
      PROVE  StillOwn'
  <2>1. CASE LaunchServed(i) \/ LaunchUnserved(i) \/ LaunchEnsured(i)
    BY <2>1 DEF Typed, Memory, Server, Calls, StillOwn, Replaced, NoState, LaunchServed,
       LaunchUnserved, LaunchEnsured, serverVars
  <2>2. CASE LaunchLoad(i)
    BY <2>2 DEF Typed, Memory, Server, Calls, StillOwn, Replaced, NoState, LaunchLoad, Fault, serverVars
  <2> QED
    BY <1>2, <2>1, <2>2
<1>3. ASSUME NEW i \in Instance, EnsureAttach(i) \/ EnsureStart(i) \/ BdStarts(i) \/ BdFindsServer(i)
                              \/ EnsureReady(i) \/ BdStartFails(i) \/ EnsureTimesOut(i)
      PROVE  StillOwn'
  <2>1. CASE EnsureAttach(i) \/ EnsureStart(i) \/ BdStarts(i)
    BY <2>1, Positive DEF Typed, Memory, Server, Calls, StillOwn, Replaced, NoState,
       EnsureAttach, ServerState, EnsureStart, BdStarts, serverVars
  <2>2. CASE BdFindsServer(i) \/ EnsureReady(i) \/ BdStartFails(i)
    BY <2>2, Positive DEF Typed, Memory, Server, Calls, StillOwn, Replaced, NoState,
       BdFindsServer, ServerState, EnsureReady, BdStartFails, EnsureFails, Fault, serverVars
  <2>3. CASE EnsureTimesOut(i)
    BY <2>3 DEF Typed, Memory, Server, Calls, StillOwn, Replaced, NoState, EnsureTimesOut,
       EnsureGivesUp, EnsureFails, Fault, serverVars
  <2> QED
    BY <1>3, <2>1, <2>2, <2>3
<1>4. ASSUME NEW i \in Instance, PollAnswered(i) \/ PollFailed(i) \/ Reconnected(i)
      PROVE  StillOwn'
  BY <1>4 DEF Typed, Memory, Server, Calls, StillOwn, Replaced, NoState, PollAnswered, PollFailed,
     Fault, Reconnected, ReconnectedWith, serverVars
<1>5. ASSUME NEW i \in Instance, Quit(i) \/ StopNotOwned(i) \/ StopCheck(i) \/ BdStops(i)
                              \/ BdStopFails(i) \/ Crash(i) \/ LaunchExits(i) \/ TUIFails(i)
      PROVE  StillOwn'
  <2>1. CASE Quit(i) \/ StopNotOwned(i) \/ StopCheck(i)
    BY <2>1 DEF Typed, Memory, Server, Calls, StillOwn, Replaced, NoState, Quit, StopNotOwned,
       ExitsEnsuring, Left, StopCheck, StopCheckIf, serverVars
  <2>2. CASE BdStops(i) \/ BdStopFails(i) \/ Crash(i)
    BY <2>2 DEF Typed, Memory, Server, Calls, StillOwn, Replaced, NoState, BdStops,
       ExitsEnsuring, BdStopFails, Fault, Crash, serverVars
  <2>3. CASE LaunchExits(i) \/ TUIFails(i)
    BY <2>3 DEF Typed, Memory, Server, Calls, StillOwn, Replaced, NoState, LaunchExits,
       TUIFails, Abandons, ExitsEnsuring, Fault, serverVars
  <2> QED
    BY <1>5, <2>1, <2>2, <2>3
<1>6. CASE UNCHANGED doltVars
  BY <1>6 DEF Typed, Memory, Server, Calls, StillOwn, Replaced, NoState, doltVars, serverVars
<1> QED
  BY <1>1, <1>2, <1>3, <1>4, <1>5, <1>6 DEF DoltNext, Launch, Progress, Ensure

LEMMA CurrentNext ==
  ASSUME Typed, Current, [DoltNext]_doltVars
  PROVE  Current'
<1>1. CASE ServerDies \/ OtherStarts
  <2>1. CASE ServerDies
    <3>1. server'.by = 0 /\ 0 \notin Instance
      BY <2>1, InstanceAssumption DEF ServerDies, NoServer
    <3> QED
      BY <3>1 DEF Current
  <2>2. CASE OtherStarts
    BY <2>2, StartedServer, FreePid, Positive DEF Typed, Memory, Server, Calls, Current,
       Returning, NoState, OtherStarts, Fault, serverVars
  <2> QED
    BY <1>1, <2>1, <2>2
<1>2. ASSUME NEW i \in Instance, LaunchServed(i) \/ LaunchUnserved(i) \/ LaunchEnsured(i)
                              \/ LaunchLoad(i)
      PROVE  Current'
  <2>1. CASE LaunchServed(i)
    BY <2>1 DEF Typed, Memory, Server, Calls, Current, Returning, NoState, LaunchServed, serverVars
  <2>2. CASE LaunchUnserved(i)
    BY <2>2 DEF Typed, Memory, Server, Calls, Current, Returning, NoState, LaunchUnserved, serverVars
  <2>3. CASE LaunchEnsured(i)
    BY <2>3 DEF Typed, Memory, Server, Calls, Current, Returning, NoState, LaunchEnsured, serverVars
  <2>4. CASE LaunchLoad(i)
    BY <2>4 DEF Typed, Memory, Server, Calls, Current, Returning, NoState, LaunchLoad, Fault, serverVars
  <2> QED
    BY <1>2, <2>1, <2>2, <2>3, <2>4
<1>3. ASSUME NEW i \in Instance, EnsureAttach(i) \/ EnsureStart(i) \/ BdStarts(i) \/ BdFindsServer(i)
                              \/ EnsureReady(i) \/ BdStartFails(i) \/ EnsureTimesOut(i)
      PROVE  Current'
  <2>1. CASE EnsureAttach(i)
    BY <2>1 DEF Typed, Memory, Server, Calls, Current, Returning, NoState, EnsureAttach,
       ServerState, serverVars
  <2>2. CASE EnsureStart(i)
    BY <2>2 DEF Typed, Memory, Server, Calls, Current, Returning, NoState, EnsureStart, serverVars
  <2>3. CASE BdStarts(i)
    BY <2>3, StartedServer, FreePid, Positive DEF Typed, Memory, Server, Calls, Current,
       Returning, NoState, BdStarts, ServerState, serverVars
  <2>4. CASE BdFindsServer(i)
    BY <2>4 DEF Typed, Memory, Server, Calls, Current, Returning, NoState, BdFindsServer,
       ServerState, serverVars
  <2>5. CASE EnsureReady(i)
    BY <2>5 DEF Typed, Memory, Server, Calls, Current, Returning, NoState, EnsureReady, serverVars
  <2>6. CASE BdStartFails(i)
    BY <2>6, StartedServer, FreePid, Positive DEF Typed, Memory, Server, Calls, Current,
       Returning, NoState, BdStartFails, EnsureFails, Fault, serverVars
  <2>7. CASE EnsureTimesOut(i)
    BY <2>7 DEF Typed, Memory, Server, Calls, Current, Returning, NoState, EnsureTimesOut,
       EnsureGivesUp, EnsureFails, Fault, serverVars
  <2> QED
    BY <1>3, <2>1, <2>2, <2>3, <2>4, <2>5, <2>6, <2>7
<1>4. ASSUME NEW i \in Instance, PollAnswered(i) \/ PollFailed(i) \/ Reconnected(i)
      PROVE  Current'
  <2>1. CASE PollAnswered(i)
    BY <2>1 DEF Typed, Memory, Server, Calls, Current, Returning, NoState, PollAnswered, serverVars
  <2>2. CASE PollFailed(i)
    BY <2>2 DEF Typed, Memory, Server, Calls, Current, Returning, NoState, PollFailed, Fault, serverVars
  <2>3. CASE Reconnected(i)
    BY <2>3 DEF Typed, Memory, Server, Calls, Current, Returning, NoState, Reconnected,
       ReconnectedWith, serverVars
  <2> QED
    BY <1>4, <2>1, <2>2, <2>3
<1>5. ASSUME NEW i \in Instance, Quit(i) \/ StopNotOwned(i) \/ StopCheck(i) \/ BdStops(i)
                              \/ BdStopFails(i) \/ Crash(i) \/ LaunchExits(i) \/ TUIFails(i)
      PROVE  Current'
  <2>1. CASE Quit(i)
    BY <2>1 DEF Typed, Memory, Server, Calls, Current, Returning, NoState, Quit, serverVars
  <2>2. CASE StopNotOwned(i)
    BY <2>2 DEF Typed, Memory, Server, Calls, Current, Returning, NoState, StopNotOwned,
       ExitsEnsuring, Left, serverVars
  <2>3. CASE StopCheck(i)
    BY <2>3 DEF Typed, Memory, Server, Calls, Current, Returning, NoState, StopCheck,
       StopCheckIf, serverVars
  <2>4. CASE BdStops(i)
    <3>1. server'.by = 0 /\ 0 \notin Instance
      BY <2>4, InstanceAssumption DEF BdStops, NoServer
    <3> QED
      BY <3>1 DEF Current
  <2>5. CASE BdStopFails(i)
    BY <2>5 DEF Typed, Memory, Server, Calls, Current, Returning, NoState, BdStopFails,
       ExitsEnsuring, Fault, serverVars
  <2>6. CASE Crash(i)
    BY <2>6 DEF Typed, Memory, Server, Calls, Current, Returning, NoState, Crash, ExitsEnsuring,
       Fault, serverVars
  <2>7. CASE LaunchExits(i) \/ TUIFails(i)
    BY <2>7 DEF Typed, Memory, Server, Calls, Current, Returning, NoState, LaunchExits,
       TUIFails, Abandons, ExitsEnsuring, Fault, serverVars
  <2> QED
    BY <1>5, <2>1, <2>2, <2>3, <2>4, <2>5, <2>6, <2>7
<1>6. CASE UNCHANGED doltVars
  BY <1>6 DEF Typed, Memory, Server, Calls, Current, Returning, NoState, doltVars, serverVars
<1> QED
  BY <1>1, <1>2, <1>3, <1>4, <1>5, <1>6 DEF DoltNext, Launch, Progress, Ensure

LEMMA HeldNext ==
  ASSUME Typed, Working, Launching, Current, Held, [DoltNext]_doltVars
  PROVE  Held'
<1>1. CASE ServerDies \/ OtherStarts
  <2>1. CASE ServerDies
    <3>1. server'.by = 0 /\ 0 \notin Instance
      BY <2>1, InstanceAssumption DEF ServerDies, NoServer
    <3> QED
      BY <3>1 DEF Held
  <2>2. CASE OtherStarts
    BY <2>2, StartedServer, FreePid, Positive DEF Typed, Memory, Server, Calls, Held, Holds,
       Returning, NoState, OtherStarts, Fault, serverVars
  <2> QED
    BY <1>1, <2>1, <2>2
<1>2. ASSUME NEW i \in Instance, LaunchServed(i) \/ LaunchUnserved(i) \/ LaunchEnsured(i)
                              \/ LaunchLoad(i)
      PROVE  Held'
  <2>1. CASE LaunchServed(i)
    BY <2>1 DEF Typed, Memory, Server, Calls, Held, Holds, Returning, NoState, LaunchServed, serverVars
  <2>2. CASE LaunchUnserved(i)
    BY <2>2 DEF Typed, Memory, Server, Calls, Held, Holds, Returning, NoState, LaunchUnserved,
       serverVars
  <2>3. CASE LaunchEnsured(i)
    <3>1. \A j \in Instance \ {i} : main'[j] = main[j] /\ ensure'[j] = ensure[j] /\ got'[j] = got[j] /\ handle'[j] = handle[j]
      BY <2>3 DEF LaunchEnsured, Typed, Memory, Calls
    <3>2. server' = server /\ mishaps' = mishaps /\ handle'[i] = got[i] /\ main'[i] = "loading"
      BY <2>3 DEF LaunchEnsured, Typed, Memory, Calls, serverVars
    <3>3. server.by = i /\ "left" \notin mishaps => Holds(i)'
      BY <2>3, <3>2 DEF LaunchEnsured, Held, Holds, Returning, Launching, Current
    <3> QED
      BY <3>1, <3>2, <3>3 DEF Held, Holds, Returning
  <2>4. CASE LaunchLoad(i)
    BY <2>4 DEF Typed, Memory, Server, Calls, Held, Holds, Returning, NoState, LaunchLoad,
       Fault, serverVars
  <2> QED
    BY <1>2, <2>1, <2>2, <2>3, <2>4
<1>3. ASSUME NEW i \in Instance, EnsureAttach(i) \/ EnsureStart(i) \/ BdStarts(i) \/ BdFindsServer(i)
                              \/ EnsureReady(i) \/ BdStartFails(i) \/ EnsureTimesOut(i)
      PROVE  Held'
  <2>1. CASE EnsureAttach(i)
    BY <2>1 DEF Typed, Memory, Server, Calls, Held, Holds, Returning, NoState, EnsureAttach,
       ServerState, serverVars
  <2>2. CASE EnsureStart(i)
    BY <2>2 DEF Typed, Memory, Server, Calls, Held, Holds, Returning, NoState, EnsureStart, serverVars
  <2>3. CASE BdStarts(i)
    <3>1. CASE main[i] = "ended"
      BY <2>3, <3>1 DEF BdStarts, Held
    <3>2. CASE main[i] # "ended"
      <4>1. server'.by = i /\ ensure'[i] = "wait" /\ got'[i].owned /\ main' = main
        BY <2>3, <3>2, StartedServer DEF BdStarts, ServerState, Typed, Memory, Calls
      <4>2. main[i] # "off"
        BY <2>3 DEF Working, BdStarts
      <4> QED
        BY <3>2, <4>1, <4>2 DEF Held, Holds, Returning
    <3> QED
      BY <3>1, <3>2
  <2>4. CASE BdFindsServer(i)
    BY <2>4 DEF Typed, Memory, Server, Calls, Held, Holds, Returning, NoState, BdFindsServer,
       ServerState, serverVars
  <2>5. CASE EnsureReady(i)
    BY <2>5 DEF Typed, Memory, Server, Calls, Held, Holds, Returning, NoState, EnsureReady, serverVars
  <2>6. CASE BdStartFails(i)
    <3>1. CASE "left" \in mishaps'
      BY <3>1 DEF Held
    <3>2. CASE "left" \notin mishaps'
      <4>1. server' = server /\ mishaps' = mishaps /\ handle' = handle
        BY <2>6, <3>2 DEF BdStartFails, EnsureFails, serverVars
      <4>2. \A j \in Instance \ {i} : main'[j] = main[j] /\ ensure'[j] = ensure[j] /\ got'[j] = got[j]
        BY <2>6 DEF BdStartFails, EnsureFails, Typed, Memory, Calls
      <4>3. server.by = i => handle[i].owned /\ handle[i].pid = server.pid /\ main[i] \notin {"off", "ended"}
        BY <2>6, <3>2, <4>1 DEF BdStartFails, Held, Holds, Returning
      <4>4. server.by = i => main'[i] = main[i]
        BY <2>6, <4>3 DEF BdStartFails, EnsureFails, Launching
      <4> QED
        BY <4>1, <4>2, <4>3, <4>4 DEF Held, Holds, Returning
    <3> QED
      BY <3>1, <3>2
  <2>7. CASE EnsureTimesOut(i)
    BY <2>7 DEF Typed, Memory, Server, Calls, Held, Holds, Returning, NoState, EnsureTimesOut,
       EnsureGivesUp, EnsureFails, Fault, serverVars
  <2> QED
    BY <1>3, <2>1, <2>2, <2>3, <2>4, <2>5, <2>6, <2>7
<1>4. ASSUME NEW i \in Instance, PollAnswered(i) \/ PollFailed(i) \/ Reconnected(i)
      PROVE  Held'
  <2>1. CASE PollAnswered(i)
    BY <2>1 DEF Typed, Memory, Server, Calls, Held, Holds, Returning, NoState, PollAnswered, serverVars
  <2>2. CASE PollFailed(i)
    BY <2>2 DEF Typed, Memory, Server, Calls, Held, Holds, Returning, NoState, PollFailed,
       Fault, serverVars
  <2>3. CASE Reconnected(i)
    <3>1. CASE "left" \in mishaps'
      BY <3>1 DEF Held
    <3>2. CASE "left" \notin mishaps'
      <4>1. server' = server /\ "left" \notin mishaps /\ main' = main /\ main[i] \in {"running", "quitting"} /\ handle'[i] = got[i]
        BY <2>3, <3>2 DEF Reconnected, ReconnectedWith, serverVars, Typed, Memory
      <4>2. \A j \in Instance \ {i} : ensure'[j] = ensure[j] /\ got'[j] = got[j] /\ handle'[j] = handle[j]
        BY <2>3 DEF Reconnected, ReconnectedWith, Typed, Memory, Calls
      <4>3. server.by = i => got[i].owned
        BY <2>3, <3>2, <4>1 DEF Reconnected, ReconnectedWith, Held, Holds, Returning
      <4>4. server.by = i => got[i].pid = server.pid
        BY <2>3, <4>3 DEF Reconnected, ReconnectedWith, Current, Returning
      <4> QED
        BY <4>1, <4>2, <4>3, <4>4 DEF Held, Holds, Returning
    <3> QED
      BY <3>1, <3>2
  <2> QED
    BY <1>4, <2>1, <2>2, <2>3
<1>5. ASSUME NEW i \in Instance, Quit(i) \/ StopNotOwned(i) \/ StopCheck(i) \/ BdStops(i)
                              \/ BdStopFails(i) \/ Crash(i) \/ LaunchExits(i) \/ TUIFails(i)
      PROVE  Held'
  <2>1. CASE Quit(i)
    BY <2>1 DEF Typed, Memory, Server, Calls, Held, Holds, Returning, NoState, Quit, serverVars
  <2>2. CASE StopNotOwned(i)
    BY <2>2, Positive DEF Typed, Memory, Server, Calls, Held, Holds, Returning, NoState,
       StopNotOwned, ExitsEnsuring, Left, serverVars
  <2>3. CASE StopCheck(i)
    BY <2>3 DEF Typed, Memory, Server, Calls, Held, Holds, Returning, NoState, StopCheck,
       StopCheckIf, serverVars
  <2>4. CASE BdStops(i)
    <3>1. server'.by = 0 /\ 0 \notin Instance
      BY <2>4, InstanceAssumption DEF BdStops, NoServer
    <3> QED
      BY <3>1 DEF Held
  <2>5. CASE BdStopFails(i)
    BY <2>5 DEF Typed, Memory, Server, Calls, Held, Holds, Returning, NoState, BdStopFails,
       ExitsEnsuring, Fault, serverVars
  <2>6. CASE Crash(i)
    BY <2>6 DEF Typed, Memory, Server, Calls, Held, Holds, Returning, NoState, Crash,
       ExitsEnsuring, Fault, serverVars
  <2>7. CASE LaunchExits(i) \/ TUIFails(i)
    BY <2>7 DEF Typed, Memory, Server, Calls, Held, Holds, Returning, NoState, LaunchExits,
       TUIFails, Abandons, ExitsEnsuring, Fault, serverVars
  <2> QED
    BY <1>5, <2>1, <2>2, <2>3, <2>4, <2>5, <2>6, <2>7
<1>6. CASE UNCHANGED doltVars
  BY <1>6 DEF Typed, Memory, Server, Calls, Held, Holds, Returning, NoState, doltVars, serverVars
<1> QED
  BY <1>1, <1>2, <1>3, <1>4, <1>5, <1>6 DEF DoltNext, Launch, Progress, Ensure

LEMMA ModeKept ==
  ASSUME DoltNext
  PROVE  doltMode' = doltMode
<1>1. CASE ServerDies \/ OtherStarts
  BY <1>1 DEF ServerDies, Fault, OtherStarts
<1>2. ASSUME NEW i \in Instance, LaunchServed(i) \/ LaunchUnserved(i) \/ LaunchEnsured(i)
                              \/ LaunchLoad(i)
      PROVE  doltMode' = doltMode
  BY <1>2 DEF LaunchServed, LaunchUnserved, LaunchEnsured, LaunchLoad, Fault
<1>3. ASSUME NEW i \in Instance, EnsureAttach(i) \/ EnsureStart(i) \/ BdStarts(i) \/ BdFindsServer(i)
                              \/ EnsureReady(i) \/ BdStartFails(i) \/ EnsureTimesOut(i)
      PROVE  doltMode' = doltMode
  <2>1. CASE EnsureAttach(i) \/ EnsureStart(i) \/ BdStarts(i) \/ BdFindsServer(i)
    BY <2>1 DEF EnsureAttach, ServerState, EnsureStart, BdStarts, BdFindsServer
  <2>2. CASE EnsureReady(i) \/ BdStartFails(i) \/ EnsureTimesOut(i)
    BY <2>2 DEF EnsureReady, BdStartFails, EnsureFails, Fault, EnsureTimesOut, EnsureGivesUp
  <2> QED
    BY <1>3, <2>1, <2>2
<1>4. ASSUME NEW i \in Instance, PollAnswered(i) \/ PollFailed(i) \/ Reconnected(i)
      PROVE  doltMode' = doltMode
  BY <1>4 DEF PollAnswered, PollFailed, Fault, Reconnected, ReconnectedWith
<1>5. ASSUME NEW i \in Instance, Quit(i) \/ StopNotOwned(i) \/ StopCheck(i) \/ BdStops(i)
                              \/ BdStopFails(i) \/ Crash(i) \/ LaunchExits(i) \/ TUIFails(i)
      PROVE  doltMode' = doltMode
  <2>1. CASE Quit(i) \/ StopNotOwned(i) \/ StopCheck(i) \/ BdStops(i)
    BY <2>1 DEF Quit, StopNotOwned, ExitsEnsuring, Left, StopCheck, StopCheckIf, BdStops
  <2>2. CASE BdStopFails(i) \/ Crash(i)
    BY <2>2 DEF BdStopFails, ExitsEnsuring, Fault, Crash
  <2>3. CASE LaunchExits(i) \/ TUIFails(i)
    BY <2>3 DEF LaunchExits, TUIFails, Abandons, ExitsEnsuring, Fault
  <2> QED
    BY <1>5, <2>1, <2>2, <2>3
<1> QED
  BY <1>1, <1>2, <1>3, <1>4, <1>5 DEF DoltNext, Launch, Progress, Ensure

-----------------------------------------------------------------------------
Remembers == Typed /\ Working /\ Launching /\ OwnStarted /\ StillOwn /\ Current /\ Held

LEMMA RemembersInit == Init => Remembers /\ doltMode \in Modes
<1> SUFFICES ASSUME Init PROVE Remembers /\ doltMode \in Modes
  OBVIOUS
<1> USE DEF Init, DoltInit
<1>1. server.by = 0 /\ 0 \notin Instance
  BY InstanceAssumption DEF NoServer
<1>2. Server
  BY DEF Server
<1>3. Calls /\ Working
  BY DEF Calls, Places, Working
<1>4. Memory /\ Launching
  <2>1. NoState \in States
    BY DEF NoState, States
  <2> QED
    BY <2>1 DEF Memory, Launching, NoState
<1>5. Counts
  BY DEF Counts, ManyFails, ReconnectAfter
<1>6. OwnStarted /\ StillOwn /\ Current /\ Held
  BY <1>1 DEF OwnStarted, StillOwn, Current, Held
<1> QED
  BY <1>2, <1>3, <1>4, <1>5, <1>6 DEF Remembers, Typed

\* The other backends leave the server alone.
LEMMA RemembersNext == Remembers /\ doltMode \in Modes /\ [Next]_vars => (Remembers /\ doltMode \in Modes)'
<1> SUFFICES ASSUME Remembers, doltMode \in Modes, [Next]_vars PROVE (Remembers /\ doltMode \in Modes)'
  OBVIOUS
<1>1. [DoltNext]_doltVars /\ doltMode' = doltMode
  BY ModeKept DEF Next, vars, OfServer, OfEmbedded, OfGlobal
<1>2. Typed'
  BY <1>1, ServerNext, CallsNext, MemoryNext, CountsNext DEF Remembers, Typed
<1>3. (Working /\ Launching /\ OwnStarted /\ StillOwn /\ Current /\ Held)'
  BY <1>1, WorkingNext, LaunchingNext, OwnStartedNext, StillOwnNext, CurrentNext, HeldNext DEF Remembers
<1> QED
  BY <1>1, <1>2, <1>3 DEF Remembers

(* Every variable of the server and its instances stays in its type; the   *)
(* number given to a new process is in its range because there are more    *)
(* numbers than instances can remember.                                    *)
THEOREM ServerTypeCorrect == Spec => []DoltTypes
<1>1. Remembers /\ doltMode \in Modes => DoltTypes
  BY TypedTypes DEF Remembers
<1> QED
  BY <1>1, RemembersInit, RemembersNext, PTL DEF Spec

(* The server an instance stops at its exit is one it started, unless bd   *)
(* told it of another's as if it had started it, or the server was         *)
(* replaced between the look at the PID file and the command: whatever     *)
(* servers die, restart and reconnect in between, and however many         *)
(* instances share them.                                                   *)
THEOREM OnlyOwnStopped == Spec => StopsOnlyOwn
<1> DEFINE Good ==
      \A i \in Instance :
        main[i] = "checked" /\ server # NoServer /\ server' = NoServer /\ main'[i] = "ended"
          => server.by = i \/ handle[i].adopted \/ "replaced" \in mishaps
<1>1. Remembers => Good
  BY DEF Remembers, StillOwn, OwnStarted
<1>2. Remembers => [Good]_doltVars
  BY <1>1
<1> QED
  BY <1>2, RemembersInit, RemembersNext, PTL DEF Spec, StopsOnlyOwn

(* Once all instances are gone no server that one of them started runs on, *)
(* unless one exited other than by Stop or crashed, a command failed, a    *)
(* server was too slow, a reconnect was under way at the exit or made an   *)
(* instance forget that it owns the server: nothing else leaves a server   *)
(* behind.                                                                 *)
THEOREM NoServerForgotten == Spec => []NoServerLeft
<1>1. Remembers => NoServerLeft
  <2> SUFFICES ASSUME Remembers, \A i \in Instance : main[i] \in {"off", "ended"} /\ ensure[i] = "idle",
                      "left" \notin mishaps
               PROVE  server.by = 0
    BY DEF NoServerLeft, AllGone
  <2>1. server.by \in Instance \cup {0}
    BY DEF Remembers, Typed, Server, NoServer
  <2> QED
    BY <2>1 DEF Remembers, Held, Holds
<1> QED
  BY <1>1, RemembersInit, RemembersNext, PTL DEF Spec
=============================================================================
