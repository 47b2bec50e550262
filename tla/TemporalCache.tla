---------------------------- MODULE TemporalCache ----------------------------
(***************************************************************************)
(* pkg/analysis/temporal.go and pkg/ui/temporal_worker.go: in global mode  *)
(* a loop keeps the issues of past days, one AS OF query each.  A sweep    *)
(* asks for the days from HistoryDays ago on, the oldest first and at most *)
(* MaxSnapshots of them, and evicts the oldest beyond that number.  A      *)
(* sweep that gets no day at all turns the loop off for the session.  When *)
(* sweeps come (a ticker and the age of the last one) is left open.        *)
(***************************************************************************)
EXTENDS Integers, FiniteSets

CONSTANTS
  MaxSnapshots,  \* BT_TEMPORAL_MAX_SNAPSHOTS
  HistoryDays,   \* 30 in the code
  MaxDays        \* days a session lasts

ASSUME TemporalAssumption ==
  MaxSnapshots \in Nat \ {0} /\ HistoryDays \in Nat /\ MaxDays \in Nat

VARIABLES
  today,       \* days since the session began
  snapshots,   \* the days the cache has
  populating,  \* is a sweep under way?
  to,          \* the day it was called with
  unasked,     \* the days it has still to come to
  loaded,      \* did it get or find a day?
  disabled,    \* the circuit breaker
  had          \* history: the days the cache had when it began, and those it got

temporalVars == <<today, snapshots, populating, to, unasked, loaded, disabled, had>>

Days == (-HistoryDays)..MaxDays

TemporalInit ==
  /\ today = 0 /\ snapshots = {} /\ populating = FALSE /\ to = 0 /\ unasked = {}
  /\ loaded = FALSE /\ disabled = FALSE /\ had = {}

\* The timestamps of a sweep: the limit cuts off the latest days.
Window(day) == {d \in (day - HistoryDays)..day : d < day - HistoryDays + MaxSnapshots}

\* The computer may sleep for days.
DaysPass ==
  /\ \E d \in (today + 1)..MaxDays : today' = d
  /\ UNCHANGED <<snapshots, populating, to, unasked, loaded, disabled, had>>

\* With a connection; without one the loop only says so.
Sweep ==
  /\ ~populating /\ ~disabled
  /\ populating' = TRUE /\ to' = today /\ unasked' = Window(today)
  /\ loaded' = FALSE /\ had' = snapshots
  /\ UNCHANGED <<today, snapshots, disabled>>

Oldest(days) == CHOOSE d \in days : \A e \in days : d <= e

\* A day the cache has counts as loaded, and is not asked for.
AskLoaded ==
  /\ unasked # {}
  /\ LET day == Oldest(unasked) IN
       /\ snapshots' = snapshots \cup {day} /\ had' = had \cup {day}
       /\ unasked' = unasked \ {day}
  /\ loaded' = TRUE
  /\ UNCHANGED <<today, populating, to, disabled>>

\* No database answers for that day; the sweep goes on.
AskFailed ==
  /\ unasked # {} /\ Oldest(unasked) \notin snapshots
  /\ unasked' = unasked \ {Oldest(unasked)}
  /\ UNCHANGED <<today, snapshots, populating, to, loaded, disabled, had>>

\* Variant: the newest are evicted.
EvictNewest(days) == {d \in days : Cardinality({e \in days : e < d}) < MaxSnapshots}
EvictOldest(days) == {d \in days : Cardinality({e \in days : e > d}) < MaxSnapshots}

EndSweep ==
  /\ populating /\ unasked = {}
  /\ populating' = FALSE
  /\ snapshots' = EvictOldest(snapshots)
  /\ disabled' = ~loaded
  /\ UNCHANGED <<today, to, unasked, loaded, had>>

TemporalNext == DaysPass \/ Sweep \/ AskLoaded \/ AskFailed \/ EndSweep

-----------------------------------------------------------------------------
TemporalTypes ==
  /\ today \in 0..MaxDays /\ to \in 0..MaxDays
  /\ snapshots \subseteq Days /\ unasked \subseteq Days /\ had \subseteq Days
  /\ populating \in BOOLEAN /\ loaded \in BOOLEAN /\ disabled \in BOOLEAN

(* "evicting oldest snapshots": between sweeps the cache is within its     *)
(* limit and has lost no day that the last sweep covered and that it had   *)
(* or got, and the circuit breaker has tripped only when it knows nothing  *)
(* of that time: a cache with something to show for it goes on.            *)
RecentDaysKept ==
  ~populating =>
    /\ Cardinality(snapshots) <= MaxSnapshots /\ had \cap Window(to) \subseteq snapshots
    /\ disabled => snapshots \cap Window(to) = {}
=============================================================================
