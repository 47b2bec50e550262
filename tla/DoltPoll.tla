------------------------------ MODULE DoltPoll ------------------------------
(***************************************************************************)
(* startDoltPollLoop of pkg/ui/background_worker.go: for a Dolt source the *)
(* worker has no watcher, and a goroutine polls the server instead.  Each  *)
(* tick it reads MAX(updated_at), triggers a refresh when that differs     *)
(* from what it read before, and tells the user interface whether the      *)
(* server answers.  A version stands for its modification time.  Ticks and *)
(* backoff are time, which is not modelled: a poll may happen at any       *)
(* moment.  The server is outside src/: it answers a poll or it does not,  *)
(* whether connecting or querying fails.                                   *)
(***************************************************************************)
EXTENDS BackgroundWorker

VARIABLES
  serverUp,      \* the Dolt server answers polls
  pollPc,        \* "off" before Start, "tick" between polls, then what is left to report
  firstPoll,
  lastModified,  \* what the last poll read, 0 for the zero time
  noticed,       \* the version the last noteFileChange of the poll loop was about
  fails          \* consecutiveFails; ManyFails stands for every larger number

pollVars == <<serverUp, pollPc, firstPoll, lastModified, noticed, fails>>

ReconnectAfter == 3
ManyFails == ReconnectAfter + 1

PollInit ==
  /\ serverUp = TRUE /\ pollPc = "off"
  /\ firstPoll = TRUE /\ lastModified = 0 /\ noticed = 0 /\ fails = 0

\* Start() for a Dolt source: no watcher, the loops, and the poll goroutine.
DoltStart ==
  /\ startPc = "watcher"
  /\ startLoop
  /\ startPc' = "trigger"
  /\ pollPc' = "tick"
  /\ UNCHANGED <<dataVars, requestVars, hashVars, buildVars, watcherVars, msgCh, started,
                 stopVars, recVars, boundVars, serverUp, firstPoll, lastModified, noticed, fails>>

ServerFails ==
  /\ serverUp /\ faults > 0
  /\ serverUp' = FALSE /\ faults' = faults - 1
  /\ UNCHANGED <<dataVars, requestVars, hashVars, buildVars, loopVars, watcherVars, msgCh,
                 lifeVars, stimuli, pollPc, firstPoll, lastModified, noticed, fails>>

ServerReturns ==
  /\ ~serverUp /\ serverUp' = TRUE
  /\ UNCHANGED <<vars, pollPc, firstPoll, lastModified, noticed, fails>>

-----------------------------------------------------------------------------
\* What is left to say after a poll that succeeded.
Report == IF fails > 0 THEN "restored" ELSE "verified"

\* The first poll only records where the source stands.
PollBaseline ==
  /\ pollPc = "tick" /\ serverUp
  /\ firstPoll
  /\ firstPoll' = FALSE /\ lastModified' = content
  /\ pollPc' = Report
  /\ UNCHANGED <<vars, serverUp, noticed, fails>>

PollSame ==
  /\ pollPc = "tick" /\ serverUp
  /\ ~firstPoll /\ content = lastModified
  /\ pollPc' = Report
  /\ UNCHANGED <<vars, serverUp, firstPoll, lastModified, noticed, fails>>

PollChanged ==
  /\ pollPc = "tick" /\ serverUp
  /\ ~firstPoll /\ content # lastModified
  /\ lastModified' = content /\ noticed' = content
  /\ TriggerRefresh
  /\ pollPc' = Report
  /\ UNCHANGED <<dataVars, buildVars, loopVars, watcherVars, msgCh, lifeVars, boundVars,
                 serverUp, firstPoll, fails>>

\* A failing poll.  The first one is announced; the third one tries to reconnect.  If that
\* succeeds the count starts over, whether or not queries will be answered again.
PollFailsNotifyingAt(first) ==
  /\ pollPc = "tick" /\ ~serverUp
  /\ LET n == IF fails = ManyFails THEN fails ELSE fails + 1
     IN  /\ IF n \in {first, ReconnectAfter} THEN Send(Msg("lost", NoSnapshot)) ELSE UNCHANGED msgCh
         /\ \/ fails' = n /\ UNCHANGED serverUp
            \/ n = ReconnectAfter /\ fails' = 0 /\ serverUp' \in BOOLEAN
  /\ UNCHANGED <<dataVars, requestVars, hashVars, buildVars, loopVars, watcherVars, lifeVars,
                 boundVars, pollPc, firstPoll, lastModified, noticed>>

\* Variant: the failures counted before the announcement are off by one.
PollFailsLate == PollFailsNotifyingAt(2)

PollFails == PollFailsNotifyingAt(1)

PollRestored ==
  /\ pollPc = "restored"
  /\ Send(Msg("restored", NoSnapshot))
  /\ fails' = 0
  /\ pollPc' = "verified"
  /\ UNCHANGED <<dataVars, requestVars, hashVars, buildVars, loopVars, watcherVars, lifeVars,
                 boundVars, serverUp, firstPoll, lastModified, noticed>>

PollVerified ==
  /\ pollPc = "verified"
  /\ Send(Msg("verified", NoSnapshot))
  /\ pollPc' = "tick"
  /\ UNCHANGED <<dataVars, requestVars, hashVars, buildVars, loopVars, watcherVars, lifeVars,
                 boundVars, serverUp, firstPoll, lastModified, noticed, fails>>

Poll == PollBaseline \/ PollSame \/ PollChanged \/ PollFails \/ PollRestored \/ PollVerified

PollTypes ==
  /\ serverUp \in BOOLEAN /\ firstPoll \in BOOLEAN
  /\ pollPc \in {"off", "tick", "restored", "verified"}
  /\ lastModified \in Versions /\ noticed \in Versions /\ fails \in 0..ManyFails

-----------------------------------------------------------------------------
(* A change the poll loop noticed is not lost: a worker with nothing left  *)
(* to do shows a version at least that new, unless its last build failed.  *)
NoticedIsShown == Quiet /\ ~failed => snapshot.data >= noticed
=============================================================================
