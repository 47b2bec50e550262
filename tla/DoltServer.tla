----------------------------- MODULE DoltServer -----------------------------
(***************************************************************************)
(* internal/doltctl: instances of bt that share the Dolt server of one     *)
(* .beads directory.  EnsureServer attaches to a server that answers or    *)
(* starts one with bd; StopIfOwned stops at exit the server this instance  *)
(* started.  cmd/bt/root.go calls EnsureServer at the start when the first *)
(* load finds no server, and gives the poll loop a function that calls it  *)
(* again; an instance that finds a server at its start gets neither a      *)
(* ServerState nor that function.                                          *)
(*                                                                         *)
(* bd is outside src/: `bd dolt start` leaves a running server alone and   *)
(* says so, `bd dolt stop` stops the server the PID file names.            *)
(***************************************************************************)
EXTENDS Naturals, FiniteSets

CONSTANTS
  Instance,     \* instances of bt
  Ports,        \* ports bd may give a server
  MaxFaults     \* things that go wrong: commands, polls, servers, crashes

ASSUME InstanceAssumption == IsFiniteSet(Instance) /\ 0 \notin Instance
ASSUME PortsAssumption == Ports \subseteq Nat \ {0} /\ Ports # {}
ASSUME FaultsAssumption == MaxFaults \in Nat

VARIABLES
  doltMode,   \* how .beads/metadata.json says the database is reached
  server,     \* the server process: PID, port and who started it (0: nobody here)
  pidFile,    \* .beads/dolt-server.pid, 0 when absent
  portFile,   \* .beads/dolt-server.port, 0 when absent
  main,       \* where the main goroutine of an instance is
  ensure,     \* where its call of EnsureServer is
  got,        \* what that call will return
  handle,     \* its ServerState; `adopted` is history
  dsn,        \* the port its poll loop connects to
  fails,      \* consecutiveFails of its poll loop
  mishaps,    \* history: a server was replaced before its stop; a server may be left behind
  doltFaults  \* faults left

serverVars == <<server, pidFile, portFile>>
doltVars == <<serverVars, main, ensure, got, handle, dsn, fails, mishaps, doltFaults>>

Modes == {"server", "embedded", "global"}
NoServer == [pid |-> 0, port |-> 0, by |-> 0]
NoState == [has |-> FALSE, owned |-> FALSE, pid |-> 0, port |-> 0, adopted |-> FALSE]
ServerState(owned, pid, port, adopted) ==
  [has |-> TRUE, owned |-> owned, pid |-> pid, port |-> port, adopted |-> adopted]

ReconnectAfter == 3
ManyFails == ReconnectAfter + 1

\* Nothing listens on the default port here.
Configured == portFile
Listening(port) == server # NoServer /\ server.port = port
Served(i) == main[i] = "running" /\ Listening(dsn[i])

DoltInit ==
  /\ server = NoServer /\ pidFile = 0 /\ portFile = 0
  /\ main = [i \in Instance |-> "off"] /\ ensure = [i \in Instance |-> "idle"]
  /\ got = [i \in Instance |-> NoState] /\ handle = [i \in Instance |-> NoState]
  /\ dsn = [i \in Instance |-> 0] /\ fails = [i \in Instance |-> 0]
  /\ mishaps = {} /\ doltFaults = MaxFaults

Fault == doltFaults > 0 /\ doltFaults' = doltFaults - 1

-----------------------------------------------------------------------------
(* The server and bd.                                                      *)

\* A server that stops by itself leaves its files.
ServerDies ==
  /\ server # NoServer /\ Fault
  /\ server' = NoServer
  /\ UNCHANGED <<doltMode, pidFile, portFile, main, ensure, got, handle, dsn, fails, mishaps>>

\* Which number the next process gets does not matter, as long as nobody remembers it.
Pids == 1..(2 * Cardinality(Instance) + 2)
NewPid ==
  CHOOSE p \in Pids : p # pidFile /\ \A i \in Instance : p # handle[i].pid /\ p # got[i].pid

NewServer(by) ==
  /\ \E port \in Ports :
       /\ server' = [pid |-> NewPid, port |-> port, by |-> by]
       /\ portFile' = port
  /\ pidFile' = NewPid

\* Does a server that starts now come between a look at the PID file and `bd dolt stop`?
Replaced == IF \E i \in Instance : main[i] = "checked" THEN {"replaced"} ELSE {}

\* bd or an agent starts a server when there is none.
OtherStarts ==
  /\ doltMode = "server"
  /\ server = NoServer /\ Fault /\ NewServer(0)
  /\ mishaps' = mishaps \cup Replaced
  /\ UNCHANGED <<doltMode, main, ensure, got, handle, dsn, fails>>

-----------------------------------------------------------------------------
(* EnsureServer, called by the main goroutine at the start and by the poll *)
(* loop to reconnect.                                                      *)

EnsureAttach(i) ==
  /\ ensure[i] = "dial" /\ Listening(Configured)
  /\ got' = [got EXCEPT ![i] = ServerState(FALSE, 0, 0, FALSE)]
  /\ ensure' = [ensure EXCEPT ![i] = "done"]
  /\ UNCHANGED <<doltMode, serverVars, main, handle, dsn, fails, mishaps, doltFaults>>

EnsureStart(i) ==
  /\ ensure[i] = "dial" /\ ~Listening(Configured)
  /\ ensure' = [ensure EXCEPT ![i] = "start"]
  /\ UNCHANGED <<doltMode, serverVars, main, got, handle, dsn, fails, mishaps, doltFaults>>

\* `bd dolt start` when there is no server.  The command goes on when bt exits meanwhile.
BdStarts(i) ==
  /\ ensure[i] = "start" /\ server = NoServer
  /\ NewServer(i)
  /\ IF main[i] = "ended"
     THEN /\ ensure' = [ensure EXCEPT ![i] = "idle"]
          /\ mishaps' = mishaps \cup Replaced \cup {"left"}
          /\ UNCHANGED got
     ELSE /\ got' = [got EXCEPT ![i] = ServerState(TRUE, pidFile', portFile', FALSE)]
          /\ ensure' = [ensure EXCEPT ![i] = "wait"]
          /\ mishaps' = mishaps \cup Replaced
  /\ UNCHANGED <<doltMode, main, handle, dsn, fails, doltFaults>>

\* `bd dolt start` when somebody else was faster: it succeeds with a line that does not
\* parse, and PID and port are read from the files.
BdFindsServer(i) ==
  /\ ensure[i] = "start" /\ server # NoServer
  /\ IF main[i] = "ended"
     THEN ensure' = [ensure EXCEPT ![i] = "idle"] /\ UNCHANGED got
     ELSE /\ got' = [got EXCEPT ![i] = ServerState(TRUE, pidFile, portFile, TRUE)]
          /\ ensure' = [ensure EXCEPT ![i] = "wait"]
  /\ UNCHANGED <<doltMode, serverVars, main, handle, dsn, fails, mishaps, doltFaults>>

\* The port serves for this wait; nobody reads it from a ServerState.
EnsureReady(i) ==
  /\ ensure[i] = "wait" /\ Listening(got[i].port)
  /\ ensure' = [ensure EXCEPT ![i] = "done"]
  /\ got' = [got EXCEPT ![i].port = 0]
  /\ UNCHANGED <<doltMode, serverVars, main, handle, dsn, fails, mishaps, doltFaults>>

\* An error of EnsureServer ends a start; a reconnect counts on and is not tried again
\* until a poll succeeds.
EnsureFails(i) ==
  /\ ensure' = [ensure EXCEPT ![i] = "idle"]
  /\ got' = [got EXCEPT ![i] = NoState]
  /\ IF main[i] = "launching"
     THEN main' = [main EXCEPT ![i] = "ended"] /\ UNCHANGED fails
     ELSE fails' = [fails EXCEPT ![i] = ManyFails] /\ UNCHANGED main
  /\ UNCHANGED <<doltMode, handle, dsn>>

\* The command fails or exceeds thirty seconds, with the server started or not.
BdStartFails(i) ==
  /\ ensure[i] = "start" /\ main[i] # "ended" /\ Fault
  /\ EnsureFails(i)
  /\ \/ UNCHANGED <<serverVars, mishaps>>
     \/ server = NoServer /\ NewServer(i) /\ mishaps' = mishaps \cup Replaced \cup {"left"}

EnsureGivesUp(i, given) ==
  /\ ensure[i] = "wait" /\ given
  /\ IF Listening(got[i].port) THEN Fault ELSE UNCHANGED doltFaults
  /\ mishaps' = mishaps \cup {"left"}
  /\ EnsureFails(i) /\ UNCHANGED serverVars

\* The server is not reachable within ten seconds: gone, or too slow.  Variant: the wait has
\* no deadline.
EnsureWaitsOn(i) == EnsureGivesUp(i, Listening(got[i].port))
EnsureTimesOut(i) == EnsureGivesUp(i, TRUE)

-----------------------------------------------------------------------------
(* The start of an instance.                                               *)

\* The first load finds a server, and no ServerState is needed.
LaunchServed(i) ==
  /\ doltMode = "server"
  /\ main[i] = "off" /\ Listening(Configured)
  /\ main' = [main EXCEPT ![i] = "running"]
  /\ dsn' = [dsn EXCEPT ![i] = Configured]
  /\ UNCHANGED <<doltMode, serverVars, ensure, got, handle, fails, mishaps, doltFaults>>

\* ErrDoltRequired.
LaunchUnserved(i) ==
  /\ doltMode = "server"
  /\ main[i] = "off" /\ ~Listening(Configured)
  /\ main' = [main EXCEPT ![i] = "launching"]
  /\ ensure' = [ensure EXCEPT ![i] = "dial"]
  /\ UNCHANGED <<doltMode, serverVars, got, handle, dsn, fails, mishaps, doltFaults>>

LaunchEnsured(i) ==
  /\ main[i] = "launching" /\ ensure[i] = "done"
  /\ handle' = [handle EXCEPT ![i] = got[i]]
  /\ main' = [main EXCEPT ![i] = "loading"]
  /\ ensure' = [ensure EXCEPT ![i] = "idle"] /\ got' = [got EXCEPT ![i] = NoState]
  /\ UNCHANGED <<doltMode, serverVars, dsn, fails, mishaps, doltFaults>>

\* The second load.  When it fails, StopIfOwned and exit; otherwise on to the user interface.
LaunchLoad(i) ==
  /\ main[i] = "loading"
  /\ \/ /\ Listening(Configured)
        /\ main' = [main EXCEPT ![i] = "running"]
        /\ dsn' = [dsn EXCEPT ![i] = Configured]
        /\ UNCHANGED doltFaults
     \/ /\ IF Listening(Configured) THEN Fault ELSE UNCHANGED doltFaults
        /\ main' = [main EXCEPT ![i] = "quitting"] /\ UNCHANGED dsn
  /\ UNCHANGED <<doltMode, serverVars, ensure, got, handle, fails, mishaps>>

-----------------------------------------------------------------------------
(* The poll loop, as far as it concerns the server (DoltPoll has the rest).*)

PollAnswered(i) ==
  /\ main[i] = "running" /\ ensure[i] = "idle" /\ Listening(dsn[i])
  /\ fails[i] > 0 /\ fails' = [fails EXCEPT ![i] = 0]
  /\ UNCHANGED <<doltMode, serverVars, main, ensure, got, handle, dsn, mishaps, doltFaults>>

\* A poll that fails, with a server that does not listen where it did or does not answer.
PollFailed(i) ==
  /\ main[i] = "running" /\ ensure[i] = "idle" /\ fails[i] < ManyFails
  /\ IF Listening(dsn[i]) THEN Fault ELSE UNCHANGED doltFaults
  /\ fails' = [fails EXCEPT ![i] = @ + 1]
  /\ ensure' = IF fails[i] + 1 = ReconnectAfter /\ handle[i].has
               THEN [ensure EXCEPT ![i] = "dial"] ELSE ensure
  /\ UNCHANGED <<doltMode, serverVars, main, got, handle, dsn, mishaps>>

\* The dial, the command and the wait happen on the poll goroutine, which goes on while the
\* main goroutine quits.  UpdateAfterReconnect waits for the mutex that StopIfOwned holds, and replaces what the
\* instance knew: one that finds its own server again no longer owns it.
ReconnectedWith(i, new) ==
  /\ main[i] \in {"running", "quitting"} /\ ensure[i] = "done"
  /\ handle' = [handle EXCEPT ![i] = new]
  /\ fails' = [fails EXCEPT ![i] = 0]
  /\ ensure' = [ensure EXCEPT ![i] = "idle"] /\ got' = [got EXCEPT ![i] = NoState]
  /\ mishaps' = IF handle[i].owned /\ handle[i].pid = server.pid /\ ~got[i].owned
                THEN mishaps \cup {"left"} ELSE mishaps
  /\ UNCHANGED <<doltMode, serverVars, main, dsn, doltFaults>>

\* Variant: the PID is not updated.
ReconnectedOldPid(i) == ReconnectedWith(i, [got[i] EXCEPT !.pid = handle[i].pid])
Reconnected(i) == ReconnectedWith(i, got[i])

-----------------------------------------------------------------------------
(* The end of an instance.                                                 *)

Quit(i) ==
  /\ main[i] = "running"
  /\ main' = [main EXCEPT ![i] = "quitting"]
  /\ UNCHANGED <<doltMode, serverVars, ensure, got, handle, dsn, fails, mishaps, doltFaults>>

\* What the exit of the process does to a reconnect under way: a command it started goes on.
ExitsEnsuring(i) ==
  /\ main' = [main EXCEPT ![i] = "ended"]
  /\ ensure' = [ensure EXCEPT ![i] = IF @ = "start" THEN "start" ELSE "idle"]
  /\ got' = [got EXCEPT ![i] = NoState] /\ handle' = [handle EXCEPT ![i] = NoState]
  /\ dsn' = [dsn EXCEPT ![i] = 0] /\ fails' = [fails EXCEPT ![i] = 0]

Left(i) == IF got[i].owned /\ server # NoServer THEN {"left"} ELSE {}

\* An exit that does not come by Stop.
Abandons(i) ==
  /\ ExitsEnsuring(i)
  /\ mishaps' = IF server.by = i THEN mishaps \cup {"left"} ELSE mishaps
  /\ UNCHANGED <<doltMode, serverVars>>

\* After the second load, without a user interface: a wrong recipe, query or flag, no issues,
\* a flag whose work is done without it, or another command than the user interface.
LaunchExits(i) ==
  /\ main[i] = "loading" /\ Listening(Configured)
  /\ Abandons(i) /\ UNCHANGED doltFaults

\* The user interface ends with an error, and os.Exit skips the deferred Stop.
TUIFails(i) == main[i] = "running" /\ Fault /\ Abandons(i)

StopNotOwned(i) ==
  /\ main[i] = "quitting"
  /\ ~handle[i].owned \/ pidFile # handle[i].pid
  /\ ExitsEnsuring(i) /\ mishaps' = mishaps \cup Left(i)
  /\ UNCHANGED <<doltMode, serverVars, doltFaults>>

StopCheckIf(i, owned) ==
  /\ main[i] = "quitting" /\ owned
  /\ main' = [main EXCEPT ![i] = "checked"]
  /\ UNCHANGED <<doltMode, serverVars, ensure, got, handle, dsn, fails, mishaps, doltFaults>>

\* Variant: the PID file is not compared.
StopCheckAnyPid(i) == StopCheckIf(i, handle[i].owned /\ pidFile # 0)
StopCheck(i) == StopCheckIf(i, handle[i].owned /\ pidFile # 0 /\ pidFile = handle[i].pid)

BdStops(i) ==
  /\ main[i] = "checked"
  /\ server' = NoServer /\ pidFile' = 0 /\ portFile' = 0
  /\ ExitsEnsuring(i)
  /\ UNCHANGED <<doltMode, mishaps, doltFaults>>

BdStopFails(i) ==
  /\ main[i] = "checked" /\ Fault
  /\ ExitsEnsuring(i)
  /\ mishaps' = mishaps \cup {"left"}
  /\ UNCHANGED <<doltMode, serverVars>>

Crash(i) ==
  /\ main[i] \notin {"off", "ended"} /\ Fault
  /\ ExitsEnsuring(i)
  /\ mishaps' = mishaps \cup {"left"}
  /\ UNCHANGED <<doltMode, serverVars>>

Ensure(i) ==
  \/ EnsureAttach(i) \/ EnsureStart(i) \/ BdStarts(i) \/ BdFindsServer(i) \/ EnsureReady(i)
  \/ BdStartFails(i) \/ EnsureTimesOut(i)

Launch(i) == LaunchServed(i) \/ LaunchUnserved(i)

Progress(i) ==
  \/ LaunchEnsured(i) \/ LaunchLoad(i) \/ LaunchExits(i) \/ Ensure(i)
  \/ PollAnswered(i) \/ PollFailed(i) \/ Reconnected(i)
  \/ StopNotOwned(i) \/ StopCheck(i) \/ BdStops(i) \/ BdStopFails(i)

DoltNext ==
  \/ ServerDies \/ OtherStarts
  \/ \E i \in Instance : Launch(i) \/ Progress(i) \/ Quit(i) \/ TUIFails(i) \/ Crash(i)

-----------------------------------------------------------------------------
DoltTypes ==
  /\ doltMode \in Modes
  /\ server \in {NoServer} \cup [pid : Pids, port : Ports, by : Instance \cup {0}]
  /\ pidFile \in Pids \cup {0} /\ portFile \in Ports \cup {0}
  /\ main \in [Instance -> {"off", "launching", "loading", "running", "quitting", "checked", "ended"}]
  /\ ensure \in [Instance -> {"idle", "dial", "start", "wait", "done"}]
  /\ \A f \in {got, handle} :
       /\ \A i \in Instance : f[i].owned => f[i].pid # 0
       /\ f \in [Instance -> [has : BOOLEAN, owned : BOOLEAN, pid : Pids \cup {0},
                            port : Ports \cup {0}, adopted : BOOLEAN]]
  /\ dsn \in [Instance -> Ports \cup {0}] /\ fails \in [Instance -> 0..ManyFails]
  /\ mishaps \subseteq {"replaced", "left"}
  /\ doltFaults \in 0..MaxFaults

(* "stops them on exit only if bt was the one that started them": the      *)
(* server an instance stops is one it started, unless bd told it of        *)
(* another's server as if it had started it, or the server was replaced    *)
(* between the look at the PID file and the command.                       *)
StopsOnlyOwn ==
  [][\A i \in Instance :
       main[i] = "checked" /\ server # NoServer /\ server' = NoServer /\ main'[i] = "ended"
         => server.by = i \/ handle[i].adopted \/ "replaced" \in mishaps]_doltVars

(* When all instances are gone, no server that one of them started runs    *)
(* on, unless one exited other than by Stop or crashed, a command failed,  *)
(* a server was too slow, a reconnect was under way at the exit, or it     *)
(* made an instance forget that it owns the server.                        *)
AllGone == \A i \in Instance : main[i] \in {"off", "ended"} /\ ensure[i] = "idle"
NoServerLeft == AllGone => server.by = 0 \/ "left" \in mishaps

(* "a per-session server (via `bd dolt start`) that bt stops on exit"      *)
(* (README.md:39): when nothing went wrong and all instances are gone, no  *)
(* server that one of them started runs on.  The code does not keep it:    *)
(* LaunchExits leaves the server of an instance that wants no user         *)
(* interface.                                                              *)
StoppedOnExit == AllGone /\ doltFaults = MaxFaults => server.by = 0

(* An instance that can reconnect is served again once its server is gone, *)
(* unless the one attempt failed, the new server listens on another port,  *)
(* or the instance quits.                                                  *)
EventuallyServed ==
  \A i \in Instance :
    main[i] = "running" /\ handle[i].has /\ ~Served(i)
      ~> \/ Served(i) \/ main[i] # "running" \/ fails[i] = ManyFails
         \/ server # NoServer /\ server.port # dsn[i]
=============================================================================
