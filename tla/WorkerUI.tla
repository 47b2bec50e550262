------------------------------ MODULE WorkerUI ------------------------------
(***************************************************************************)
(* The snapshot worker and the user interface it feeds.  The bubbletea     *)
(* program (pkg/ui/model.go, model_update_data.go) reads the worker's      *)
(* channel through commands that wait for one message each; a handler must *)
(* issue the next command, so a command and its successors form a chain.   *)
(* An open modal defers a snapshot: its message comes back every 200 ms    *)
(* and its chain reads nothing else meanwhile.  This composition runs a    *)
(* worker from Start on, over a file or a Dolt source; Stop and recovery   *)
(* are explored by BackgroundWorker alone.                                 *)
(***************************************************************************)
EXTENDS DoltPoll

CONSTANTS
  Chains,    \* bound: chains of subscribing commands
  Followed   \* bound: the mishaps a behaviour is followed beyond

ASSUME ChainAssumption == Chains \subseteq Nat /\ 1 \in Chains
ASSUME FollowedAssumption == Followed \subseteq {"overflow", "overtaken", "secondChain"}

VARIABLES
  source,     \* the kind of data source the worker was made for
  chain,      \* what each chain is doing
  modal,      \* an interactive modal is open (shouldDeferRefresh)
  ui,         \* m.data.snapshot
  ready,      \* its Phase2Ready field
  applied,    \* handlePhase2Ready went through for it
  awaiting,   \* the snapshots a WaitForPhase2Cmd is under way for
  connected,  \* m.doltConnected
  recycled,   \* the snapshots whose issues went back to the pool
  mishaps     \* history: what has happened that can damage the delivery

uiVars == <<source, chain, modal, ui, ready, applied, awaiting, connected, recycled, mishaps>>
allVars == <<vars, pollVars, uiVars>>

Silent == [st |-> "off", msg |-> [kind |-> "none", snap |-> NoSnapshot]]
Waiting == [Silent EXCEPT !.st = "wait"]
Holding(m) == [st |-> "msg", msg |-> m]

Mishaps == {"overflow",     \* send() dropped a message
            "overtaken",    \* a snapshot was announced after a newer one was published
            "secondChain"}  \* something else than a handler issued a waiting command

UIInit ==
  /\ Init /\ PollInit
  /\ source \in {"file", "dolt"}
  /\ chain = [c \in Chains |-> IF c = 1 THEN Waiting ELSE Silent]
  /\ modal = FALSE
  /\ ui = NoSnapshot /\ ready = FALSE /\ applied = FALSE /\ awaiting = {}
  /\ connected = FALSE /\ recycled = {} /\ mishaps = {}

-----------------------------------------------------------------------------
\* Steps of the worker the user interface takes no part in.
Sent == msgCh' # msgCh
NoteMishaps ==
  mishaps' = mishaps
    \cup (IF Sent /\ Len(msgCh) = ChanCap THEN {"overflow"} ELSE {})
    \cup (IF Sent /\ msgCh'[Len(msgCh')].kind = "ready" /\ msgCh'[Len(msgCh')].snap.id < snapshot.id
          THEN {"overtaken"} ELSE {})

CommonStep == \/ FileChange \/ StartLock \/ StartTrigger
              \/ ProcessJoin \/ (\E p \in Proc : Process(p)) \/ Phase2
              \/ \E r \in Recipes : SetRecipe(r)
FileStep == source = "file" /\ (WatcherNotify \/ StartLoop \/ Looping)
DoltStep == source = "dolt" /\ (DoltStart \/ ServerFails \/ ServerReturns \/ Poll)

WorkerStep ==
  /\ \/ (CommonStep \/ FileStep) /\ UNCHANGED pollVars
     \/ DoltStep
  /\ NoteMishaps
  /\ UNCHANGED <<source, chain, modal, ui, ready, applied, awaiting, connected, recycled>>

\* The result of StartBackgroundWorkerCmd: a failing Start is a message of its own, and
\* the handler of that message issues a second waiting command.
StartStep(c) ==
  /\ source = "file" /\ StartWatcher /\ UNCHANGED pollVars
  /\ IF startPc' = "failed"
     THEN /\ chain[c] = Silent
          /\ chain' = [chain EXCEPT ![c] = Holding([kind |-> "error", snap |-> NoSnapshot])]
          /\ mishaps' = mishaps \cup {"secondChain"}
     ELSE UNCHANGED <<chain, mishaps>>
  /\ UNCHANGED <<source, modal, ui, ready, applied, awaiting, connected, recycled>>

-----------------------------------------------------------------------------
\* WaitForBackgroundWorkerMsgCmd.
Receive(c) ==
  /\ chain[c] = Waiting /\ msgCh # <<>>
  /\ chain' = [chain EXCEPT ![c] = Holding(Head(msgCh))]
  /\ msgCh' = Tail(msgCh)
  /\ UNCHANGED <<dataVars, requestVars, hashVars, buildVars, loopVars, watcherVars, lifeVars,
                 boundVars, pollVars, source, modal, ui, ready, applied, awaiting, connected,
                 recycled, mishaps>>

Handles(c, kinds) == chain[c].st = "msg" /\ chain[c].msg.kind \in kinds
Resubscribe(c) == chain' = [chain EXCEPT ![c] = Waiting]

\* handleRefreshStarted and handleSnapshotError, of which only the subscription is kept.
HandleOther(c) ==
  /\ Handles(c, {"started", "error"})
  /\ Resubscribe(c)
  /\ UNCHANGED <<vars, pollVars, source, modal, ui, ready, applied, awaiting, connected,
                 recycled, mishaps>>

\* handleDoltVerified and handleDoltConnectionStatus.
HandleConnection(c) ==
  /\ Handles(c, {"lost", "restored", "verified"})
  /\ connected' = (chain[c].msg.kind # "lost")
  /\ Resubscribe(c)
  /\ UNCHANGED <<vars, pollVars, source, modal, ui, ready, applied, awaiting, recycled, mishaps>>

\* Variant: Phase 2 is awaited for the first snapshot only.
SwapOnceAwaited(new) ==
  /\ ui' = new
  /\ ready' = FALSE /\ applied' = FALSE
  /\ awaiting' = IF ui.id = 0 THEN {new.id} ELSE awaiting
  /\ recycled' = IF source = "file" /\ ui.id # 0 THEN recycled \cup {ui.id} ELSE recycled

\* Variant: the old snapshot's issues are returned without looking whether it has any.
SwapReturningAny(new) ==
  /\ ui' = new
  /\ ready' = FALSE /\ applied' = FALSE
  /\ awaiting' = awaiting \cup {new.id}
  /\ recycled' = recycled \cup {ui.id}

\* handleSnapshotReady past its deferral: the pointer is swapped, the old snapshot's pooled
\* issues (a file source has them) go back to the pool, Phase 2 of the new one is awaited.
Swap(new) ==
  /\ ui' = new
  /\ ready' = FALSE /\ applied' = FALSE
  /\ awaiting' = awaiting \cup {new.id}
  /\ recycled' = IF source = "file" /\ ui.id # 0 THEN recycled \cup {ui.id} ELSE recycled

Deferred == ui.id # 0 /\ modal

\* Variant: the deferral issues the next waiting command as well.
HandleReadySubscribing(c) ==
  /\ Handles(c, {"ready"})
  /\ IF Deferred
     THEN /\ \E d \in Chains : chain[d] = Silent /\ chain' = [chain EXCEPT ![d] = Waiting]
          /\ UNCHANGED <<ui, ready, applied, awaiting, recycled>>
     ELSE Swap(chain[c].msg.snap) /\ Resubscribe(c)
  /\ UNCHANGED <<vars, pollVars, source, modal, connected, mishaps>>

\* Variant: a deferred snapshot is dropped and the chain goes on.
HandleReadyDropping(c) ==
  /\ Handles(c, {"ready"})
  /\ IF Deferred THEN UNCHANGED <<ui, ready, applied, awaiting, recycled>>
                 ELSE Swap(chain[c].msg.snap)
  /\ Resubscribe(c)
  /\ UNCHANGED <<vars, pollVars, source, modal, connected, mishaps>>

\* handleSnapshotReady; while a modal defers it the message just stays with its chain.
HandleReady(c) ==
  /\ Handles(c, {"ready"}) /\ ~Deferred
  /\ Swap(chain[c].msg.snap)
  /\ Resubscribe(c)
  /\ UNCHANGED <<vars, pollVars, source, modal, connected, mishaps>>

\* handlePhase2Update compares content hashes only.
HandlePhase2Update(c) ==
  /\ Handles(c, {"phase2"})
  /\ ready' = (ready \/ (ui.id # 0 /\ ui.data = chain[c].msg.snap.data))
  /\ Resubscribe(c)
  /\ UNCHANGED <<vars, pollVars, source, modal, ui, applied, awaiting, connected, recycled, mishaps>>

-----------------------------------------------------------------------------
\* Variant: the analysis is not compared with the one of the snapshot shown.
HandlePhase2ReadyAny(x) ==
  /\ x \in awaiting
  /\ \A b \in phase2 : b.snap.id = x => b.pc # "run"
  /\ awaiting' = awaiting \ {x}
  /\ IF ~ready THEN ready' = TRUE /\ applied' = TRUE ELSE UNCHANGED <<ready, applied>>
  /\ UNCHANGED <<vars, pollVars, source, chain, modal, ui, connected, recycled, mishaps>>

\* WaitForPhase2Cmd for the analysis of snapshot x ends and handlePhase2Ready runs: it
\* ignores another snapshot's analysis, and returns early if Phase2Ready is set.
HandlePhase2Ready(x) ==
  /\ x \in awaiting
  /\ \A b \in phase2 : b.snap.id = x => b.pc # "run"
  /\ awaiting' = awaiting \ {x}
  /\ IF x = ui.id /\ ~ready THEN ready' = TRUE /\ applied' = TRUE ELSE UNCHANGED <<ready, applied>>
  /\ UNCHANGED <<vars, pollVars, source, chain, modal, ui, connected, recycled, mishaps>>

ToggleModal ==
  /\ modal' = ~modal
  /\ UNCHANGED <<vars, pollVars, source, chain, ui, ready, applied, awaiting, connected,
                 recycled, mishaps>>

\* Ctrl+R: ForceRefresh, and one more waiting command.
ForceRefreshKey(c) ==
  /\ chain[c] = Silent
  /\ UserRefresh
  /\ chain' = [chain EXCEPT ![c] = Waiting]
  /\ mishaps' = mishaps \cup {"secondChain"}
  /\ UNCHANGED <<pollVars, source, modal, ui, ready, applied, awaiting, connected, recycled>>

UIStep == \/ \E c \in Chains : \/ Receive(c) \/ HandleOther(c) \/ HandleConnection(c)
                               \/ HandleReady(c) \/ HandlePhase2Update(c)
                               \/ ForceRefreshKey(c) \/ StartStep(c)
          \/ \E x \in awaiting : HandlePhase2Ready(x)
          \/ ToggleModal

UINext == mishaps \subseteq Followed /\ (WorkerStep \/ UIStep)

UISpec == UIInit /\ [][UINext]_allVars

\* The goroutines of Phase 2 and the program's event loop are scheduled.
FairUISpec == /\ UISpec
              /\ WF_allVars(Phase2 /\ WorkerStep)
              /\ WF_allVars(\E x \in awaiting : HandlePhase2Ready(x))

-----------------------------------------------------------------------------
(* Every variable stays in its type; what is shown is a snapshot that was  *)
(* built, and pooled issues exist only for a file source.                  *)
UITypeOK ==
  /\ TypeOK /\ PollTypes
  /\ ui \in Snapshot /\ ui.id <= builds
  /\ awaiting \subseteq 1..builds /\ recycled \subseteq 1..builds
  /\ source = "dolt" => recycled = {}
  /\ applied => ready
  /\ mishaps \subseteq Mishaps
  /\ \A c \in Chains : chain[c].st \in {"off", "wait", "msg"}

(* No change is lost to the builds and loads that fail: a settled worker   *)
(* whose last build did not fail shows the newest version of a file, and a *)
(* version at least as new as the poll loop has noticed.                   *)
ChangesShown ==
  /\ source = "file" => FreshWhenQuiet
  /\ NoticedIsShown

(* The user never sees data go back while there is one chain: only a       *)
(* second chain, or a process() that announces its snapshot after a newer  *)
(* one was published, can put an old snapshot over a new one.              *)
UINeverRegresses ==
  [][mishaps' \cap {"overtaken", "secondChain"} = {} => ui'.id >= ui.id]_allVars

(* Everything the worker sent has been handled.                            *)
Drained == /\ msgCh = <<>> /\ \A c \in Chains : chain[c].st # "msg"
           /\ \A p \in Proc : proc[p].pc # "notify"

(* Unless the channel overflowed, a snapshot was overtaken or there was a  *)
(* second chain, the user sees what the worker published last, however     *)
(* often modals deferred it on the way.                                    *)
Delivered == Drained /\ mishaps = {} => ui = snapshot

(* While polls keep failing the user is not told that the server answers,  *)
(* once the messages are handled.                                          *)
ConnectionHonest == Drained /\ mishaps = {} /\ fails > 0 => ~connected

(* Pooled issues are returned only when no snapshot in use refers to them: *)
(* neither the one the user sees, nor the one the worker publishes, nor    *)
(* the one the running build compares with.                                *)
PoolSafe ==
  mishaps \cap {"overtaken", "secondChain"} = {} =>
    /\ {ui.id, snapshot.id} \cap recycled = {}
    /\ \A p \in Proc : proc[p].pc = "build" => proc[p].prev \notin recycled

(* Phase 2 results reach the views only for the snapshot being shown, and  *)
(* not before its own metrics are there.                                   *)
AppliedOwn == applied => \A b \in phase2 : b.snap.id = ui.id => b.pc # "run"

(* A snapshot the user sees is marked Phase2Ready in the end, although the *)
(* worker announces Phase 2 only if it ends after the publication, and the *)
(* announcement may be dropped, late or stuck behind a deferred snapshot.  *)
EventuallyReady == ui.id # 0 ~> ready

(* What the code means to hold and does not (see the findings).            *)
(* "Once the snapshot is marked Phase2Ready we have already processed this *)
(* stats pointer": when the last Phase2ReadyMsg for the snapshot shown has *)
(* been handled, its Phase 2 results have been applied.                    *)
Phase2Applied == ui.id # 0 /\ ui.id \notin awaiting => applied

(* "Dolt poll succeeded - data is verified current": a settled worker that *)
(* polled successfully shows what the polls have read.                     *)
VerifiedIsCurrent == connected /\ Quiet /\ ~failed => snapshot.data >= lastModified

(* "Re-emit the same message ... so the snapshot isn't dropped": with one  *)
(* chain the user sees in the end what the worker published last.          *)
NothingDropped == Drained /\ mishaps \subseteq {"overflow"} => ui = snapshot
=============================================================================
