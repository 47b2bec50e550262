---------------------------- MODULE PendingWrites ----------------------------
(***************************************************************************)
(* pkg/ui/claim.go, field_edit.go, longform_edit.go, internal/bdexec: the  *)
(* writes of bt.  A modal flow commits a claim or the new text of a field: *)
(* the row of the issue gets a marker, a goroutine runs bd, and its result *)
(* comes back as a message.  A failure removes the marker; a success       *)
(* leaves it until a reload shows the new value, or until it is overdue at *)
(* a reload; the reload of a file without a background worker leaves it.   *)
(* Long texts reach bd through a file, and are kept as drafts   *)
(* until their write succeeds.                                             *)
(*                                                                         *)
(* The text of a field is a set: one text, or all that were added to an    *)
(* additive field.  A claim is a write to the field "claim".               *)
(***************************************************************************)
EXTENDS Naturals, FiniteSets

CONSTANTS
  Issue,
  Short,       \* fields of one line
  Longform,    \* fields of the text area
  Tempfile,    \* those of them that bd reads from a file
  Additive,    \* those it adds to
  Write,       \* bd commands that may run at the same time
  MaxEdits,    \* fields the user opens, and claims
  Contested,   \* fields that others write
  MaxOthers,   \* changes that others make
  Feeds        \* how reloads may come at the start

Ways == {"file", "first", "steady"}

ASSUME FieldsAssumption ==
  /\ Short \cap Longform = {} /\ "claim" \notin Short \cup Longform
  /\ Tempfile \subseteq Longform /\ Additive \subseteq Longform
  /\ Contested \subseteq Short \cup Longform \cup {"claim"}
ASSUME FeedsAssumption == Feeds \subseteq Ways
ASSUME BoundsAssumption == MaxEdits \in Nat /\ MaxOthers \in Nat

VARIABLES
  feed,         \* how reloads come: "file", without a worker; "first", from a worker that has
                \* not shown a snapshot yet; "steady", from a worker or a data source
  tracker,      \* the fields of every issue, as bd has them
  changed,      \* is a read due, as the tracker has something the last one has not?
  snapshot,     \* issues read and not yet shown, as a set of at most one
  shown,        \* issueMap: the fields of the issues that are loaded
  modal,        \* activeModal, with the issue and the field it is about
  buffer,       \* the text area: its text, `original` and escArmed
  editing,      \* $EDITOR has the terminal
  promptDue,    \* the check of AGENTS.md has not answered yet
  drafts,       \* longformDrafts
  pending,      \* pendingWrites
  writes,       \* the commands that run, with what the edit file has for them, and results
  active,       \* writeSpinnerActive
  ticks,        \* spinner ticks under way
  owed,         \* history: the long text last committed and not yet in the tracker
  disturbed,    \* history: issues a modal was opened for while a command of theirs was under
                \* way, or whose command is said to have failed and had written
  overdue,      \* history: issues whose marker was removed for its age alone
  edits,        \* fields opened, and claims
  others        \* changes of others

writeVars == <<feed, tracker, changed, snapshot, shown, modal, buffer, editing, promptDue, drafts,
               pending, writes, active, ticks, owed, disturbed, overdue, edits, others>>

Fields == Short \cup Longform \cup {"claim"}
None == 0
\* The user types the same text as long as a field is open, and not the same twice.
Typed == edits
Foreign == MaxEdits + 1
Texts == 1..Foreign
ASSUME IssueAssumption == None \notin Issue

Closed == [kind |-> "none", issue |-> None, field |-> "none"]
NoBuffer == [text |-> None, original |-> None, armed |-> FALSE]
NoMarker == [field |-> "none", target |-> {}]
Idle == [phase |-> "idle", issue |-> None, field |-> "none", text |-> None, file |-> None]

Marked(i) == pending[i] # NoMarker
Dirty == buffer.text # buffer.original
UnderWay(i) == \E w \in Write : writes[w].phase # "idle" /\ writes[w].issue = i

WriteInit ==
  /\ tracker = [i \in Issue |-> [f \in Fields |-> {}]] /\ shown = tracker
  /\ feed \in Feeds /\ changed = (feed = "first") /\ snapshot = {}
  /\ modal = Closed /\ buffer = NoBuffer /\ editing = FALSE /\ promptDue = TRUE
  /\ drafts = [i \in Issue |-> [f \in Longform |-> None]] /\ owed = drafts
  /\ pending = [i \in Issue |-> NoMarker] /\ writes = [w \in Write |-> Idle]
  /\ active = FALSE /\ ticks = 0
  /\ disturbed = {} /\ overdue = {} /\ edits = 0 /\ others = 0

textVars == <<drafts, owed>>
markVars == <<pending, writes, active, ticks, disturbed, edits>>
loadVars == <<feed, tracker, changed, snapshot, shown, others, overdue>>

-----------------------------------------------------------------------------
(* The modal flow.  Keys reach the modal while no editor has the terminal. *)

Key == ~editing /\ UNCHANGED <<loadVars, promptDue>>

\* requestClaim, requestFieldEdit: not while a write of that issue is pending.
Request(i, kind) ==
  /\ Key /\ modal = Closed /\ i \in DOMAIN shown /\ ~Marked(i)
  /\ modal' = [Closed EXCEPT !.kind = kind, !.issue = i]
  /\ disturbed' = IF UnderWay(i) THEN disturbed \cup {i} ELSE disturbed
  /\ UNCHANGED <<buffer, editing, textVars, pending, writes, active, ticks, edits>>

\* cancelClaim, cancelFieldEdit.
Cancel ==
  /\ Key /\ modal.kind \in {"claim", "select"}
  /\ modal' = Closed
  /\ UNCHANGED <<buffer, editing, textVars, markVars>>

\* The value of a field, as the text a text area starts with.
Present(i, f) ==
  IF f \in Additive \/ shown[i][f] = {} THEN None ELSE CHOOSE t \in shown[i][f] : TRUE

\* openFieldPickerOrInput: a picker or an input line, or the text area with the draft when
\* there is one.  The issue may have left the loaded data.
Open(f) ==
  /\ Key /\ modal.kind = "select"
  /\ LET i == modal.issue IN
       IF i \notin DOMAIN shown
       THEN modal' = Closed /\ UNCHANGED <<buffer, edits>>
       ELSE /\ edits < MaxEdits /\ edits' = edits + 1
            /\ modal' = [kind |-> IF f \in Short THEN "input" ELSE "longform", issue |-> i, field |-> f]
            /\ buffer' = IF f \in Short THEN buffer
                         ELSE [text |-> IF drafts[i][f] # None THEN drafts[i][f] ELSE Present(i, f),
                               original |-> Present(i, f), armed |-> FALSE]
  /\ UNCHANGED <<editing, textVars, pending, writes, active, ticks, disturbed>>

\* backToFieldSelect.
Back == modal' = [modal EXCEPT !.kind = "select", !.field = "none"] /\ buffer' = NoBuffer

BackFromInput ==
  /\ Key /\ modal.kind = "input" /\ Back
  /\ UNCHANGED <<editing, textVars, markVars>>

Type ==
  /\ Key /\ modal.kind = "longform"
  /\ \E t \in {Typed, buffer.original} :
       t # buffer.text /\ buffer' = [buffer EXCEPT !.text = t, !.armed = FALSE]
  /\ UNCHANGED <<modal, editing, textVars, markVars>>

\* The text area is left with text t as the draft: whatever was committed before, the user
\* has now decided otherwise.
Stash(t) ==
  /\ drafts' = [drafts EXCEPT ![modal.issue][modal.field] = t]
  /\ owed' = [owed EXCEPT ![modal.issue][modal.field] = None]

\* handleLongformEscape: a clean buffer is left; a dirty one at the second key within three
\* seconds, and kept as a draft.
Escape ==
  /\ Key /\ modal.kind = "longform"
  /\ \/ ~Dirty /\ Stash(None) /\ Back
     \/ Dirty /\ buffer.armed /\ Stash(buffer.text) /\ Back
     \/ /\ Dirty /\ buffer' = [buffer EXCEPT !.armed = TRUE]
        /\ UNCHANGED <<modal, drafts, owed>>
  /\ UNCHANGED <<editing, markVars>>

\* A new content of the edit file of issue i and field f, for the commands that have not read
\* it yet.  Variant: the file is named after the field only.
SavedAnyIssue(i, f, t) ==
  [w \in Write |-> IF writes[w].field = f /\ f \in Tempfile
                   THEN [writes[w] EXCEPT !.file = t] ELSE writes[w]]
Saved(i, f, t) ==
  [w \in Write |-> IF writes[w].issue = i /\ writes[w].field = f /\ f \in Tempfile
                   THEN [writes[w] EXCEPT !.file = t] ELSE writes[w]]

\* escalateLongformEditor; the process waits for the editor.
Escalate ==
  /\ Key /\ modal.kind = "longform"
  /\ editing' = TRUE /\ writes' = Saved(modal.issue, modal.field, buffer.text)
  /\ buffer' = [buffer EXCEPT !.armed = FALSE]
  /\ UNCHANGED <<modal, textVars, pending, active, ticks, disturbed, edits>>

\* handleLongformEditorFinished, dropped when another modal has taken the place.
EditorFinished ==
  /\ editing /\ editing' = FALSE
  /\ \/ UNCHANGED <<buffer, writes>>
     \/ /\ modal.kind = "longform"
        /\ writes' = Saved(modal.issue, modal.field, Typed)
        /\ buffer' = [buffer EXCEPT !.text = Typed, !.armed = FALSE]
  /\ UNCHANGED <<loadVars, promptDue, modal, textVars, pending, active, ticks, disturbed, edits>>

-----------------------------------------------------------------------------
(* The commit.                                                             *)

\* The spinner starts with the first write.  Variant: with every write.
SpinAlways == active' = TRUE /\ ticks' = ticks + 1
Spin == active' = TRUE /\ ticks' = IF active THEN ticks ELSE ticks + 1

\* confirmClaim, commitFieldEdit: refused when the issue is not loaded or its project has no
\* place to write to; otherwise the marker is set, with the text the field should get, and
\* bd is started.
Dispatch(f, text, target, running) ==
  /\ modal' = Closed /\ buffer' = NoBuffer
  /\ LET i == modal.issue IN
       \/ writes' = running /\ UNCHANGED <<pending, active, ticks>>
       \/ /\ i \in DOMAIN shown
          /\ pending' = [pending EXCEPT ![i] = [field |-> f, target |-> target]]
          /\ \E w \in Write :
               /\ writes[w] = Idle
               /\ writes' = [running EXCEPT ![w] = [phase |-> "running", issue |-> i, field |-> f,
                                                   text |-> text, file |-> text]]
          /\ Spin
  /\ UNCHANGED disturbed

ConfirmClaim ==
  /\ Key /\ modal.kind = "claim" /\ edits < MaxEdits /\ edits' = edits + 1
  /\ Dispatch("claim", None, {}, writes)
  /\ UNCHANGED <<editing, textVars>>

CommitInput ==
  /\ Key /\ modal.kind = "input"
  /\ Dispatch(modal.field, Typed, {Typed}, writes)
  /\ UNCHANGED <<editing, textVars, edits>>

\* The text the field should get: of notes, the notes loaded and the new ones.
Target(i, f, t) == IF f \in Additive /\ i \in DOMAIN shown THEN shown[i][f] \cup {t} ELSE {t}

\* commitLongformEdit.  A dirty buffer becomes the draft.
CommitLongformWith(draft) ==
  /\ Key /\ modal.kind = "longform" /\ buffer.text # None
  /\ LET i == modal.issue  f == modal.field  t == buffer.text IN
       /\ drafts' = IF Dirty THEN [drafts EXCEPT ![i][f] = draft] ELSE drafts
       /\ owed' = [owed EXCEPT ![i][f] = IF Dirty THEN t ELSE None]
       /\ Dispatch(f, t, Target(i, f, t), Saved(i, f, t))
  /\ UNCHANGED <<editing, edits>>

\* Variant: the commit retires the draft.
CommitWithoutDraft == CommitLongformWith(None)
CommitLongform == CommitLongformWith(buffer.text)

-----------------------------------------------------------------------------
(* bd.                                                                     *)

\* What bd writes: of a long text, what the file has when bd reads it.
Given(x) == IF x.field \in Tempfile THEN x.file ELSE x.text

Written(x, old) == IF x.field \in Additive THEN old \cup {Given(x)} ELSE {Given(x)}

\* The command succeeds, fails, or is given up on after thirty seconds, having written or not.
BdRuns(w) ==
  /\ writes[w].phase = "running"
  /\ \E ok, done \in BOOLEAN :
       /\ ok => done
       /\ done => writes[w].issue \in DOMAIN tracker
       /\ LET x == writes[w] IN
            /\ writes' = [writes EXCEPT ![w].phase = IF ok THEN "ok" ELSE "failed"]
            /\ tracker' = IF done THEN [tracker EXCEPT ![x.issue][x.field] = Written(x, @)] ELSE tracker
            /\ owed' = IF done /\ x.field \in Longform /\ owed[x.issue][x.field] = Given(x)
                       THEN [owed EXCEPT ![x.issue][x.field] = None] ELSE owed
            /\ disturbed' = IF done /\ ~ok THEN disturbed \cup {x.issue} ELSE disturbed
       /\ changed' = (changed \/ done)
  /\ UNCHANGED <<feed, snapshot, shown, modal, buffer, editing, promptDue, drafts, pending,
                 active, ticks, overdue, edits, others>>

\* handleWriteResult: the marker of the issue goes with a failure, the draft of the issue and
\* the field with a success.
ResultWith(w, unmarked, undrafted) ==
  /\ writes[w].phase \in {"ok", "failed"}
  /\ writes' = [writes EXCEPT ![w] = Idle]
  /\ LET x == writes[w] IN
       /\ pending' = IF unmarked THEN [pending EXCEPT ![x.issue] = NoMarker] ELSE pending
       /\ drafts' = IF undrafted /\ x.field \in Longform
                    THEN [drafts EXCEPT ![x.issue][x.field] = None] ELSE drafts
  /\ UNCHANGED <<loadVars, modal, buffer, editing, promptDue, active, ticks, owed,
                 disturbed, edits>>

\* Variant: only the claim leaves the marker to nobody.
ResultKeepsEdit(w) ==
  ResultWith(w, writes[w].phase = "failed" /\ writes[w].field = "claim", writes[w].phase = "ok")
Result(w) == ResultWith(w, writes[w].phase = "failed", writes[w].phase = "ok")

\* handleWriteSpinnerTick.
Tick ==
  /\ ticks > 0
  /\ IF \E i \in Issue : Marked(i)
     THEN UNCHANGED <<active, ticks>>
     ELSE active' = FALSE /\ ticks' = ticks - 1
  /\ UNCHANGED <<loadVars, modal, buffer, editing, promptDue, textVars, pending, writes,
                 disturbed, edits>>

-----------------------------------------------------------------------------
(* The others, and the reloads.                                            *)

\* Others write a field, of an issue that is being edited or of another, or an issue goes away.
OtherWrites ==
  /\ others < MaxOthers /\ others' = others + 1 /\ changed' = TRUE
  /\ \E i \in DOMAIN tracker :
       \/ \E f \in Contested : tracker' = [tracker EXCEPT ![i][f] = IF f \in Additive THEN @ \cup {Foreign} ELSE {Foreign}]
       \/ tracker' = [j \in DOMAIN tracker \ {i} |-> tracker[j]]
  /\ UNCHANGED <<feed, snapshot, shown, overdue, modal, buffer, editing, promptDue, textVars, markVars>>

\* The worker, or a reload command, reads what the tracker has now.
Load ==
  /\ feed # "file" /\ changed /\ changed' = FALSE
  /\ snapshot' = {tracker}
  /\ UNCHANGED <<feed, tracker, shown, overdue, modal, buffer, editing, promptDue, textVars,
                 markVars, others>>

\* handleFileChanged: without a worker the file is read and shown in one step, and no marker is
\* looked at.  A slow reload starts a worker, which reads again.
FileReload ==
  /\ feed = "file" /\ modal = Closed
  /\ shown' = tracker
  /\ feed' \in {"file", "first"} /\ changed' = (feed' = "first")
  /\ UNCHANGED <<tracker, snapshot, overdue, modal, buffer, editing, promptDue, textVars, markVars,
                 others>>

\* writeSettled.
Settled(i, issues) ==
  LET f == pending[i].field IN
  /\ Marked(i) /\ i \in DOMAIN issues
  /\ CASE f = "claim" -> issues[i][f] # {}
       [] f = "comment" -> TRUE
       [] OTHER -> issues[i][f] = pending[i].target

\* settlePendingWrites; `late` are markers older than writeSettleTimeout, by when bd has
\* answered.
Settle(issues, late) ==
  [i \in Issue |-> IF Settled(i, issues) \/ i \in late THEN NoMarker ELSE pending[i]]

\* A reload is shown while no modal is open, and comes back every 200 ms until then; the first
\* snapshot of a worker does not wait.
Reload ==
  /\ modal = Closed \/ feed = "first"
  /\ snapshot # {} /\ feed' = "steady"
  /\ \E issues \in snapshot, late \in SUBSET {i \in Issue : Marked(i) /\ ~UnderWay(i)} :
       /\ shown' = issues /\ pending' = Settle(issues, late)
       /\ overdue' = overdue \cup {i \in late : ~Settled(i, issues)}
  /\ snapshot' = {}
  /\ UNCHANGED <<tracker, changed, others, modal, buffer, editing, promptDue, textVars, writes,
                 active, ticks, disturbed, edits>>

\* handleAgentFileCheck puts its prompt in the place of whatever modal is open.
AgentCheck ==
  /\ promptDue /\ promptDue' = FALSE
  /\ \/ modal' = [Closed EXCEPT !.kind = "agent"] /\ buffer' = NoBuffer
     \/ UNCHANGED <<modal, buffer>>
  /\ UNCHANGED <<loadVars, editing, textVars, markVars>>

AgentAnswer ==
  /\ Key /\ modal.kind = "agent"
  /\ modal' = Closed
  /\ UNCHANGED <<buffer, editing, textVars, markVars>>

User ==
  \/ \E i \in Issue, kind \in {"claim", "select"} : Request(i, kind)
  \/ Cancel \/ ConfirmClaim \/ BackFromInput \/ CommitInput
  \/ \E f \in Short \cup Longform : Open(f)
  \/ Type \/ Escape \/ Escalate \/ EditorFinished \/ CommitLongform \/ AgentAnswer

WriteNext ==
  \/ User \/ AgentCheck \/ OtherWrites \/ Load \/ FileReload \/ Reload \/ Tick
  \/ \E w \in Write : BdRuns(w) \/ Result(w)

WriteSpec == WriteInit /\ [][WriteNext]_writeVars

-----------------------------------------------------------------------------
Records == [Fields -> SUBSET (Texts \cup {None})]
WriteTypeOK ==
  /\ feed \in Ways
  /\ DOMAIN tracker \subseteq Issue /\ DOMAIN shown \subseteq Issue
  /\ \A i \in DOMAIN tracker : tracker[i] \in Records
  /\ \A i \in DOMAIN shown : shown[i] \in Records
  /\ changed \in BOOLEAN /\ Cardinality(snapshot) <= 1
  /\ modal.kind \in {"none", "claim", "select", "input", "longform", "agent"}
  /\ modal.kind \in {"claim", "select", "input", "longform"} <=> modal.issue \in Issue
  /\ modal.kind = "longform" <=> modal.field \in Longform
  /\ modal.kind # "longform" => buffer = NoBuffer
  /\ editing \in BOOLEAN /\ promptDue \in BOOLEAN /\ active \in BOOLEAN
  /\ \A d \in {drafts, owed} : d \in [Issue -> [Longform -> Texts \cup {None}]]
  /\ disturbed \subseteq Issue /\ overdue \subseteq Issue /\ edits \in 0..MaxEdits /\ others \in 0..MaxOthers

(* "nothing long-form is ever lost": a long text that was committed and is *)
(* not in the tracker is the draft, whatever became of its write.  Not so  *)
(* when an edit of the issue was begun before the result of a write was    *)
(* in: the success of the first retires the draft of the second.           *)
CommittedKept ==
  \A i \in Issue \ disturbed, f \in Longform : owed[i][f] \in {None, drafts[i][f]}

(* The path given to bd names what was committed: until bd has read it, no *)
(* other edit writes that file, unless an edit of the issue is begun       *)
(* before the result of the write is in.                                   *)
WritesCommitted ==
  \A w \in Write : LET x == writes[w] IN
    x.phase = "running" /\ x.issue \notin disturbed => Given(x) = x.text

(* A row that shows a write under way spins with one chain of ticks, and   *)
(* does not stand for a write that bd has refused.                         *)
SpinnerHonest ==
  /\ ticks = IF active THEN 1 ELSE 0
  /\ \A i \in Issue : Marked(i) => active

(* "no write is ever left silently pending forever" (claim.go:397): when   *)
(* every command has answered and every change is shown, no row shows a    *)
(* write under way, unless others changed the tracker, an edit of the      *)
(* issue was begun before the result of a write was in, bd failed after it *)
(* had written, or notes were added to an issue whose marker had once been *)
(* removed for its age: the notes shown, and so the text the row waits     *)
(* for, may be out of date.  The code does not keep it: the reload of a    *)
(* file without a worker (FileReload) shows the changes and leaves the     *)
(* markers.                                                                *)
MarkersSettled ==
  ~changed /\ snapshot = {} /\ others = 0
    => \A i \in Issue \ disturbed :
         Marked(i) => UnderWay(i) \/ (i \in overdue /\ pending[i].field \in Additive)

(* With a background worker or a data source, from the start or since a    *)
(* slow reload of the file, the code keeps it: the markers that the file   *)
(* reloads left before are settled as well.                                *)
SettledWhenQuiet == feed # "file" => MarkersSettled
=============================================================================
