------------------------- MODULE PendingWritesProofs -------------------------
(***************************************************************************)
(* The writes, for any number of issues, fields, commands and edits.  An   *)
(* issue that is not disturbed has one write at a time, none while a modal *)
(* is open for it, and this is why the success of a write retires its own  *)
(* draft, and why bd reads the file that was written for it.  A marker is  *)
(* removed because what the tracker has after the write is what the row    *)
(* waits for: for notes, because those shown at the commit were those of   *)
(* the tracker.  While a file is reloaded without a worker the marker      *)
(* stays, and what it waits for with it.                                   *)
(***************************************************************************)
EXTENDS PendingWrites, TLAPS

Value == Texts \cup {None}
FieldOrNone == Fields \cup {"none"}
Phases == {"idle", "running", "ok", "failed"}
Commands == [phase : Phases, issue : Issue \cup {None}, field : FieldOrNone, text : Value, file : Value]

\* The fields of some of the issues.
View(v) == \E D \in SUBSET Issue : v \in [D -> Records]

LoadTypes ==
  /\ View(tracker) /\ View(shown) /\ (\A s \in snapshot : View(s)) /\ \A r, s \in snapshot : r = s
  /\ changed \in BOOLEAN /\ others \in Nat /\ overdue \subseteq Issue
  /\ feed = "file" => snapshot = {}

ModalTypes ==
  /\ modal \in [kind : {"none", "claim", "select", "input", "longform", "agent"},
                issue : Issue \cup {None}, field : FieldOrNone]
  /\ modal.kind \in {"claim", "select", "input", "longform"} => modal.issue \in Issue
  /\ modal.kind \in {"none", "agent"} => modal.issue = None
  /\ modal.kind = "input" => modal.field \in Short
  /\ modal.kind = "longform" => modal.field \in Longform
  /\ buffer \in [text : Value, original : Value, armed : BOOLEAN]
  /\ edits \in 0..MaxEdits

TextTypes == drafts \in [Issue -> [Longform -> Value]] /\ owed \in [Issue -> [Longform -> Value]]

WriteTypes ==
  /\ pending \in [Issue -> [field : FieldOrNone, target : SUBSET Value]]
  /\ \A i \in Issue : Marked(i) => pending[i].field \in Fields
  /\ writes \in [Write -> Commands]
  /\ \A w \in Write : writes[w].phase = "idle" => writes[w] = Idle
  /\ \A w \in Write : writes[w].phase # "idle" => writes[w].issue \in Issue /\ writes[w].field \in Fields
  /\ disturbed \subseteq Issue

WTypes == LoadTypes /\ ModalTypes /\ TextTypes /\ WriteTypes

\* The commands of an issue.
Of(i) == {w \in Write : writes[w].issue = i}

\* The flows of an issue take turns; what a command still has to write is owed and kept, and
\* what it has written is not owed.
Turns(i) ==
  /\ modal.issue = i => ~Marked(i) /\ Of(i) = {}
  /\ \A v, w \in Of(i) : v = w
  /\ \A w \in Of(i) : writes[w].phase = "running" => Given(writes[w]) = writes[w].text
  /\ \A w \in Of(i) : writes[w].field \in Longform =>
       /\ writes[w].phase = "running" => owed[i][writes[w].field] \in {None, writes[w].text}
       /\ writes[w].phase = "ok" => owed[i][writes[w].field] = None
  /\ \A f \in Longform : owed[i][f] \in {None, drafts[i][f]}

\* The fields whose new text is added to what is shown, and awaited.
Added == Additive \ {"comment"}

Answered(i) == \A w \in Of(i) : writes[w].phase = "ok"

\* Notes shown or about to be shown are those of the tracker, or the row still waits for them.
Seen(i) ==
  i \notin overdue =>
    \A f \in Added, v \in {shown} \cup snapshot :
      v[i][f] # tracker[i][f]
        => Marked(i) /\ pending[i].field = f /\ pending[i].target = tracker[i][f] /\ Answered(i)

\* While a command runs, the row waits for what the command will make of the field.
Awaited(i, x) ==
  /\ Marked(i) => pending[i].field = x.field
  /\ Marked(i) /\ x.phase = "running" /\ x.field \notin Additive \cup {"claim", "comment"}
       => pending[i].target = {x.text}
  /\ x.phase = "running" /\ x.field \in Added /\ i \notin overdue
       => tracker[i][x.field] \cup {x.text} = IF Marked(i) THEN pending[i].target ELSE tracker[i][x.field]

\* When the commands of an issue have succeeded, what its row waits for is in the tracker, and
\* is about to be read or to be shown, unless reloads leave the markers alone.
Arrived(i) == Settled(i, tracker) /\ (feed = "file" \/ changed \/ \E s \in snapshot : Settled(i, s))
Excepted(i) == i \in overdue /\ pending[i].field \in Additive

Marks(i) ==
  /\ Seen(i)
  /\ \A w \in Of(i) : Awaited(i, writes[w])
  /\ Marked(i) /\ Answered(i) => Arrived(i) \/ Excepted(i)

\* Until others write, no issue goes away.
Whole == others = 0 => DOMAIN tracker = Issue /\ DOMAIN shown = Issue /\ \A s \in snapshot : DOMAIN s = Issue

WInv == WTypes /\ Whole /\ \A i \in Issue \ disturbed : Turns(i) /\ (others = 0 => Marks(i))

-----------------------------------------------------------------------------
(* What concerns one issue, and what does not.                             *)

WritesSame(i) == \A w \in Write : i \in {writes[w].issue, writes'[w].issue} => writes'[w] = writes[w]
Untouched(i) == WritesSame(i) /\ pending'[i] = pending[i]

\* A step that leaves the writes of an issue alone may open a modal for it when none is under
\* way, and may decide about its texts.
LEMMA TurnsElsewhere ==
  ASSUME NEW i \in Issue, Turns(i), WritesSame(i), Marked(i)' => Marked(i),
         modal'.issue = i => modal.issue = i \/ (~Marked(i) /\ Of(i) = {}),
         \A f \in Longform : \/ owed'[i][f] = None
                             \/ owed'[i][f] = owed[i][f] /\ drafts'[i][f] = drafts[i][f]
                             \/ Of(i) = {} /\ owed'[i][f] = drafts'[i][f]
  PROVE  Turns(i)'
<1>1. Of(i)' = Of(i) /\ \A w \in Of(i) : w \in Write /\ writes'[w] = writes[w]
  BY DEF Of, WritesSame
<1>2. (modal.issue = i => ~Marked(i) /\ Of(i) = {})'
  BY <1>1 DEF Turns
<1>3. (\A v, w \in Of(i) : v = w)'
  BY <1>1 DEF Turns
<1>4. ASSUME NEW w \in Of(i) PROVE (writes[w].phase = "running" => Given(writes[w]) = writes[w].text)'
  BY <1>1, <1>4 DEF Turns, Given
<1>5. ASSUME NEW w \in Of(i), writes[w].field \in Longform
      PROVE  /\ writes[w].phase = "running" => owed'[i][writes[w].field] \in {None, writes[w].text}
             /\ writes[w].phase = "ok" => owed'[i][writes[w].field] = None
  <2>1. owed'[i][writes[w].field] = None \/ owed'[i][writes[w].field] = owed[i][writes[w].field]
    BY <1>5
  <2> QED
    BY <1>5, <2>1 DEF Turns
<1>6. (\A f \in Longform : owed[i][f] \in {None, drafts[i][f]})'
  BY DEF Turns
<1>7. \A w \in Of(i)' : w \in Of(i) /\ writes'[w] = writes[w]
  BY <1>1
<1> QED
  BY <1>2, <1>3, <1>4, <1>5, <1>6, <1>7 DEF Turns

\* The marker of an issue depends on its writes, its fields and the loads.
LEMMA MarksElsewhere ==
  ASSUME NEW i \in Issue, Marks(i), Untouched(i),
         UNCHANGED <<feed, snapshot, shown, overdue>>, tracker'[i] = tracker[i],
         i \in DOMAIN tracker', changed => changed'
  PROVE  Marks(i)'
<1>1. Of(i)' = Of(i) /\ \A w \in Of(i) : w \in Write /\ writes'[w] = writes[w]
  BY DEF Of, Untouched, WritesSame
<1>2. (Marked(i)' <=> Marked(i)) /\ pending'[i] = pending[i]
  BY DEF Marked, Untouched
<1>3. Answered(i)' <=> Answered(i)
  BY <1>1 DEF Answered
<1>4. Seen(i)'
  BY <1>2, <1>3 DEF Marks, Seen
<1>5. ASSUME NEW w \in Of(i)' PROVE Awaited(i, writes[w])'
  <2>1. w \in Of(i) /\ writes'[w] = writes[w]
    BY <1>1
  <2>2. Awaited(i, writes[w])
    BY <2>1 DEF Marks
  <2> QED
    BY <1>2, <2>1, <2>2 DEF Awaited
<1>6. ASSUME NEW s PROVE Settled(i, s)' <=> Settled(i, s)
  BY <1>2 DEF Settled, Marked
<1>7. Settled(i, tracker) => Settled(i, tracker)'
  BY <1>2 DEF Settled, Marked
<1>8. Arrived(i) => Arrived(i)'
  BY <1>6, <1>7 DEF Arrived
<1>9. Excepted(i) => Excepted(i)'
  BY <1>2 DEF Excepted
<1> QED
  BY <1>2, <1>3, <1>4, <1>5, <1>8, <1>9 DEF Marks

\* A modal that is open for an issue excludes its writes, and a write excludes the modal.
LEMMA IdleNothing == ASSUME WTypes, NEW i \in Issue PROVE UnderWay(i) <=> Of(i) # {}
<1>1. \A w \in Write : writes[w].issue = i => writes[w].phase # "idle"
  BY IssueAssumption DEF WTypes, WriteTypes, Idle
<1> QED
  BY <1>1 DEF UnderWay, Of

LEMMA FlowAlone ==
  ASSUME WInv, NEW i \in Issue \ disturbed, modal.issue = i PROVE ~Marked(i) /\ Of(i) = {}
BY DEF WInv, Turns

\* What every step has to keep.
Sound == Whole /\ \A i \in Issue \ disturbed : Turns(i) /\ (others = 0 => Marks(i))

\* The steps of the modal flow that start no command.
LEMMA FlowSound ==
  ASSUME WInv, UNCHANGED <<loadVars, pending>>, disturbed \subseteq disturbed',
         \A w \in Write : /\ writes'[w].issue = writes[w].issue
                          /\ writes'[w] = writes[w] \/ writes[w].issue = modal.issue,
         \A i \in Issue \ disturbed' : modal'.issue = i => modal.issue = i \/ (~Marked(i) /\ Of(i) = {}),
         \A i \in Issue, f \in Longform : \/ owed'[i][f] = None
                                          \/ owed'[i][f] = owed[i][f] /\ drafts'[i][f] = drafts[i][f]
                                          \/ i = modal.issue /\ owed'[i][f] = drafts'[i][f]
  PROVE  Sound'
<1>1. Whole'
  BY DEF WInv, Whole, loadVars
<1>2. ASSUME NEW i \in Issue \ disturbed' PROVE Turns(i)' /\ (others' = 0 => Marks(i)')
  <2>1. i \in Issue \ disturbed /\ Turns(i) /\ (modal.issue = i => Of(i) = {})
    BY <1>2, FlowAlone DEF WInv
  <2>2. WritesSame(i) /\ pending'[i] = pending[i] /\ (Marked(i)' => Marked(i))
    BY <2>1 DEF WritesSame, Of, Marked
  <2>3. Turns(i)'
    BY <1>2, <2>1, <2>2, TurnsElsewhere
  <2>4. ASSUME others' = 0 PROVE Marks(i)'
    <3>1. Marks(i) /\ i \in DOMAIN tracker'
      BY <2>1, <2>4 DEF WInv, Whole, loadVars
    <3> QED
      BY <2>1, <2>2, <3>1, MarksElsewhere DEF Untouched, loadVars
  <2> QED
    BY <2>3, <2>4
<1> QED
  BY <1>1, <1>2 DEF Sound

LEMMA WInvIs == WInv <=> WTypes /\ Sound
BY DEF WInv, Sound

\* A new content of the edit file leaves everything else of the commands what it was.
LEMMA SavedIs ==
  ASSUME WTypes, NEW i \in Issue, NEW f, NEW t \in Value
  PROVE  /\ Saved(i, f, t) \in [Write -> Commands]
         /\ \A w \in Write : LET x == Saved(i, f, t)[w] IN
              /\ x.phase = writes[w].phase /\ x.issue = writes[w].issue /\ x.field = writes[w].field
              /\ writes[w].issue # i => x = writes[w]
              /\ writes[w].phase = "idle" => x = Idle
<1>1. ASSUME NEW w \in Write
      PROVE  LET x == Saved(i, f, t)[w] IN
              /\ x \in Commands
              /\ x.phase = writes[w].phase /\ x.issue = writes[w].issue /\ x.field = writes[w].field
              /\ writes[w].issue # i => x = writes[w]
              /\ writes[w].phase = "idle" => x = Idle
  <2>1. writes[w] \in Commands /\ (writes[w].phase = "idle" => writes[w] = Idle)
    BY DEF WTypes, WriteTypes
  <2>2. Saved(i, f, t)[w] = IF writes[w].issue = i /\ writes[w].field = f /\ f \in Tempfile
                            THEN [writes[w] EXCEPT !.file = t] ELSE writes[w]
    BY DEF Saved
  <2>3. [writes[w] EXCEPT !.file = t] \in Commands
    BY <2>1 DEF Commands
  <2>4. LET x == [writes[w] EXCEPT !.file = t] IN
          x.phase = writes[w].phase /\ x.issue = writes[w].issue /\ x.field = writes[w].field
    BY <2>1 DEF Commands
  <2>5. writes[w].phase = "idle" => writes[w].issue # i
    BY <2>1, IssueAssumption DEF Idle
  <2> QED
    BY <2>1, <2>2, <2>3, <2>4, <2>5
<1>2. Saved(i, f, t) = [w \in Write |-> Saved(i, f, t)[w]]
  BY DEF Saved
<1> QED
  BY <1>1, <1>2

\* One text of one issue.
LEMMA TextIs ==
  ASSUME NEW d \in [Issue -> [Longform -> Value]], NEW i \in Issue, NEW f \in Longform, NEW t \in Value
  PROVE  LET n == [d EXCEPT ![i][f] = t] IN
         /\ n \in [Issue -> [Longform -> Value]] /\ n[i][f] = t
         /\ \A j \in Issue, g \in Longform : j # i \/ g # f => n[j][g] = d[j][g]
<1>1. [d[i] EXCEPT ![f] = t] \in [Longform -> Value]
  BY Zenon
<1> QED
  BY <1>1

\* One field of one issue.
Updated(v, n, i, f, S) == n = [v EXCEPT ![i][f] = S]
LEMMA ViewIs ==
  ASSUME NEW v, View(v), NEW i \in DOMAIN v, NEW f \in Fields, NEW S \in SUBSET Value,
         NEW n, Updated(v, n, i, f, S)
  PROVE  /\ View(n) /\ DOMAIN n = DOMAIN v /\ n[i][f] = S
         /\ \A g \in Fields : g # f => n[i][g] = v[i][g]
         /\ \A j \in DOMAIN v : j # i => n[j] = v[j]
<1>1. PICK D \in SUBSET Issue : v \in [D -> Records]
  BY DEF View
<1> DEFINE row == [v[i] EXCEPT ![f] = S]
<1>2. row \in Records /\ row[f] = S /\ \A g \in Fields : g # f => row[g] = v[i][g]
  <2>1. v[i] \in [Fields -> SUBSET Value]
    BY <1>1 DEF Records, Value
  <2> QED
    BY <2>1 DEF Records, Value
<1>3. n = [v EXCEPT ![i] = row]
  BY DEF Updated
<1> HIDE DEF row
<1>4. n \in [D -> Records] /\ n[i] = row /\ DOMAIN n = DOMAIN v /\ \A j \in DOMAIN v : j # i => n[j] = v[j]
  BY <1>1, <1>2, <1>3
<1>5. View(n)
  BY <1>4 DEF View
<1> QED
  BY <1>2, <1>4, <1>5

\* What a modal with an issue, or without, is.
LEMMA ModalIs ==
  ASSUME WTypes
  PROVE  /\ modal.issue \in Issue \cup {None} /\ modal.field \in FieldOrNone
         /\ Closed \in [kind : {"none", "claim", "select", "input", "longform", "agent"},
                        issue : Issue \cup {None}, field : FieldOrNone]
         /\ NoBuffer \in [text : Value, original : Value, armed : BOOLEAN]
BY DEF WTypes, ModalTypes, Closed, NoBuffer, Value, FieldOrNone

\* The steps of the modal flow, as far as they only move the modal.
Moves == Cancel \/ BackFromInput \/ Type \/ AgentCheck \/ AgentAnswer \/ \E f \in Short \cup Longform : Open(f)

LEMMA MovesTyped == ASSUME WTypes, Moves PROVE WTypes'
<1> USE DEF Moves
<1>0. edits \in Value /\ edits \in Nat /\ None \in Value
  BY BoundsAssumption DEF WTypes, ModalTypes, Value, Texts, Foreign, None
<1>1. LoadTypes' /\ TextTypes' /\ WriteTypes'
  <2>1. UNCHANGED <<loadVars, textVars, pending, writes, disturbed>>
    BY DEF Cancel, BackFromInput, Type, AgentCheck, AgentAnswer, Open, Key, markVars
  <2>2. LoadTypes'
    BY <2>1 DEF WTypes, LoadTypes, loadVars, View
  <2>3. TextTypes'
    BY <2>1 DEF WTypes, TextTypes, textVars
  <2>4. WriteTypes'
    BY <2>1 DEF WTypes, WriteTypes, Marked
  <2> QED
    BY <2>2, <2>3, <2>4
<1>2. ModalTypes'
  <2>1. CASE Cancel
    BY <2>1 DEF Cancel, WTypes, ModalTypes, Closed, FieldOrNone, markVars
  <2>2. CASE BackFromInput
    BY <2>2, ModalIs DEF BackFromInput, Back, WTypes, ModalTypes, FieldOrNone, markVars
  <2>3. CASE Type
    BY <2>3, <1>0 DEF Type, Typed, WTypes, ModalTypes, markVars
  <2>4. CASE AgentCheck
    BY <2>4, ModalIs DEF AgentCheck, Closed, WTypes, ModalTypes, FieldOrNone, markVars
  <2>5. CASE AgentAnswer
    BY <2>5 DEF AgentAnswer, WTypes, ModalTypes, Closed, FieldOrNone, markVars
  <2>6. ASSUME NEW f \in Short \cup Longform, Open(f) PROVE ModalTypes'
    <3>1. CASE modal.issue \notin DOMAIN shown
      BY <2>6, <3>1 DEF Open, WTypes, ModalTypes, Closed, FieldOrNone
    <3>2. CASE modal.issue \in DOMAIN shown
      <4>1. modal.issue \in Issue
        BY <2>6 DEF Open, WTypes, ModalTypes
      <4>2. f \in Fields /\ f \in FieldOrNone
        BY DEF Fields, FieldOrNone
      <4>3. Present(modal.issue, f) \in Value
        <5>1. shown[modal.issue][f] \in SUBSET Value
          BY <3>2, <4>2 DEF WTypes, LoadTypes, View, Records, Value
        <5> QED
          BY <1>0, <5>1 DEF Present
      <4>4. f \notin Short => f \in Longform /\ drafts[modal.issue][f] \in Value
        BY <4>1 DEF WTypes, TextTypes
      <4>5. buffer' \in [text : Value, original : Value, armed : BOOLEAN]
        <5>1. CASE f \in Short
          BY <2>6, <3>2, <5>1 DEF Open, WTypes, ModalTypes
        <5>2. CASE f \notin Short
          <6> DEFINE x == IF drafts[modal.issue][f] # None THEN drafts[modal.issue][f] ELSE Present(modal.issue, f)
          <6>1. buffer' = [text |-> x, original |-> Present(modal.issue, f), armed |-> FALSE]
            BY <2>6, <3>2, <5>2 DEF Open
          <6>2. x \in Value
            BY <4>3, <4>4, <5>2
          <6> HIDE DEF x
          <6> QED
            BY <4>3, <6>1, <6>2
        <5> QED
          BY <5>1, <5>2
      <4>6. modal' = [kind |-> IF f \in Short THEN "input" ELSE "longform", issue |-> modal.issue, field |-> f]
        BY <2>6, <3>2 DEF Open
      <4>7. edits' \in 0..MaxEdits
        BY <2>6, <3>2, BoundsAssumption DEF Open, WTypes, ModalTypes
      <4> QED
        BY <4>1, <4>2, <4>4, <4>5, <4>6, <4>7 DEF ModalTypes
    <3> QED
      BY <3>1, <3>2
  <2> QED
    BY <2>1, <2>2, <2>3, <2>4, <2>5, <2>6
<1> QED
  BY <1>1, <1>2 DEF WTypes

LEMMA MovesSound == ASSUME WInv, Moves PROVE Sound'
<1> USE DEF Moves
<1>1. UNCHANGED <<loadVars, textVars, pending, writes, disturbed>>
  BY DEF Cancel, BackFromInput, Type, AgentCheck, AgentAnswer, Open, Key, markVars
<1>2. modal'.issue \in {None, modal.issue}
  <2>1. CASE \E f \in Short \cup Longform : Open(f)
    BY <2>1 DEF Open, Closed
  <2>2. CASE Cancel \/ AgentAnswer \/ AgentCheck
    BY <2>2 DEF Cancel, AgentAnswer, AgentCheck, Closed
  <2>3. CASE BackFromInput
    BY <2>3 DEF BackFromInput, Back, WInv, WTypes, ModalTypes
  <2>4. CASE Type
    BY <2>4 DEF Type
  <2> QED
    BY <2>1, <2>2, <2>3, <2>4
<1>3. \A w \in Write : writes'[w] = writes[w]
  BY <1>1
<1>4. \A i \in Issue, f \in Longform : owed'[i][f] = owed[i][f] /\ drafts'[i][f] = drafts[i][f]
  BY <1>1 DEF textVars
<1>5. \A i \in Issue : modal'.issue = i => modal.issue = i
  BY <1>2, IssueAssumption
<1> QED
  BY <1>1, <1>3, <1>4, <1>5, FlowSound

LEMMA RequestKeeps ==
  ASSUME WInv, NEW i \in Issue, NEW kind \in {"claim", "select"}, Request(i, kind)
  PROVE  WTypes' /\ Sound'
<1>1. /\ UNCHANGED <<loadVars, textVars, pending, writes, buffer, edits>> /\ ~Marked(i)
      /\ modal' = [Closed EXCEPT !.kind = kind, !.issue = i]
      /\ disturbed' = IF UnderWay(i) THEN disturbed \cup {i} ELSE disturbed
  BY DEF Request, Key
<1>2. WTypes'
  <2>1. LoadTypes'
    BY <1>1 DEF WInv, WTypes, LoadTypes, loadVars, View
  <2>2. TextTypes'
    BY <1>1 DEF WInv, WTypes, TextTypes, textVars
  <2>3. disturbed' \subseteq Issue
    BY <1>1 DEF WInv, WTypes, WriteTypes
  <2>4. WriteTypes'
    BY <1>1, <2>3 DEF WInv, WTypes, WriteTypes, Marked
  <2>5. modal' = [kind |-> kind, issue |-> i, field |-> "none"]
    BY <1>1 DEF Closed
  <2>6. ModalTypes'
    BY <1>1, <2>5 DEF WInv, WTypes, ModalTypes, FieldOrNone
  <2> QED
    BY <2>1, <2>2, <2>4, <2>6 DEF WTypes
<1>3. modal'.issue = i
  BY <1>1 DEF Closed
<1>4. \A j \in Issue \ disturbed' : modal'.issue = j => ~Marked(j) /\ Of(j) = {}
  BY <1>1, <1>3, IdleNothing DEF WInv
<1>5. \A w \in Write : writes'[w] = writes[w]
  BY <1>1
<1>6. \A j \in Issue, f \in Longform : owed'[j][f] = owed[j][f] /\ drafts'[j][f] = drafts[j][f]
  BY <1>1 DEF textVars
<1>7. disturbed \subseteq disturbed'
  BY <1>1
<1> QED
  BY <1>1, <1>2, <1>4, <1>5, <1>6, <1>7, FlowSound

\* A text that the user leaves is a draft, and is not owed.
LEMMA EscapeKeeps == ASSUME WInv, Escape PROVE WTypes' /\ Sound'
<1> DEFINE i == modal.issue
           f == modal.field
<1>1. /\ UNCHANGED <<loadVars, pending, writes, disturbed, edits>>
      /\ modal.kind = "longform" /\ i \in Issue /\ f \in Longform /\ modal'.issue = i
  <2>1. modal.kind = "longform" /\ i \in Issue /\ f \in Longform
    BY DEF Escape, WInv, WTypes, ModalTypes
  <2>2. modal'.issue = i
    BY DEF Escape, Back, WInv, WTypes, ModalTypes
  <2> QED
    BY <2>1, <2>2 DEF Escape, Key, markVars
<1>2. ModalTypes'
  <2>1. CASE Back
    BY <1>1, <2>1, ModalIs DEF Back, WInv, WTypes, ModalTypes, FieldOrNone
  <2>2. CASE ~Back
    BY <1>1, <2>2 DEF Escape, WInv, WTypes, ModalTypes
  <2> QED
    BY <2>1, <2>2
<1>3. PICK t \in Value : Stash(t) \/ UNCHANGED <<drafts, owed>>
  <2>1. None \in Value /\ buffer.text \in Value
    BY DEF Value, WInv, WTypes, ModalTypes
  <2> QED
    BY <2>1 DEF Escape
<1>4. \A j \in Issue, g \in Longform : \/ owed'[j][g] = None
                                       \/ owed'[j][g] = owed[j][g] /\ drafts'[j][g] = drafts[j][g]
  <2>1. CASE Stash(t)
    <3>1. \A j \in Issue, g \in Longform : j # i \/ g # f => owed'[j][g] = owed[j][g] /\ drafts'[j][g] = drafts[j][g]
      BY <1>1, <2>1 DEF Stash, WInv, WTypes, TextTypes
    <3>2. owed'[i][f] = None
      BY <1>1, <2>1 DEF Stash, WInv, WTypes, TextTypes
    <3> QED
      BY <3>1, <3>2
  <2> QED
    BY <1>3, <2>1
<1>5. TextTypes'
  <2>1. None \in Value
    BY DEF Value
  <2> QED
    <3>1. drafts \in [Issue -> [Longform -> Value]] /\ owed \in [Issue -> [Longform -> Value]]
      BY DEF WInv, WTypes, TextTypes
    <3>2. [drafts EXCEPT ![i][f] = t] \in [Issue -> [Longform -> Value]]
      BY <1>1, <1>3, <3>1, TextIs, Zenon
    <3>3. [owed EXCEPT ![i][f] = None] \in [Issue -> [Longform -> Value]]
      BY <1>1, <2>1, <3>1, TextIs, Zenon
    <3> QED
      BY <1>3, <3>1, <3>2, <3>3, Zenon DEF Stash, TextTypes
<1>6. LoadTypes' /\ WriteTypes'
  BY <1>1 DEF WInv, WTypes, LoadTypes, WriteTypes, loadVars, View, Marked
<1>7. \A w \in Write : writes'[w] = writes[w]
  BY <1>1
<1> QED
  BY <1>1, <1>2, <1>4, <1>5, <1>6, <1>7, FlowSound DEF WTypes

\* The editor, and what it writes.
LEMMA EditorKeeps == ASSUME WInv, Escalate \/ EditorFinished PROVE WTypes' /\ Sound'
<1>1. UNCHANGED <<loadVars, textVars, pending, disturbed, modal, edits>>
  BY DEF Escalate, EditorFinished, Key
<1>2. UNCHANGED <<buffer, writes>> \/ \E t \in Value : /\ modal.kind = "longform"
                                                       /\ writes' = Saved(modal.issue, modal.field, t)
                                                       /\ buffer' = [buffer EXCEPT !.text = t, !.armed = FALSE]
  <2>1. buffer.text \in Value /\ edits \in Value
    BY BoundsAssumption DEF WInv, WTypes, ModalTypes, Value, Texts, Foreign, None
  <2>2. CASE Escalate
    <3>1. [buffer EXCEPT !.armed = FALSE] = [buffer EXCEPT !.text = buffer.text, !.armed = FALSE]
      BY DEF WInv, WTypes, ModalTypes
    <3> QED
      BY <2>1, <2>2, <3>1 DEF Escalate
  <2>3. CASE EditorFinished
    BY <2>1, <2>3 DEF EditorFinished, Typed
  <2> QED
    BY <2>2, <2>3
<1>3. /\ writes' \in [Write -> Commands]
      /\ \A w \in Write : /\ writes'[w].phase = writes[w].phase /\ writes'[w].issue = writes[w].issue
                          /\ writes'[w].field = writes[w].field
                          /\ writes[w].issue # modal.issue => writes'[w] = writes[w]
                          /\ writes[w].phase = "idle" => writes'[w] = Idle
  <2>1. CASE UNCHANGED <<buffer, writes>>
    BY <2>1 DEF WInv, WTypes, WriteTypes
  <2>2. CASE ~UNCHANGED <<buffer, writes>>
    <3>1. PICK t \in Value : modal.kind = "longform" /\ writes' = Saved(modal.issue, modal.field, t)
      BY <1>2, <2>2
    <3>2. modal.issue \in Issue
      BY <3>1 DEF WInv, WTypes, ModalTypes
    <3> QED
      BY <3>1, <3>2, SavedIs DEF WInv
  <2> QED
    BY <2>1, <2>2
<1>4. ModalTypes'
  BY <1>1, <1>2 DEF WInv, WTypes, ModalTypes
<1>5. LoadTypes' /\ TextTypes'
  BY <1>1 DEF WInv, WTypes, LoadTypes, TextTypes, loadVars, textVars, View
<1>6. WriteTypes'
  BY <1>1, <1>3 DEF WInv, WTypes, WriteTypes, Marked
<1>7. \A j \in Issue, g \in Longform : owed'[j][g] = owed[j][g] /\ drafts'[j][g] = drafts[j][g]
  BY <1>1 DEF textVars
<1> QED
  BY <1>1, <1>3, <1>4, <1>5, <1>6, <1>7, FlowSound DEF WTypes

-----------------------------------------------------------------------------
(* The commit.                                                             *)

\* What the row waits for is what the command writes.
Promises(f, text, target) ==
  /\ f \notin Additive \cup {"claim", "comment"} => target = {text}
  /\ f \in Added /\ modal.issue \in DOMAIN shown => target = shown[modal.issue][f] \cup {text}

\* The commands when a command is started, or none.
Started(f, text, target, running) ==
  LET i == modal.issue IN
  /\ i \in DOMAIN shown
  /\ pending' = [pending EXCEPT ![i] = [field |-> f, target |-> target]]
  /\ \E w \in Write :
       /\ writes[w] = Idle
       /\ writes' = [running EXCEPT ![w] = [phase |-> "running", issue |-> i, field |-> f,
                                           text |-> text, file |-> text]]
Runs(running) ==
  /\ running \in [Write -> Commands]
  /\ \A w \in Write : /\ running[w].phase = writes[w].phase /\ running[w].issue = writes[w].issue
                      /\ running[w].field = writes[w].field
                      /\ writes[w].issue # modal.issue => running[w] = writes[w]
                      /\ writes[w].phase = "idle" => running[w] = Idle

LEMMA DispatchTyped ==
  ASSUME WTypes, NEW f \in Fields, NEW text \in Value, NEW target \in SUBSET Value, NEW running, Runs(running),
         modal.issue \in Issue, Dispatch(f, text, target, running), UNCHANGED loadVars, edits' \in 0..MaxEdits
  PROVE  LoadTypes' /\ ModalTypes' /\ WriteTypes'
<1>0. PICK i \in Issue : i = modal.issue
  OBVIOUS
<1> DEFINE x == [phase |-> "running", issue |-> i, field |-> f, text |-> text, file |-> text]
           m == [field |-> f, target |-> target]
<1>1. LoadTypes'
  BY DEF WTypes, LoadTypes, loadVars, View
<1>2. ModalTypes'
  BY ModalIs DEF Dispatch, WTypes, ModalTypes, Closed
<1>3. x \in Commands /\ m \in [field : FieldOrNone, target : SUBSET Value] /\ m.field = f /\ x.issue = i /\ x.field = f
      /\ x.phase = "running"
  BY DEF Commands, Phases, FieldOrNone
<1>4. disturbed' \subseteq Issue
  BY DEF Dispatch, WTypes, WriteTypes
<1>5. ASSUME writes' = running, UNCHANGED pending PROVE WriteTypes'
  <2>1. writes' \in [Write -> Commands]
    BY <1>5 DEF Runs
  <2>2. ASSUME NEW v \in Write
        PROVE  /\ writes'[v].phase = "idle" => writes'[v] = Idle
               /\ writes'[v].phase # "idle" => writes'[v].issue \in Issue /\ writes'[v].field \in Fields
    BY <1>5 DEF Runs, WTypes, WriteTypes
  <2> QED
    BY <1>4, <1>5, <2>1, <2>2 DEF WTypes, WriteTypes, Marked
<1>6. ASSUME Started(f, text, target, running) PROVE WriteTypes'
  <2>1. PICK w \in Write : writes' = [running EXCEPT ![w] = x]
    BY <1>0, <1>6 DEF Started
  <2>2. pending' = [pending EXCEPT ![i] = m]
    BY <1>0, <1>6 DEF Started
  <2> HIDE DEF x, m
  <2>3. pending' \in [Issue -> [field : FieldOrNone, target : SUBSET Value]]
    BY <1>3, <2>2 DEF WTypes, WriteTypes
  <2>4. \A j \in Issue : Marked(j)' => pending'[j].field \in Fields
    BY <1>3, <2>2 DEF WTypes, WriteTypes, Marked
  <2>5. writes' \in [Write -> Commands]
    BY <1>3, <2>1 DEF Runs
  <2>6. ASSUME NEW v \in Write
        PROVE  /\ writes'[v].phase = "idle" => writes'[v] = Idle
               /\ writes'[v].phase # "idle" => writes'[v].issue \in Issue /\ writes'[v].field \in Fields
    <3>1. CASE v = w
      BY <1>3, <2>1, <3>1 DEF Runs
    <3>2. CASE v # w
      <4>1. writes'[v] = running[v]
        BY <2>1, <3>2 DEF Runs
      <4> QED
        BY <4>1 DEF Runs, WTypes, WriteTypes
    <3> QED
      BY <3>1, <3>2
  <2> QED
    BY <1>4, <2>3, <2>4, <2>5, <2>6 DEF WriteTypes
<1> QED
  BY <1>1, <1>2, <1>5, <1>6 DEF Dispatch, Started

LEMMA StartSound ==
  ASSUME WInv, NEW f \in Fields, NEW text \in Value, NEW target \in SUBSET Value, NEW running, Runs(running),
         Promises(f, text, target), f = "claim" \/ target # {},
         modal.issue \in Issue, modal' = Closed, Started(f, text, target, running), UNCHANGED <<loadVars, disturbed>>,
         f \in Longform => owed'[modal.issue][f] \in {None, text},
         \A i \in Issue, g \in Longform : \/ owed'[i][g] = None
                                          \/ owed'[i][g] = owed[i][g] /\ drafts'[i][g] = drafts[i][g]
                                          \/ i = modal.issue /\ owed'[i][g] = drafts'[i][g]
  PROVE  Sound'
<1>i. PICK i \in Issue : i = modal.issue
  OBVIOUS
<1> DEFINE x == [phase |-> "running", issue |-> i, field |-> f, text |-> text, file |-> text]
           m == [field |-> f, target |-> target]
<1>0. x.phase = "running" /\ x.issue = i /\ x.field = f /\ x.text = text /\ x.file = text
      /\ m.field = f /\ m.target = target /\ m # NoMarker
  <2>1. m # NoMarker
    BY DEF NoMarker
  <2> QED
    BY <2>1
<1>1. PICK w \in Write : writes[w] = Idle /\ writes' = [running EXCEPT ![w] = x]
  BY <1>i DEF Started
<1>2. pending' = [pending EXCEPT ![i] = m]
  BY <1>i DEF Started
<1> HIDE DEF x, m
<1>3. pending'[i] = m /\ \A j \in Issue : j # i => pending'[j] = pending[j]
  BY <1>2 DEF WInv, WTypes, WriteTypes
<1>4. writes'[w] = x /\ \A v \in Write : v # w => writes'[v] = running[v]
  BY <1>1 DEF Runs
<1>5. Idle.issue = None
  BY DEF Idle
<1>6. modal'.issue = None
  BY DEF Closed
<1>7. Whole'
  BY DEF WInv, Whole, loadVars
<1>8. ASSUME NEW j \in Issue \ disturbed, j # i PROVE Turns(j)' /\ (others' = 0 => Marks(j)')
  <2>1. Turns(j)
    BY <1>8 DEF WInv
  <2>2. WritesSame(j)
    <3>1. ASSUME NEW v \in Write, j \in {writes[v].issue, writes'[v].issue} PROVE writes'[v] = writes[v]
      <4>1. v # w
        BY <1>0, <1>1, <1>4, <1>5, <1>8, <3>1, IssueAssumption
      <4> QED
        BY <1>i, <1>4, <1>8, <3>1, <4>1 DEF Runs
    <3> QED
      BY <3>1 DEF WritesSame
  <2>3. pending'[j] = pending[j] /\ (Marked(j)' => Marked(j))
    BY <1>3, <1>8 DEF Marked
  <2>4. Turns(j)'
    BY <1>i, <1>6, <1>8, <2>1, <2>2, <2>3, TurnsElsewhere, IssueAssumption
  <2>5. ASSUME others' = 0 PROVE Marks(j)'
    <3>1. Marks(j) /\ j \in DOMAIN tracker'
      BY <1>8, <2>5 DEF WInv, Whole, loadVars
    <3> QED
      BY <2>2, <2>3, <3>1, MarksElsewhere DEF Untouched, loadVars
  <2> QED
    BY <2>4, <2>5
<1>9. ASSUME i \notin disturbed PROVE Turns(i)' /\ (others' = 0 => Marks(i)')
  <2>1. ~Marked(i) /\ Of(i) = {} /\ Turns(i)
    BY <1>i, <1>9, FlowAlone DEF WInv
  <2>2. Of(i)' = {w}
    <3>1. ASSUME NEW v \in Write, v # w PROVE writes'[v].issue # i
      BY <1>4, <2>1, <3>1 DEF Runs, Of
    <3>2. writes'[w].issue = i
      BY <1>0, <1>4
    <3> QED
      BY <3>1, <3>2 DEF Of
  <2>3. Turns(i)'
    <3>1. (modal.issue = i => ~Marked(i) /\ Of(i) = {})'
      BY <1>6, IssueAssumption
    <3>2. (\A u, v \in Of(i) : u = v)'
      BY <2>2
    <3>3. (\A v \in Of(i) : writes[v].phase = "running" => Given(writes[v]) = writes[v].text)'
      BY <1>0, <1>4, <2>2 DEF Given
    <3>4. (\A v \in Of(i) : writes[v].field \in Longform =>
             /\ writes[v].phase = "running" => owed[i][writes[v].field] \in {None, writes[v].text}
             /\ writes[v].phase = "ok" => owed[i][writes[v].field] = None)'
      BY <1>i, <1>0, <1>4, <2>2
    <3>5. (\A g \in Longform : owed[i][g] \in {None, drafts[i][g]})'
      BY <1>i, <2>1 DEF Turns
    <3> QED
      BY <3>1, <3>2, <3>3, <3>4, <3>5 DEF Turns
  <2>4. ASSUME others' = 0 PROVE Marks(i)'
    <3>1. Marks(i) /\ i \in DOMAIN shown
      BY <1>i, <1>9, <2>4 DEF WInv, Started, loadVars
    <3>2. i \notin overdue => \A g \in Added, v \in {shown} \cup snapshot : v[i][g] = tracker[i][g]
      BY <2>1, <3>1 DEF Marks, Seen
    <3>3. Seen(i)'
      BY <3>2 DEF Seen, loadVars
    <3>4. Awaited(i, x)'
      <4>1. Marked(i)' /\ pending'[i].field = f /\ pending'[i].target = target
        BY <1>0, <1>3 DEF Marked
      <4>2. f \in Added /\ i \notin overdue => tracker[i][f] \cup {text} = target
        BY <1>i, <3>1, <3>2 DEF Promises
      <4>3. UNCHANGED <<tracker, overdue>>
        BY DEF loadVars
      <4> QED
        BY <1>0, <4>1, <4>2, <4>3 DEF Awaited, Promises
    <3>5. ~Answered(i)'
      BY <1>0, <1>4, <2>2 DEF Answered
    <3> QED
      BY <1>4, <2>2, <3>3, <3>4, <3>5 DEF Marks
  <2> QED
    BY <2>3, <2>4
<1> QED
  BY <1>7, <1>8, <1>9 DEF Sound

\* A commit, refused or not.
LEMMA DispatchSound ==
  ASSUME WInv, NEW f \in Fields, NEW text \in Value, NEW target \in SUBSET Value, NEW running, Runs(running),
         Promises(f, text, target), f = "claim" \/ target # {},
         modal.issue \in Issue, Dispatch(f, text, target, running), UNCHANGED loadVars,
         f \in Longform => owed'[modal.issue][f] \in {None, text},
         \A i \in Issue, g \in Longform : \/ owed'[i][g] = None
                                          \/ owed'[i][g] = owed[i][g] /\ drafts'[i][g] = drafts[i][g]
                                          \/ i = modal.issue /\ owed'[i][g] = drafts'[i][g]
  PROVE  Sound'
<1>1. modal' = Closed /\ disturbed' = disturbed
  BY DEF Dispatch
<1>2. CASE Started(f, text, target, running)
  BY <1>1, <1>2, StartSound
<1>3. CASE writes' = running /\ pending' = pending
  <2>1. modal'.issue = None
    BY <1>1 DEF Closed
  <2>2. \A i \in Issue : modal'.issue # i
    BY <2>1, IssueAssumption
  <2>3. \A w \in Write : /\ writes'[w].issue = writes[w].issue
                         /\ writes'[w] = writes[w] \/ writes[w].issue = modal.issue
    BY <1>3 DEF Runs
  <2> QED
    BY <1>1, <1>3, <2>2, <2>3, FlowSound
<1> QED
  BY <1>2, <1>3 DEF Dispatch, Started

LEMMA WritesRun == ASSUME WTypes PROVE Runs(writes)
BY DEF Runs, WTypes, WriteTypes

LEMMA CommitKeeps == ASSUME WInv, ConfirmClaim \/ CommitInput PROVE WTypes' /\ Sound'
<1>1. /\ UNCHANGED <<loadVars, textVars>> /\ modal.issue \in Issue
      /\ Runs(writes) /\ WTypes /\ edits' \in 0..MaxEdits
  <2>1. modal.issue \in Issue /\ edits' \in 0..MaxEdits
    BY BoundsAssumption DEF ConfirmClaim, CommitInput, WInv, WTypes, ModalTypes
  <2> QED
    BY <2>1, WritesRun DEF ConfirmClaim, CommitInput, Key, WInv
<1>2. \E f \in Fields, text \in Value, target \in SUBSET Value :
        /\ Dispatch(f, text, target, writes) /\ f \notin Longform
        /\ Promises(f, text, target) /\ (f = "claim" \/ target # {})
  <2>1. CASE ConfirmClaim
    <3>1. Dispatch("claim", None, {}, writes)
      BY <2>1 DEF ConfirmClaim
    <3>2. "claim" \in Fields /\ None \in Value /\ {} \in SUBSET Value /\ "claim" \notin Longform
      BY FieldsAssumption DEF Fields, Value
    <3>3. Promises("claim", None, {})
      BY FieldsAssumption DEF Promises, Added
    <3> QED
      BY <3>1, <3>2, <3>3
  <2>2. CASE CommitInput
    <3>1. Dispatch(modal.field, Typed, {Typed}, writes)
      BY <2>2 DEF CommitInput
    <3>2. modal.field \in Short
      BY <2>2 DEF CommitInput, WInv, WTypes, ModalTypes
    <3>3. Typed \in Value
      BY BoundsAssumption DEF WInv, WTypes, ModalTypes, Typed, Value, Texts, Foreign, None
    <3>4. modal.field \in Fields /\ modal.field \notin Longform /\ modal.field \notin Added
      BY <3>2, FieldsAssumption DEF Fields, Added
    <3>5. Promises(modal.field, Typed, {Typed})
      BY <3>4 DEF Promises
    <3> QED
      BY <3>1, <3>3, <3>4, <3>5
  <2> QED
    BY <2>1, <2>2
<1>3. PICK f \in Fields, text \in Value, target \in SUBSET Value :
        /\ Dispatch(f, text, target, writes) /\ f \notin Longform
        /\ Promises(f, text, target) /\ (f = "claim" \/ target # {})
  BY <1>2
<1>4. LoadTypes' /\ ModalTypes' /\ WriteTypes'
  BY <1>1, <1>3, DispatchTyped
<1>5. TextTypes'
  BY <1>1 DEF WTypes, TextTypes, textVars
<1>6. \A i \in Issue, g \in Longform : owed'[i][g] = owed[i][g] /\ drafts'[i][g] = drafts[i][g]
  BY <1>1 DEF textVars
<1>7. Sound'
  BY <1>1, <1>3, <1>6, DispatchSound
<1> QED
  BY <1>4, <1>5, <1>7 DEF WTypes

LEMMA CommitLongformKeeps == ASSUME WInv, CommitLongform PROVE WTypes' /\ Sound'
<1>1. PICK i \in Issue : i = modal.issue
  BY DEF CommitLongform, CommitLongformWith, WInv, WTypes, ModalTypes
<1>2. PICK f \in Longform : f = modal.field
  BY DEF CommitLongform, CommitLongformWith, WInv, WTypes, ModalTypes
<1>3. PICK t \in Value : t = buffer.text
  BY DEF WInv, WTypes, ModalTypes
<1>4. /\ UNCHANGED <<loadVars, edits>>
      /\ drafts' = IF Dirty THEN [drafts EXCEPT ![i][f] = t] ELSE drafts
      /\ owed' = [owed EXCEPT ![i][f] = IF Dirty THEN t ELSE None]
      /\ Dispatch(f, t, Target(i, f, t), Saved(i, f, t))
  BY <1>1, <1>2, <1>3 DEF CommitLongform, CommitLongformWith, Key
<1>5. PICK target \in SUBSET Value : target = Target(i, f, t)
  <2>1. i \in DOMAIN shown => shown[i][f] \in SUBSET Value
    BY DEF WInv, WTypes, LoadTypes, View, Records, Value, Fields
  <2> QED
    BY <2>1 DEF Target
<1>6. f \in Fields /\ f # "claim" /\ target # {} /\ Promises(f, t, target)
  <2>1. f \in Fields /\ f # "claim"
    BY FieldsAssumption DEF Fields
  <2>2. target # {}
    BY <1>5 DEF Target
  <2>3. Promises(f, t, target)
    BY <1>1, <1>5 DEF Promises, Target, Added
  <2> QED
    BY <2>1, <2>2, <2>3
<1>7. PICK running : running = Saved(i, f, t)
  OBVIOUS
<1>8. Runs(running)
  BY <1>1, <1>7, SavedIs DEF Runs, WInv
<1>9. PICK o \in {None, t} : o = IF Dirty THEN t ELSE None
  OBVIOUS
<1>10. None \in Value /\ drafts \in [Issue -> [Longform -> Value]] /\ owed \in [Issue -> [Longform -> Value]]
  BY DEF Value, WInv, WTypes, TextTypes
<1>11. /\ owed' \in [Issue -> [Longform -> Value]] /\ owed'[i][f] = o
       /\ \A j \in Issue, g \in Longform : j # i \/ g # f => owed'[j][g] = owed[j][g]
  <2>1. owed' = [owed EXCEPT ![i][f] = o] /\ o \in Value
    BY <1>4, <1>9, <1>10
  <2> QED
    BY <1>10, <2>1, TextIs
<1>12. /\ drafts' \in [Issue -> [Longform -> Value]]
       /\ o = None \/ drafts'[i][f] = o
       /\ \A j \in Issue, g \in Longform : j # i \/ g # f => drafts'[j][g] = drafts[j][g]
  <2>1. CASE Dirty
    <3>1. drafts' = [drafts EXCEPT ![i][f] = t] /\ o = t
      BY <1>4, <1>9, <2>1
    <3> QED
      BY <1>10, <3>1, TextIs
  <2>2. CASE ~Dirty
    BY <1>4, <1>9, <1>10, <2>2
  <2> QED
    BY <2>1, <2>2
<1>13. TextTypes'
  BY <1>11, <1>12 DEF TextTypes
<1>14. edits' \in 0..MaxEdits /\ WTypes
  BY <1>4 DEF WInv, WTypes, ModalTypes
<1>15. Dispatch(f, t, target, running)
  BY <1>4, <1>5, <1>7
<1>16. LoadTypes' /\ ModalTypes' /\ WriteTypes'
  BY <1>1, <1>4, <1>6, <1>8, <1>14, <1>15, DispatchTyped
<1>17. \A j \in Issue, g \in Longform : \/ owed'[j][g] = None
                                        \/ owed'[j][g] = owed[j][g] /\ drafts'[j][g] = drafts[j][g]
                                        \/ j = modal.issue /\ owed'[j][g] = drafts'[j][g]
  BY <1>1, <1>11, <1>12
<1>18. owed'[modal.issue][f] \in {None, t}
  BY <1>1, <1>11
<1>19. Sound'
  BY <1>1, <1>4, <1>6, <1>8, <1>15, <1>17, <1>18, DispatchSound
<1> QED
  BY <1>13, <1>16, <1>19 DEF WTypes

-----------------------------------------------------------------------------
(* The commands.                                                           *)

LEMMA BdRunsKeeps == ASSUME WInv, NEW w \in Write, BdRuns(w) PROVE WTypes' /\ Sound'
<1>1. PICK x \in Commands : x = writes[w]
  BY DEF WInv, WTypes, WriteTypes
<1>2. PICK i \in Issue : i = x.issue
  BY <1>1 DEF BdRuns, WInv, WTypes, WriteTypes
<1>3. PICK f \in Fields : f = x.field
  BY <1>1 DEF BdRuns, WInv, WTypes, WriteTypes
<1>4. x.phase = "running"
  BY <1>1 DEF BdRuns
<1>5. PICK ok \in BOOLEAN, done \in BOOLEAN :
        /\ ok => done
        /\ done => i \in DOMAIN tracker
        /\ writes' = [writes EXCEPT ![w].phase = IF ok THEN "ok" ELSE "failed"]
        /\ tracker' = IF done THEN [tracker EXCEPT ![i][f] = Written(x, tracker[i][f])] ELSE tracker
        /\ owed' = IF done /\ f \in Longform /\ owed[i][f] = Given(x)
                   THEN [owed EXCEPT ![i][f] = None] ELSE owed
        /\ disturbed' = IF done /\ ~ok THEN disturbed \cup {i} ELSE disturbed
        /\ changed' = (changed \/ done)
  BY <1>1, <1>2, <1>3 DEF BdRuns
<1>6. UNCHANGED <<feed, snapshot, shown, modal, buffer, edits, drafts, pending, overdue, others>>
  BY DEF BdRuns
<1>7. PICK g \in Value : g = Given(x)
  BY DEF Commands, Given
<1>8. PICK y : y = [x EXCEPT !.phase = IF ok THEN "ok" ELSE "failed"]
  OBVIOUS
<1>9. /\ y \in Commands /\ y.phase = (IF ok THEN "ok" ELSE "failed") /\ y.issue = i /\ y.field = f
      /\ y.text = x.text /\ y.file = x.file
  BY <1>2, <1>3, <1>8 DEF Commands, Phases
<1>10. writes' \in [Write -> Commands] /\ writes'[w] = y /\ \A v \in Write : v # w => writes'[v] = writes[v]
  <2>1. writes' = [writes EXCEPT ![w] = y] /\ writes \in [Write -> Commands]
    BY <1>1, <1>5, <1>8 DEF WInv, WTypes, WriteTypes
  <2> QED
    BY <1>9, <2>1
<1>11. /\ View(tracker)' /\ DOMAIN tracker' = DOMAIN tracker
       /\ \A j \in DOMAIN tracker : j # i => tracker'[j] = tracker[j]
       /\ \A h \in Fields : i \in DOMAIN tracker /\ h # f => tracker'[i][h] = tracker[i][h]
       /\ done => tracker'[i][f] = Written(x, tracker[i][f])
       /\ ~done => tracker' = tracker
  <2>1. View(tracker)
    BY DEF WInv, WTypes, LoadTypes
  <2>2. CASE ~done
    BY <1>5, <2>1, <2>2 DEF View
  <2>3. CASE done
    <3>1. tracker[i][f] \in SUBSET Value
      BY <1>5, <2>1, <2>3 DEF View, Records, Value
    <3>2. PICK S \in SUBSET Value : S = Written(x, tracker[i][f])
      BY <1>7, <3>1 DEF Written
    <3>3. tracker' = [tracker EXCEPT ![i][f] = S]
      BY <1>5, <2>3, <3>2
    <3>4. PICK n : n = tracker'
      OBVIOUS
    <3>5. /\ View(n) /\ DOMAIN n = DOMAIN tracker /\ n[i][f] = S
          /\ \A h \in Fields : h # f => n[i][h] = tracker[i][h]
          /\ \A j \in DOMAIN tracker : j # i => n[j] = tracker[j]
      <4>1. i \in DOMAIN tracker
        BY <1>5, <2>3
      <4>2. Updated(tracker, n, i, f, S)
        BY <3>3, <3>4 DEF Updated
      <4> QED
        BY <2>1, <4>1, <4>2, ViewIs
    <3>6. View(tracker)'
      BY <3>4, <3>5 DEF View
    <3> QED
      BY <2>3, <3>2, <3>4, <3>5, <3>6
  <2> QED
    BY <2>2, <2>3
<1>12. owed \in [Issue -> [Longform -> Value]] /\ drafts \in [Issue -> [Longform -> Value]] /\ None \in Value
  BY DEF WInv, WTypes, TextTypes, Value
<1>13. /\ owed' \in [Issue -> [Longform -> Value]]
       /\ \A j \in Issue, h \in Longform : owed'[j][h] \in {None, owed[j][h]}
       /\ \A j \in Issue, h \in Longform : j # i => owed'[j][h] = owed[j][h]
       /\ done /\ f \in Longform => owed'[i][f] # g \/ g = None
  <2>1. CASE done /\ f \in Longform /\ owed[i][f] = g
    <3>1. owed' = [owed EXCEPT ![i][f] = None]
      BY <1>5, <1>7, <2>1
    <3> QED
      BY <1>12, <2>1, <3>1, TextIs
  <2>2. CASE ~(done /\ f \in Longform /\ owed[i][f] = g)
    <3>1. owed' = owed
      BY <1>5, <1>7, <2>2
    <3> QED
      BY <1>12, <2>2, <3>1
  <2> QED
    BY <2>1, <2>2
<1>14. WTypes'
  <2>1. LoadTypes'
    <3>1. changed' \in BOOLEAN
      BY <1>5, Zenon
    <3> QED
      BY <1>6, <1>11, <3>1 DEF WInv, WTypes, LoadTypes, View
  <2>2. ModalTypes'
    BY <1>6 DEF WInv, WTypes, ModalTypes
  <2>3. TextTypes'
    BY <1>6, <1>12, <1>13 DEF TextTypes
  <2>4. disturbed' \subseteq Issue
    BY <1>5 DEF WInv, WTypes, WriteTypes
  <2>5. ASSUME NEW v \in Write
        PROVE  /\ writes'[v].phase = "idle" => writes'[v] = Idle
               /\ writes'[v].phase # "idle" => writes'[v].issue \in Issue /\ writes'[v].field \in Fields
    <3>1. CASE v = w
      BY <1>9, <1>10, <3>1
    <3>2. CASE v # w
      BY <1>10, <3>2 DEF WInv, WTypes, WriteTypes
    <3> QED
      BY <3>1, <3>2
  <2>6. WriteTypes'
    BY <1>6, <1>10, <2>4, <2>5 DEF WInv, WTypes, WriteTypes, Marked
  <2> QED
    BY <2>1, <2>2, <2>3, <2>6 DEF WTypes
<1>15. Whole'
  BY <1>6, <1>11 DEF WInv, Whole
<1>16. (Marked(i)' <=> Marked(i)) /\ pending'[i] = pending[i]
  BY <1>6 DEF Marked
<1>17. ASSUME NEW j \in Issue \ disturbed', j # i PROVE Turns(j)' /\ (others' = 0 => Marks(j)')
  <2>1. j \in Issue \ disturbed /\ Turns(j)
    BY <1>5, <1>17 DEF WInv
  <2>2. WritesSame(j) /\ pending'[j] = pending[j] /\ (Marked(j)' => Marked(j))
    <3>1. ASSUME NEW v \in Write, j \in {writes[v].issue, writes'[v].issue} PROVE writes'[v] = writes[v]
      BY <1>1, <1>2, <1>9, <1>10, <1>17, <3>1
    <3> QED
      BY <1>6, <3>1 DEF WritesSame, Marked
  <2>3. \A h \in Longform : owed'[j][h] = owed[j][h] /\ drafts'[j][h] = drafts[j][h]
    BY <1>6, <1>13, <1>17
  <2>4. Turns(j)'
    BY <1>6, <2>1, <2>2, <2>3, TurnsElsewhere
  <2>5. ASSUME others' = 0 PROVE Marks(j)'
    <3>1. Marks(j) /\ j \in DOMAIN tracker /\ j \in DOMAIN tracker'
      BY <1>6, <1>11, <2>1, <2>5 DEF WInv, Whole
    <3>2. tracker'[j] = tracker[j] /\ (changed => changed')
      BY <1>5, <1>11, <1>17, <3>1
    <3> QED
      BY <1>6, <2>2, <3>1, <3>2, MarksElsewhere DEF Untouched
  <2> QED
    BY <2>4, <2>5
<1>18. ASSUME i \notin disturbed' PROVE Turns(i)' /\ (others' = 0 => Marks(i)')
  <2>1. i \notin disturbed /\ Turns(i) /\ (done <=> ok)
    BY <1>5, <1>18 DEF WInv
  <2>2. Of(i) = {w} /\ Of(i)' = {w}
    <3>1. w \in Of(i)
      BY <1>1, <1>2 DEF Of
    <3>2. Of(i) = {w}
      BY <2>1, <3>1 DEF Turns
    <3>3. ASSUME NEW v \in Write PROVE writes'[v].issue = i <=> writes[v].issue = i
      BY <1>1, <1>2, <1>9, <1>10
    <3> QED
      BY <3>2, <3>3 DEF Of
  <2>3. g = x.text /\ (f \in Longform => owed[i][f] \in {None, x.text})
    BY <1>1, <1>3, <1>4, <1>7, <2>1, <2>2 DEF Turns
  <2>4. Turns(i)'
    <3>1. (modal.issue = i => ~Marked(i) /\ Of(i) = {})'
      BY <1>6, <2>1, <2>2 DEF Turns
    <3>2. (\A u, v \in Of(i) : u = v)'
      BY <2>2
    <3>3. (\A v \in Of(i) : writes[v].phase = "running" => Given(writes[v]) = writes[v].text)'
      BY <1>9, <1>10, <2>2
    <3>4. (\A v \in Of(i) : writes[v].field \in Longform =>
             /\ writes[v].phase = "running" => owed[i][writes[v].field] \in {None, writes[v].text}
             /\ writes[v].phase = "ok" => owed[i][writes[v].field] = None)'
      <4>1. y.phase # "running" /\ (y.phase = "ok" => done)
        BY <1>9, <2>1
      <4>2. y.phase = "ok" /\ f \in Longform => owed'[i][f] = None
        BY <1>13, <2>3, <4>1
      <4> QED
        BY <1>9, <1>10, <2>2, <4>1, <4>2
    <3>5. (\A h \in Longform : owed[i][h] \in {None, drafts[i][h]})'
      BY <1>6, <1>13, <2>1 DEF Turns
    <3> QED
      BY <3>1, <3>2, <3>3, <3>4, <3>5 DEF Turns
  <2>5. ASSUME others' = 0 PROVE Marks(i)'
    <3>1. Marks(i) /\ i \in DOMAIN tracker /\ i \in DOMAIN tracker'
      BY <1>6, <1>11, <2>1, <2>5 DEF WInv, Whole
    <3>2. i \notin overdue => \A h \in Added, v \in {shown} \cup snapshot : v[i][h] = tracker[i][h]
      BY <1>1, <1>4, <2>2, <3>1 DEF Marks, Seen, Answered
    <3>3. Awaited(i, x)
      BY <1>1, <2>2, <3>1 DEF Marks
    <3>4. Added \subseteq Fields /\ Added \subseteq Additive /\ Additive \subseteq Longform
      BY FieldsAssumption DEF Added, Fields
    <3>5. f \in Added /\ i \notin overdue /\ done => tracker'[i][f] = IF Marked(i) THEN pending[i].target ELSE tracker[i][f]
      BY <1>3, <1>4, <1>7, <1>11, <2>3, <3>3, <3>4 DEF Awaited, Written
    <3>6. Answered(i)' <=> done
      BY <1>9, <1>10, <2>1, <2>2 DEF Answered
    <3>7. Seen(i)'
      <4>1. ASSUME i \notin overdue, NEW h \in Added, NEW v \in {shown} \cup snapshot, v[i][h] # tracker'[i][h]
            PROVE  Marked(i) /\ pending[i].field = h /\ pending[i].target = tracker'[i][h] /\ done
        <5>1. h = f /\ done
          BY <1>11, <3>1, <3>2, <3>4, <4>1
        <5>2. Marked(i) /\ tracker'[i][f] = pending[i].target
          BY <3>2, <3>5, <4>1, <5>1
        <5> QED
          BY <1>3, <3>3, <5>1, <5>2 DEF Awaited
      <4> QED
        BY <1>6, <1>16, <3>6, <4>1 DEF Seen
    <3>8. Awaited(i, y)'
      <4>1. y.phase # "running" /\ y.field = x.field
        BY <1>3, <1>9
      <4> QED
        BY <1>16, <3>3, <4>1 DEF Awaited
    <3>9. ASSUME Marked(i), done PROVE Arrived(i)' \/ Excepted(i)'
      <4>1. pending[i].field = f /\ changed'
        BY <1>3, <1>5, <3>3, <3>9 DEF Awaited
      <4>2. f \notin Tempfile \/ f \in Longform
        BY FieldsAssumption
      <4>3. CASE f = "claim"
        <5>1. tracker'[i][f] # {}
          BY <1>11, <3>9 DEF Written
        <5>2. Settled(i, tracker)'
          BY <1>16, <3>1, <3>9, <4>1, <4>3, <5>1 DEF Settled
        <5> QED
          BY <4>1, <5>2 DEF Arrived
      <4>4. CASE f = "comment"
        <5>1. Settled(i, tracker)'
          BY <1>16, <3>1, <3>9, <4>1, <4>4 DEF Settled
        <5> QED
          BY <4>1, <5>1 DEF Arrived
      <4>5. CASE f \notin {"claim", "comment"} /\ (f \in Additive => i \notin overdue)
        <5>1. tracker'[i][f] = pending[i].target
          <6>1. CASE f \in Additive
            BY <3>5, <3>9, <4>5, <6>1 DEF Added
          <6>2. CASE f \notin Additive
            <7>1. tracker'[i][f] = {x.text}
              BY <1>3, <1>7, <1>11, <2>3, <3>9, <6>2 DEF Written
            <7> QED
              BY <1>3, <1>4, <3>3, <3>9, <4>5, <6>2, <7>1 DEF Awaited
          <6> QED
            BY <6>1, <6>2
        <5>2. Settled(i, tracker)'
          BY <1>16, <3>1, <3>9, <4>1, <4>5, <5>1 DEF Settled
        <5> QED
          BY <4>1, <5>2 DEF Arrived
      <4>6. CASE f \in Additive /\ i \in overdue
        BY <1>6, <1>16, <4>1, <4>6 DEF Excepted
      <4> QED
        BY <4>3, <4>4, <4>5, <4>6
    <3> QED
      BY <1>10, <1>16, <2>2, <3>6, <3>7, <3>8, <3>9 DEF Marks
  <2> QED
    BY <2>4, <2>5
<1> QED
  BY <1>14, <1>15, <1>17, <1>18 DEF Sound

LEMMA ResultKeeps == ASSUME WInv, NEW w \in Write, Result(w) PROVE WTypes' /\ Sound'
<1>1. PICK x \in Commands : x = writes[w]
  BY DEF WInv, WTypes, WriteTypes
<1>2. PICK i \in Issue : i = x.issue
  BY <1>1 DEF Result, ResultWith, WInv, WTypes, WriteTypes
<1>3. PICK f \in Fields : f = x.field
  BY <1>1 DEF Result, ResultWith, WInv, WTypes, WriteTypes
<1>4. /\ x.phase \in {"ok", "failed"}
      /\ writes' = [writes EXCEPT ![w] = Idle]
      /\ pending' = IF x.phase = "failed" THEN [pending EXCEPT ![i] = NoMarker] ELSE pending
      /\ drafts' = IF x.phase = "ok" /\ f \in Longform THEN [drafts EXCEPT ![i][f] = None] ELSE drafts
      /\ UNCHANGED <<loadVars, modal, buffer, owed, disturbed, edits>>
  BY <1>1, <1>2, <1>3 DEF Result, ResultWith
<1>5. Idle \in Commands /\ Idle.issue = None /\ Idle.phase = "idle"
  BY DEF Idle, Commands, Phases, FieldOrNone, Value
<1>6. writes' \in [Write -> Commands] /\ writes'[w] = Idle /\ \A v \in Write : v # w => writes'[v] = writes[v]
  BY <1>4, <1>5 DEF WInv, WTypes, WriteTypes
<1>7. NoMarker \in [field : FieldOrNone, target : SUBSET Value]
  BY DEF NoMarker, FieldOrNone
<1>8. /\ pending' \in [Issue -> [field : FieldOrNone, target : SUBSET Value]]
      /\ x.phase = "failed" => pending'[i] = NoMarker
      /\ x.phase = "ok" => pending'[i] = pending[i]
      /\ \A j \in Issue : j # i => pending'[j] = pending[j]
  BY <1>4, <1>7 DEF WInv, WTypes, WriteTypes
<1>9. \A j \in Issue : Marked(j)' => Marked(j) /\ pending'[j] = pending[j]
  BY <1>4, <1>8 DEF Marked
<1>10. /\ drafts' \in [Issue -> [Longform -> Value]]
       /\ \A j \in Issue, g \in Longform : j # i \/ g # f \/ x.phase # "ok" => drafts'[j][g] = drafts[j][g]
  <2>1. None \in Value /\ drafts \in [Issue -> [Longform -> Value]]
    BY DEF Value, WInv, WTypes, TextTypes
  <2>2. CASE x.phase = "ok" /\ f \in Longform
    BY <1>4, <2>1, <2>2, TextIs
  <2>3. CASE ~(x.phase = "ok" /\ f \in Longform)
    BY <1>4, <2>1, <2>3
  <2> QED
    BY <2>2, <2>3
<1>11. WTypes'
  <2>1. LoadTypes'
    BY <1>4 DEF WInv, WTypes, LoadTypes, View, loadVars
  <2>2. ModalTypes'
    BY <1>4 DEF WInv, WTypes, ModalTypes
  <2>3. TextTypes'
    BY <1>4, <1>10 DEF WInv, WTypes, TextTypes
  <2>4. \A j \in Issue : Marked(j)' => pending'[j].field \in Fields
    BY <1>9 DEF WInv, WTypes, WriteTypes
  <2>5. ASSUME NEW v \in Write
        PROVE  /\ writes'[v].phase = "idle" => writes'[v] = Idle
               /\ writes'[v].phase # "idle" => writes'[v].issue \in Issue /\ writes'[v].field \in Fields
    <3>1. CASE v = w
      BY <1>5, <1>6, <3>1
    <3>2. CASE v # w
      BY <1>6, <3>2 DEF WInv, WTypes, WriteTypes
    <3> QED
      BY <3>1, <3>2
  <2>6. WriteTypes'
    BY <1>4, <1>6, <1>8, <2>4, <2>5 DEF WInv, WTypes, WriteTypes
  <2> QED
    BY <2>1, <2>2, <2>3, <2>6 DEF WTypes
<1>12. Whole'
  BY <1>4 DEF WInv, Whole, loadVars
<1>13. ASSUME NEW j \in Issue \ disturbed', j # i PROVE Turns(j)' /\ (others' = 0 => Marks(j)')
  <2>1. j \in Issue \ disturbed /\ Turns(j)
    BY <1>4, <1>13 DEF WInv
  <2>2. WritesSame(j) /\ pending'[j] = pending[j] /\ (Marked(j)' => Marked(j))
    <3>1. ASSUME NEW v \in Write, j \in {writes[v].issue, writes'[v].issue} PROVE writes'[v] = writes[v]
      BY <1>1, <1>2, <1>5, <1>6, <1>13, <3>1, IssueAssumption
    <3> QED
      BY <1>8, <1>9, <1>13, <3>1 DEF WritesSame
  <2>3. \A g \in Longform : owed'[j][g] = owed[j][g] /\ drafts'[j][g] = drafts[j][g]
    BY <1>4, <1>10, <1>13
  <2>4. Turns(j)'
    BY <1>4, <2>1, <2>2, <2>3, TurnsElsewhere
  <2>5. ASSUME others' = 0 PROVE Marks(j)'
    <3>1. Marks(j) /\ j \in DOMAIN tracker'
      BY <1>4, <2>1, <2>5 DEF WInv, Whole, loadVars
    <3> QED
      BY <1>4, <2>2, <3>1, MarksElsewhere DEF Untouched, loadVars
  <2> QED
    BY <2>4, <2>5
<1>14. ASSUME i \notin disturbed' PROVE Turns(i)' /\ (others' = 0 => Marks(i)')
  <2>1. i \notin disturbed /\ Turns(i)
    BY <1>4, <1>14 DEF WInv
  <2>2. Of(i) = {w} /\ Of(i)' = {}
    <3>1. w \in Of(i)
      BY <1>1, <1>2 DEF Of
    <3>2. Of(i) = {w}
      BY <2>1, <3>1 DEF Turns
    <3>3. ASSUME NEW v \in Write PROVE writes'[v].issue # i
      <4>1. v # w => v \notin Of(i)
        BY <3>2
      <4> QED
        BY <1>5, <1>6, <4>1, IssueAssumption DEF Of
    <3> QED
      BY <3>2, <3>3 DEF Of
  <2>3. Turns(i)'
    <3>1. (modal.issue = i => ~Marked(i) /\ Of(i) = {})'
      BY <1>4, <2>1, <2>2 DEF Turns
    <3>2. (\A g \in Longform : owed[i][g] \in {None, drafts[i][g]})'
      <4>1. ASSUME NEW g \in Longform, g = f, x.phase = "ok" PROVE owed[i][g] = None
        BY <1>1, <1>3, <2>1, <2>2, <4>1 DEF Turns
      <4>2. ASSUME NEW g \in Longform, g # f \/ x.phase # "ok" PROVE drafts'[i][g] = drafts[i][g]
        BY <1>10, <4>2
      <4> QED
        BY <1>4, <2>1, <4>1, <4>2 DEF Turns
    <3> QED
      BY <2>2, <3>1, <3>2 DEF Turns
  <2>4. ASSUME others' = 0 PROVE Marks(i)'
    <3>1. Marks(i)
      BY <1>4, <2>1, <2>4 DEF WInv, loadVars
    <3>2. Answered(i)'
      BY <2>2 DEF Answered
    <3>3. Answered(i) <=> x.phase = "ok"
      BY <1>1, <2>2 DEF Answered
    <3>4. CASE x.phase = "ok"
      <4>1. pending'[i] = pending[i] /\ (Marked(i)' <=> Marked(i)) /\ Answered(i)
        BY <1>8, <3>3, <3>4 DEF Marked
      <4>2. Seen(i)'
        BY <1>4, <3>1, <3>2, <4>1 DEF Marks, Seen, loadVars
      <4>3. Arrived(i) => Arrived(i)'
        BY <1>4, <4>1 DEF Arrived, Settled, loadVars
      <4>4. Excepted(i) => Excepted(i)'
        BY <1>4, <4>1 DEF Excepted, loadVars
      <4> QED
        BY <2>2, <3>1, <4>1, <4>2, <4>3, <4>4 DEF Marks
    <3>5. CASE x.phase = "failed"
      <4>1. ~Marked(i)'
        BY <1>8, <3>5 DEF Marked
      <4>2. Seen(i)'
        BY <1>4, <3>1, <3>3, <3>5 DEF Marks, Seen, loadVars
      <4> QED
        BY <2>2, <4>1, <4>2 DEF Marks
    <3> QED
      BY <1>4, <3>4, <3>5
  <2> QED
    BY <2>3, <2>4
<1> QED
  BY <1>11, <1>12, <1>13, <1>14 DEF Sound

-----------------------------------------------------------------------------
(* The loads, and the others.                                              *)

\* What these steps leave alone.
Apart == UNCHANGED <<modal, buffer, edits, textVars, writes, disturbed>>

LEMMA ApartTurns ==
  ASSUME WInv, Apart, NEW i \in Issue \ disturbed, Marked(i)' => Marked(i) PROVE Turns(i)'
<1>1. Turns(i) /\ WritesSame(i)
  BY DEF WInv, Apart, WritesSame
<1>2. \A f \in Longform : owed'[i][f] = owed[i][f] /\ drafts'[i][f] = drafts[i][f]
  BY DEF Apart, textVars
<1>3. modal' = modal
  BY DEF Apart
<1> QED
  BY <1>1, <1>2, <1>3, TurnsElsewhere

LEMMA ApartTypes ==
  ASSUME WInv, Apart, LoadTypes', pending' \in [Issue -> [field : FieldOrNone, target : SUBSET Value]],
         \A i \in Issue : Marked(i)' => pending'[i] = pending[i]
  PROVE  WTypes'
<1>1. ModalTypes'
  BY DEF Apart, WInv, WTypes, ModalTypes
<1>2. TextTypes'
  BY DEF Apart, WInv, WTypes, TextTypes, textVars
<1>3. \A i \in Issue : Marked(i)' => pending'[i].field \in Fields
  BY DEF WInv, WTypes, WriteTypes, Marked
<1>4. WriteTypes'
  BY <1>3 DEF Apart, WInv, WTypes, WriteTypes
<1> QED
  BY <1>1, <1>2, <1>4 DEF WTypes

LEMMA LoadKeeps == ASSUME WInv, Load PROVE WTypes' /\ Sound'
<1>1. /\ Apart /\ UNCHANGED <<tracker, shown, pending, overdue, others>>
      /\ changed /\ changed' = FALSE /\ snapshot' = {tracker} /\ feed # "file" /\ feed' = feed
  BY DEF Load, Apart, markVars
<1>2. LoadTypes'
  BY <1>1 DEF WInv, WTypes, LoadTypes, View
<1>3. WTypes'
  BY <1>1, <1>2, ApartTypes DEF WInv, WTypes, WriteTypes
<1>4. Whole'
  BY <1>1 DEF WInv, Whole
<1>5. ASSUME NEW i \in Issue \ disturbed, others' = 0 PROVE Marks(i)'
  <2>1. Marks(i)
    BY <1>1, <1>5 DEF WInv
  <2>2. (Marked(i)' <=> Marked(i)) /\ (Answered(i)' <=> Answered(i)) /\ Of(i)' = Of(i)
    BY <1>1 DEF Marked, Answered, Of, Apart
  <2>3. Seen(i)'
    BY <1>1, <2>1, <2>2 DEF Marks, Seen
  <2>4. \A w \in Of(i)' : Awaited(i, writes[w])'
    BY <1>1, <2>1, <2>2 DEF Marks, Awaited, Apart
  <2>5. Arrived(i) => Arrived(i)'
    BY <1>1, <2>2 DEF Arrived, Settled
  <2>6. Excepted(i) => Excepted(i)'
    BY <1>1 DEF Excepted
  <2> QED
    BY <2>1, <2>2, <2>3, <2>4, <2>5, <2>6 DEF Marks
<1>6. \A i \in Issue \ disturbed : Turns(i)'
  BY <1>1, ApartTurns DEF Marked
<1>7. disturbed' = disturbed
  BY <1>1 DEF Apart
<1> QED
  BY <1>3, <1>4, <1>5, <1>6, <1>7 DEF Sound

LEMMA FileReloadKeeps == ASSUME WInv, FileReload PROVE WTypes' /\ Sound'
<1>1. /\ Apart /\ UNCHANGED <<tracker, snapshot, pending, overdue, others>>
      /\ shown' = tracker /\ snapshot = {} /\ changed' \in BOOLEAN /\ (feed' = "file" \/ changed')
  BY DEF FileReload, Apart, markVars, WInv, WTypes, LoadTypes
<1>2. LoadTypes'
  BY <1>1 DEF WInv, WTypes, LoadTypes, View
<1>3. WTypes'
  BY <1>1, <1>2, ApartTypes DEF WInv, WTypes, WriteTypes
<1>4. Whole'
  BY <1>1 DEF WInv, Whole
<1>5. ASSUME NEW i \in Issue \ disturbed, others' = 0 PROVE Marks(i)'
  <2>1. Marks(i)
    BY <1>1, <1>5 DEF WInv
  <2>2. (Marked(i)' <=> Marked(i)) /\ (Answered(i)' <=> Answered(i)) /\ Of(i)' = Of(i)
    BY <1>1 DEF Marked, Answered, Of, Apart
  <2>3. Seen(i)'
    BY <1>1 DEF Seen
  <2>4. \A w \in Of(i)' : Awaited(i, writes[w])'
    BY <1>1, <2>1, <2>2 DEF Marks, Awaited, Apart
  <2>5. Arrived(i) => Arrived(i)'
    BY <1>1, <2>2 DEF Arrived, Settled
  <2>6. Excepted(i) => Excepted(i)'
    BY <1>1 DEF Excepted
  <2> QED
    BY <2>1, <2>2, <2>3, <2>4, <2>5, <2>6 DEF Marks
<1>6. \A i \in Issue \ disturbed : Turns(i)'
  BY <1>1, ApartTurns DEF Marked
<1>7. disturbed' = disturbed
  BY <1>1 DEF Apart
<1> QED
  BY <1>3, <1>4, <1>5, <1>6, <1>7 DEF Sound

LEMMA ReloadKeeps == ASSUME WInv, Reload PROVE WTypes' /\ Sound'
<1>1. PICK issues \in snapshot, late \in SUBSET {i \in Issue : Marked(i) /\ ~UnderWay(i)} :
        /\ shown' = issues /\ pending' = Settle(issues, late)
        /\ overdue' = overdue \cup {i \in late : ~Settled(i, issues)}
  BY DEF Reload
<1>2. /\ Apart /\ UNCHANGED <<tracker, changed, others>> /\ snapshot' = {} /\ feed # "file"
      /\ View(issues) /\ late \subseteq Issue
  BY DEF Reload, Apart, WInv, WTypes, LoadTypes
<1>3. /\ pending' \in [Issue -> [field : FieldOrNone, target : SUBSET Value]]
      /\ \A i \in Issue : pending'[i] = IF Settled(i, issues) \/ i \in late THEN NoMarker ELSE pending[i]
  <2>1. NoMarker \in [field : FieldOrNone, target : SUBSET Value]
    BY DEF NoMarker, FieldOrNone
  <2>2. pending \in [Issue -> [field : FieldOrNone, target : SUBSET Value]]
    BY DEF WInv, WTypes, WriteTypes
  <2>3. pending' = [i \in Issue |-> IF Settled(i, issues) \/ i \in late THEN NoMarker ELSE pending[i]]
    BY <1>1 DEF Settle
  <2> QED
    BY <2>1, <2>2, <2>3
<1>4. \A i \in Issue : Marked(i)' => Marked(i) /\ pending'[i] = pending[i] /\ ~Settled(i, issues) /\ i \notin late
  BY <1>3 DEF Marked
<1>5. LoadTypes'
  BY <1>1, <1>2 DEF WInv, WTypes, LoadTypes, View
<1>6. WTypes'
  BY <1>2, <1>3, <1>4, <1>5, ApartTypes
<1>7. Whole'
  BY <1>1, <1>2 DEF WInv, Whole
<1>8. \A i \in Issue \ disturbed : Turns(i)'
  BY <1>2, <1>4, ApartTurns
<1>9. ASSUME NEW i \in Issue \ disturbed, others' = 0 PROVE Marks(i)'
  <2>1. Marks(i) /\ i \in DOMAIN issues
    BY <1>1, <1>2, <1>9 DEF WInv, Whole
  <2>2. /\ Of(i)' = Of(i) /\ (Answered(i)' <=> Answered(i)) /\ (i \notin overdue' => i \notin overdue)
        /\ \A w \in Write : writes'[w] = writes[w]
    BY <1>1, <1>2 DEF Of, Answered, Apart
  <2>3. \A f \in Added : f \notin {"claim", "comment"}
    BY FieldsAssumption DEF Added
  <2>4. CASE Marked(i)'
    <3>1. Marked(i) /\ pending'[i] = pending[i] /\ ~Settled(i, issues)
      BY <1>4, <2>4
    <3>2. Seen(i)'
      BY <1>1, <1>2, <2>1, <2>2, <2>4, <3>1 DEF Marks, Seen
    <3>3. ASSUME NEW w \in Of(i)' PROVE Awaited(i, writes[w])'
      <4>1. w \in Of(i) /\ writes'[w] = writes[w] /\ Awaited(i, writes[w])
        BY <2>1, <2>2 DEF Marks, Of
      <4> QED
        BY <1>2, <2>2, <2>4, <3>1, <4>1 DEF Awaited
    <3>4. ASSUME Arrived(i) PROVE Arrived(i)'
      <4>1. Settled(i, tracker) /\ (changed \/ \E s \in snapshot : Settled(i, s))
        BY <1>2, <3>4 DEF Arrived
      <4>2. changed
        BY <1>1, <3>1, <4>1 DEF WInv, WTypes, LoadTypes
      <4>3. Settled(i, tracker)'
        BY <1>2, <2>4, <3>1, <4>1 DEF Settled
      <4> QED
        BY <1>2, <4>2, <4>3 DEF Arrived
    <3>5. Excepted(i) => Excepted(i)'
      BY <1>1, <3>1 DEF Excepted
    <3> QED
      BY <2>1, <2>2, <3>1, <3>2, <3>3, <3>4, <3>5 DEF Marks
  <2>5. CASE ~Marked(i)'
    <3>1. ASSUME i \notin overdue', NEW f \in Added PROVE issues[i][f] = tracker[i][f]
      <4>1. ASSUME issues[i][f] # tracker[i][f] PROVE FALSE
        <5>1. Marked(i) /\ pending[i].field = f /\ pending[i].target = tracker[i][f]
          BY <1>1, <2>1, <2>2, <3>1, <4>1 DEF Marks, Seen
        <5>2. Settled(i, issues)
          BY <1>1, <1>3, <2>5, <3>1, <5>1 DEF Marked
        <5>3. issues[i][f] = pending[i].target
          BY <2>3, <5>1, <5>2 DEF Settled
        <5> QED
          BY <4>1, <5>1, <5>3
      <4> QED
        BY <4>1
    <3>2. Seen(i)'
      BY <1>1, <1>2, <3>1 DEF Seen
    <3>3. ASSUME NEW w \in Of(i), writes[w].phase = "running", writes[w].field \in Added, i \notin overdue'
          PROVE  tracker[i][writes[w].field] \cup {writes[w].text} = tracker[i][writes[w].field]
      <4>1. Awaited(i, writes[w])
        BY <2>1, <3>3 DEF Marks
      <4>2. ASSUME Marked(i) PROVE pending[i].target = tracker[i][writes[w].field]
        <5>1. Settled(i, issues)
          BY <1>1, <1>3, <2>5, <3>3, <4>2 DEF Marked
        <5>2. pending[i].field = writes[w].field
          BY <4>1, <4>2 DEF Awaited
        <5>3. issues[i][writes[w].field] = pending[i].target
          BY <2>3, <3>3, <5>1, <5>2 DEF Settled
        <5> QED
          BY <3>1, <3>3, <5>3
      <4> QED
        BY <2>2, <3>3, <4>1, <4>2 DEF Awaited
    <3>4. ASSUME NEW w \in Of(i)' PROVE Awaited(i, writes[w])'
      <4>1. w \in Of(i) /\ writes'[w] = writes[w]
        BY <2>2 DEF Of
      <4> QED
        BY <1>2, <2>5, <3>3, <4>1 DEF Awaited
    <3> QED
      BY <2>5, <3>2, <3>4 DEF Marks
  <2> QED
    BY <2>4, <2>5
<1>10. disturbed' = disturbed
  BY <1>2 DEF Apart
<1> QED
  BY <1>6, <1>7, <1>8, <1>9, <1>10 DEF Sound

LEMMA OthersKeep == ASSUME WInv, OtherWrites PROVE WTypes' /\ Sound'
<1>1. /\ Apart /\ UNCHANGED <<feed, snapshot, shown, overdue, pending>>
      /\ others \in Nat /\ others' = others + 1 /\ changed' = TRUE
  BY DEF OtherWrites, Apart, markVars, WInv, WTypes, LoadTypes
<1>2. others' \in Nat /\ others' # 0
  BY <1>1
<1>3. View(tracker')
  <2>1. View(tracker)
    BY DEF WInv, WTypes, LoadTypes
  <2>2. PICK i \in DOMAIN tracker :
          \/ \E f \in Contested : tracker' = [tracker EXCEPT ![i][f] = IF f \in Additive THEN tracker[i][f] \cup {Foreign} ELSE {Foreign}]
          \/ tracker' = [j \in DOMAIN tracker \ {i} |-> tracker[j]]
    BY DEF OtherWrites
  <2>3. ASSUME NEW f \in Contested,
               tracker' = [tracker EXCEPT ![i][f] = IF f \in Additive THEN tracker[i][f] \cup {Foreign} ELSE {Foreign}]
        PROVE  View(tracker')
    <3>1. f \in Fields
      BY FieldsAssumption DEF Fields
    <3>2. tracker[i][f] \in SUBSET Value
      BY <2>1, <3>1 DEF View, Records, Value
    <3>3. Foreign \in Value
      BY BoundsAssumption DEF Value, Texts, Foreign
    <3>4. PICK S \in SUBSET Value : S = IF f \in Additive THEN tracker[i][f] \cup {Foreign} ELSE {Foreign}
      BY <3>2, <3>3
    <3>5. PICK n : n = tracker'
      OBVIOUS
    <3>6. Updated(tracker, n, i, f, S)
      BY <2>3, <3>4, <3>5 DEF Updated
    <3> QED
      BY <2>1, <3>1, <3>5, <3>6, ViewIs
  <2>4. ASSUME tracker' = [j \in DOMAIN tracker \ {i} |-> tracker[j]] PROVE View(tracker')
    <3>1. PICK D \in SUBSET Issue : tracker \in [D -> Records]
      BY <2>1 DEF View
    <3>2. tracker' \in [D \ {i} -> Records] /\ D \ {i} \in SUBSET Issue
      BY <2>4, <3>1
    <3> QED
      BY <3>2 DEF View
  <2> QED
    BY <2>1, <2>2, <2>3, <2>4 DEF View
<1>4. LoadTypes'
  BY <1>1, <1>2, <1>3 DEF WInv, WTypes, LoadTypes, View
<1>5. WTypes'
  BY <1>1, <1>4, ApartTypes DEF WInv, WTypes, WriteTypes
<1>6. \A i \in Issue \ disturbed : Turns(i)'
  BY <1>1, ApartTurns DEF Marked
<1>7. disturbed' = disturbed
  BY <1>1 DEF Apart
<1> QED
  BY <1>2, <1>5, <1>6, <1>7 DEF Sound, Whole

\* The spinner, and steps of nothing.
LEMMA NothingKeeps ==
  ASSUME WInv, UNCHANGED <<loadVars, modal, buffer, edits, textVars, pending, writes, disturbed>> PROVE WTypes' /\ Sound'
<1>1. WTypes'
  <2>1. LoadTypes'
    BY DEF WInv, WTypes, LoadTypes, View, loadVars
  <2> QED
    BY <2>1, ApartTypes DEF Apart, WInv, WTypes, WriteTypes
<1>2. Sound'
  <2>1. \A i \in Issue, f \in Longform : owed'[i][f] = owed[i][f] /\ drafts'[i][f] = drafts[i][f]
    BY DEF textVars
  <2> QED
    BY <2>1, FlowSound
<1> QED
  BY <1>1, <1>2

-----------------------------------------------------------------------------
LEMMA WStarts == WriteInit => WInv
<1> SUFFICES ASSUME WriteInit PROVE WInv
  OBVIOUS
<1>1. None \in Value /\ {} \in SUBSET Value /\ "none" \in FieldOrNone
  BY DEF Value, FieldOrNone
<1>2. tracker \in [Issue -> Records] /\ shown \in [Issue -> Records]
  <2>1. [f \in Fields |-> {}] \in Records
    BY DEF Records
  <2> QED
    BY <2>1 DEF WriteInit
<1>3. LoadTypes
  BY <1>2 DEF WriteInit, LoadTypes, View
<1>4. ModalTypes
  BY <1>1, BoundsAssumption DEF WriteInit, ModalTypes, Closed, NoBuffer
<1>5. TextTypes
  BY <1>1 DEF WriteInit, TextTypes
<1>6. WriteTypes
  <2>1. Idle \in Commands /\ Idle.phase = "idle"
    BY <1>1 DEF Idle, Commands, Phases
  <2>2. NoMarker \in [field : FieldOrNone, target : SUBSET Value]
    BY <1>1 DEF NoMarker
  <2> QED
    BY <2>1, <2>2 DEF WriteInit, WriteTypes, Marked
<1>7. Whole
  BY <1>2 DEF WriteInit, Whole
<1>8. ASSUME NEW i \in Issue PROVE Turns(i) /\ Marks(i)
  <2>1. Of(i) = {} /\ ~Marked(i)
    BY IssueAssumption DEF WriteInit, Of, Marked, Idle
  <2>2. owed = drafts
    BY DEF WriteInit
  <2>3. Turns(i)
    BY <2>1, <2>2 DEF Turns
  <2>4. Seen(i)
    BY DEF WriteInit, Seen
  <2> QED
    BY <2>1, <2>3, <2>4 DEF Marks
<1> QED
  BY <1>3, <1>4, <1>5, <1>6, <1>7, <1>8 DEF WInv, WTypes

LEMMA WNext == WInv /\ [WriteNext]_writeVars => WInv'
<1> SUFFICES ASSUME WInv, [WriteNext]_writeVars PROVE WTypes' /\ Sound'
  BY WInvIs DEF WInv, Sound
<1>1. ASSUME NEW i \in Issue, NEW kind \in {"claim", "select"}, Request(i, kind) PROVE WTypes' /\ Sound'
  BY <1>1, RequestKeeps
<1>2. CASE Moves
  BY <1>2, MovesTyped, MovesSound DEF WInv
<1>3. CASE Escape
  BY <1>3, EscapeKeeps
<1>4. CASE Escalate \/ EditorFinished
  BY <1>4, EditorKeeps
<1>5. CASE ConfirmClaim \/ CommitInput
  BY <1>5, CommitKeeps
<1>6. CASE CommitLongform
  BY <1>6, CommitLongformKeeps
<1>7. ASSUME NEW w \in Write, BdRuns(w) \/ Result(w) PROVE WTypes' /\ Sound'
  BY <1>7, BdRunsKeeps, ResultKeeps
<1>8. CASE OtherWrites
  BY <1>8, OthersKeep
<1>9. CASE Load
  BY <1>9, LoadKeeps
<1>10. CASE Reload
  BY <1>10, ReloadKeeps
<1>11. CASE FileReload
  BY <1>11, FileReloadKeeps
<1>12. CASE Tick \/ UNCHANGED writeVars
  <2>1. UNCHANGED <<loadVars, modal, buffer, edits, textVars, pending, writes, disturbed>>
    BY <1>12 DEF Tick, writeVars, loadVars, textVars
  <2> QED
    BY <2>1, NothingKeeps
<1>13. User => \/ \E i \in Issue, kind \in {"claim", "select"} : Request(i, kind)
               \/ Moves \/ Escape \/ Escalate \/ EditorFinished \/ ConfirmClaim \/ CommitInput \/ CommitLongform
  BY DEF User, Moves
<1>14. AgentCheck => Moves
  BY DEF Moves
<1> QED
  BY <1>1, <1>2, <1>3, <1>4, <1>5, <1>6, <1>7, <1>8, <1>9, <1>10, <1>11, <1>12, <1>13, <1>14 DEF WriteNext

LEMMA WAlways == WriteSpec => []WInv
BY WStarts, WNext, PTL DEF WriteSpec

(* A long text that was committed and is not in the tracker is the draft,  *)
(* whatever became of its write, unless an edit of the issue was begun     *)
(* before the result was in (longform_edit.go, "nothing long-form is ever lost"). *)
THEOREM NoTextLost == WriteSpec => []CommittedKept
<1>1. WInv => CommittedKept
  BY DEF WInv, Turns, CommittedKept
<1> QED
  BY <1>1, WAlways, PTL

(* bd reads from the edit file what was committed: no other flow has       *)
(* written that file in between.                                           *)
THEOREM CommitIsWritten == WriteSpec => []WritesCommitted
<1>1. ASSUME WInv PROVE WritesCommitted
  <2> SUFFICES ASSUME NEW w \in Write, writes[w].phase = "running", writes[w].issue \notin disturbed
               PROVE  Given(writes[w]) = writes[w].text
    BY DEF WritesCommitted
  <2>1. PICK i \in Issue : i = writes[w].issue
    BY <1>1 DEF WInv, WTypes, WriteTypes
  <2>2. Turns(i) /\ w \in Of(i)
    BY <1>1, <2>1 DEF WInv, Of
  <2> QED
    BY <2>2 DEF Turns
<1> QED
  BY <1>1, WAlways, PTL

(* With a background worker or a data source: when every command has       *)
(* answered and every change is shown, no row shows a write under way.     *)
(* What it waits for was in the tracker when bd succeeded, and the next    *)
(* reload shows it; so do the markers end that file reloads left before a  *)
(* worker was started.                                                     *)
THEOREM MarkersEnd == WriteSpec => []SettledWhenQuiet
<1>1. ASSUME WInv PROVE SettledWhenQuiet
  <2> SUFFICES ASSUME feed # "file", ~changed, snapshot = {}, others = 0,
                      NEW i \in Issue \ disturbed, Marked(i), ~UnderWay(i)
               PROVE  i \in overdue /\ pending[i].field \in Additive
    BY DEF SettledWhenQuiet, MarkersSettled
  <2>1. Marks(i)
    BY <1>1 DEF WInv
  <2>2. Of(i) = {}
    BY <1>1, IdleNothing DEF WInv
  <2>3. Answered(i) /\ ~Arrived(i)
    BY <2>2 DEF Answered, Arrived
  <2> QED
    BY <2>1, <2>3 DEF Marks, Excepted
<1> QED
  BY <1>1, WAlways, PTL
=============================================================================
