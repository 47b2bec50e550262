------------------------------ MODULE Navigation ------------------------------
(***************************************************************************)
(* pkg/ui/model_update_input.go and the *_keys.go handlers: which part of  *)
(* the user interface takes a key, and what it does to the view, the       *)
(* modal, the focus and the filter of the list.  A key goes to the first   *)
(* handler of handleKeyPress that takes it, and then to the list, by the   *)
(* tail of Update, when the list has the focus.                            *)
(*                                                                         *)
(* A key is named for what it is bound to; "other" is any other letter.    *)
(* The model is a record, as in the code: a handler gives the set of the   *)
(* models it may return, because what is selected, and what is found for   *)
(* it, is left out.                                                        *)
(***************************************************************************)
EXTENDS Naturals, FiniteSetsExt

Toggles == {"Board", "Graph", "Actionable", "Tree", "Insights", "History", "LabelDashboard",
            "Attention", "FlowMatrix", "Epics", "Memories"}
View == Toggles \cup {"List"}
Searched == {"Board", "History", "Memories"}   \* the views that have a search line
Letters == Toggles \cup {"Back", "Search", "Help", "Tutorial", "Sidebar", "BQL", "Recipes",
  "LabelPicker", "Projects", "Alerts", "Notifications", "2", "3", "EpicCard", "TimeTravel", "Cass",
  "SelfUpdate", "Claim", "FieldEdit", "y", "n", "d", "Space", "other"}
Key == Letters \cup {"Esc", "Enter", "Tab", "CtrlC", "CtrlS"}

Overlay == {"EpicCard", "LabelDrilldown", "LabelGraph", "Alerts"}   \* leave the focus where it is
Picker == {"RepoPicker", "BQL", "LabelPicker", "RecipePicker", "Settings", "SettingsMenu",
           "ClaimConfirm", "FieldSelect", "FieldPicker", "FieldInput", "LongformEdit"}
Owning == Picker \cup {"AgentPrompt", "Cass", "Update", "QuitConfirm", "Help", "Tutorial",
                       "TimeTravelInput"}

CONSTANT Pressed     \* the keys that are pressed
ASSUME PressedAssumption == Pressed \subseteq Key

VARIABLE m    \* the Model

NavInit ==
  \E wide \in BOOLEAN :
       m = [view |-> "List", focus |-> "list", modal |-> "none", input |-> "no", typing |-> [v \in Searched |-> "no"],
            split |-> wide, details |-> FALSE, full |-> "none", drill |-> FALSE,
            filter |-> "unfiltered", beforeSearch |-> "list", beforeHelp |-> "list", over |-> FALSE]

When(c, S) == IF c THEN S ELSE {}
Typed(x) == IF x.view \in Searched THEN x.typing[x.view] ELSE "no"
Type(x, t) == [x EXCEPT !.typing[x.view] = t]

\* What a handler makes of a key, and nothing when it has no case for it.
Else(x, outcomes) == IF outcomes = {} THEN {x} ELSE outcomes

FocusOf(v) == CASE v = "List" -> "list" [] v = "Attention" -> "Insights" [] OTHER -> v

-----------------------------------------------------------------------------
(* What the handlers do.                                                   *)

Open(x, w) ==
  [x EXCEPT !.modal = w, !.input = "no", !.focus = IF w \in Overlay THEN @ ELSE w]
Close(x) == [x EXCEPT !.modal = "none", !.input = "no", !.beforeHelp = "list"]
\* Variant: the focus stays with the modal that is closed.
LeaveOnlyCloses(x) == Close(x)
Leave(x) == [Close(x) EXCEPT !.focus = "list"]
Quit(x) == [x EXCEPT !.over = TRUE]

\* The board keeps its search line, the history and the memories are built anew at each visit.
Go(x, v) ==
  [x EXCEPT !.view = v, !.drill = FALSE, !.typing = [s \in Searched |-> IF s = "Board" THEN @[s] ELSE "no"]]

\* The label dashboard and the memories clear the split on entry.
Unsplit == {"LabelDashboard", "Memories"}
ToList(x) == [Go(x, "List") EXCEPT !.focus = "list", !.split = @ \/ x.view \in Unsplit]

\* The detail pane, or the detail in the place of the list: focusDetailAfterJump.
ShowDetail(x) == [x EXCEPT !.focus = "detail", !.details = @ \/ ~x.split]
Jump(x) == ShowDetail(Go(x, "List"))
\* selectIssueByID resets a filter that hides the issue, and may not find it.
JumpFound(x) == {Jump(x), Jump([x EXCEPT !.filter = "unfiltered"])}

\* commitFilterIfTyping.
Commit(x) ==
  IF x.filter = "filtering" THEN {[x EXCEPT !.filter = f] : f \in {"applied", "unfiltered"}} ELSE {x}

\* toggleFullscreenPane.
Pane(target) == IF target = "details" THEN "detail" ELSE "list"
Fullscreen(target, x) ==
  CASE x.full = target -> [x EXCEPT !.full = "none"]
    [] x.full # target /\ ~x.split -> [x EXCEPT !.full = target, !.focus = Pane(target)]
    [] x.full \notin {target, "none"} /\ x.split -> [x EXCEPT !.full = "none", !.focus = Pane(target)]
    [] x.full = "none" /\ x.split ->
         IF x.focus # Pane(target) THEN [x EXCEPT !.focus = Pane(target)] ELSE [x EXCEPT !.full = target]

\* restoreFocusFromHelp.  Variant: the actionable view is not one of the views.
RestoreFocusListed(x) ==
  CASE x.details /\ ~x.split -> "detail"
    [] ~(x.details /\ ~x.split) /\ x.view \notin {"List", "Actionable"} -> FocusOf(x.view)
    [] OTHER -> x.beforeHelp
RestoreFocus(x) ==
  CASE x.details /\ ~x.split -> "detail"
    [] ~(x.details /\ ~x.split) /\ x.view # "List" -> FocusOf(x.view)
    [] OTHER -> x.beforeHelp
CloseHelp(x) == [Close(x) EXCEPT !.focus = RestoreFocus(x)]

-----------------------------------------------------------------------------
(* The modals: one handler each.  What is selected is left out, so a key   *)
(* may find nothing to do.                                                 *)

AgentPromptKey(k, x) == When(k \in {"Esc", "Back", "Enter", "Space", "y", "n", "d"}, {Leave(x)})

CassKey(k, x) == When(k \in {"Esc", "Back", "Enter", "Cass"}, {Leave(x)})

EpicCardKey(k, x) ==
  When(k \in {"Esc", "Enter"}, {Close(x)}) \cup When(k = "Enter", {x} \cup JumpFound(Close(x)))

UpdateKey(k, x) ==
  UNION {
    When(x.input = "no" /\ k \in {"y", "Enter"}, {[x EXCEPT !.input = "running"]}),
    When(x.input = "no" /\ k \in {"Esc", "Back", "Enter", "n"}, {Leave(x)}),
    When(x.input = "done" /\ k \in {"Esc", "Back", "Enter"}, {Leave(x)}) }

LabelDrilldownKey(k, x) ==
  UNION {
    When(k = "Enter", {Leave(x)}),
    When(k = "Graph", {Open(x, "LabelGraph")}),
    When(k \in {"Esc", "Back", "d"}, {Close(x)}) }

LabelGraphKey(k, x) == When(k \in {"Esc", "Back", "Graph"}, {Close(x)})

\* The two tabs of the alerts: the key of the other one changes the tab, its own closes.
AlertsKey(k, x) ==
  UNION {
    When(k \in {"Esc", "Back", "Enter"}, {Close(x)}),
    When(k = "Enter", JumpFound(Close(x))),
    When(k \in {"Alerts", "Notifications", "other"}, {x, Close(x)}) }

\* The search line of a picker gives up its text before the picker closes.
PickerSearchKey(k, x) ==
  When(k = "Enter", {Leave(x)}) \cup When(k = "Esc", {[x EXCEPT !.input = "no"]})

RepoPickerKey(k, x) ==
  IF x.input = "search" THEN PickerSearchKey(k, x)
  ELSE When(k \in {"Esc", "Enter", "Back", "Projects"}, {Leave(x)})
         \cup When(k = "Search", {[x EXCEPT !.input = "search"]})

LabelPickerKey(k, x) ==
  IF x.input = "search" THEN PickerSearchKey(k, x)
  ELSE When(k \in {"Esc", "Enter", "LabelPicker"}, {Leave(x)})
         \cup When(k = "Search", {[x EXCEPT !.input = "search"]})

RecipePickerKey(k, x) == When(k \in {"Esc", "Enter", "Recipes"}, {Leave(x)})

\* A query that parses takes the place of the list's own filter; an empty one clears it.
BQLKey(k, x) ==
  When(k \in {"Esc", "Enter"}, {Leave(x)})
    \cup When(k = "Enter", {x, [Leave(x) EXCEPT !.filter = "unfiltered"]})

SettingsKey(k, x) == When(k \in {"Esc", "Enter"}, {Leave(x)})

SettingsMenuKey(k, x) ==
  When(k = "Esc", {Leave(x)})
    \cup When(k = "Enter", {Open(x, w) : w \in {"Settings", "Help", "QuitConfirm"}})

QuitConfirmKey(k, x) == IF k \in {"Esc", "y"} THEN {Quit(x)} ELSE {Leave(x)}

\* Confirmed or not, the claim leaves the modal.
ClaimKey(k, x) == {Leave(x)}

FieldSelectKey(k, x) ==
  UNION {
    When(k = "Esc", {Leave(x)}),
    When(k \in Letters \cup {"Enter"},
         {x, Leave(x)} \cup {Open(x, w) : w \in {"FieldPicker", "FieldInput", "LongformEdit"}}) }

FieldPickerKey(k, x) == When(k = "Enter", {Leave(x)}) \cup When(k = "Esc", {Open(x, "FieldSelect")})

\* A number that is none is refused.
FieldInputKey(k, x) == When(k = "Enter", {x, Leave(x)}) \cup When(k = "Esc", {Open(x, "FieldSelect")})

\* handleLongformEscape: a dirty buffer is left at the second esc.
LongformEscape(x) ==
  IF x.input = "dirty" THEN [x EXCEPT !.input = "armed"] ELSE Open(x, "FieldSelect")

LongformKey(k, x) ==
  UNION {
    When(k = "CtrlS", {x, Leave(x)}),
    When(k = "Esc", {LongformEscape(x)}),
    When(k \in Letters \cup {"Enter"}, {[x EXCEPT !.input = "dirty"]}) }

\* ctrl+c in a picker or an editor.
PickerKey(k, x) ==
  IF k = "CtrlC" THEN {Quit(x)}
  ELSE CASE x.modal = "RepoPicker" -> RepoPickerKey(k, x)
         [] x.modal = "BQL" -> BQLKey(k, x)
         [] x.modal = "LabelPicker" -> LabelPickerKey(k, x)
         [] x.modal = "RecipePicker" -> RecipePickerKey(k, x)
         [] x.modal = "Settings" -> SettingsKey(k, x)
         [] x.modal = "SettingsMenu" -> SettingsMenuKey(k, x)
         [] x.modal = "ClaimConfirm" -> ClaimKey(k, x)
         [] x.modal = "FieldSelect" -> FieldSelectKey(k, x)
         [] x.modal = "FieldPicker" -> FieldPickerKey(k, x)
         [] x.modal = "FieldInput" -> FieldInputKey(k, x)
         [] x.modal = "LongformEdit" -> LongformKey(k, x)

\* The blocks of handleKeyPress that belong to a modal.
ModalKey(k, x) == Else(x,
  CASE x.modal = "AgentPrompt" -> AgentPromptKey(k, x)
    [] x.modal = "Cass" -> CassKey(k, x)
    [] x.modal = "EpicCard" -> EpicCardKey(k, x)
    [] x.modal = "Update" -> UpdateKey(k, x)
    [] x.modal = "LabelDrilldown" -> LabelDrilldownKey(k, x)
    [] x.modal = "LabelGraph" -> LabelGraphKey(k, x)
    [] x.modal = "Alerts" -> AlertsKey(k, x)
    [] x.modal = "QuitConfirm" -> QuitConfirmKey(k, x)
    [] x.modal \in Picker -> PickerKey(k, x))

-----------------------------------------------------------------------------
(* The keys outside of modals.                                             *)

\* handleHelpKeys: space opens the tutorial, the scroll keys are among the letters.
HelpKey(k, x) ==
  CASE k \in {"Graph", "other"} -> {x} \cup When(k = "other", {CloseHelp(x)})
    [] k = "Space" -> {Open(x, "Tutorial")}
    [] OTHER -> {CloseHelp(x)}

TutorialKey(k, x) == Else(x, When(k \in {"Esc", "Back"}, {Leave(x)}))

\* ?, ` and ; act wherever no list filter is typed and no modal came first.
EverywhereKey(k, x) ==
  CASE k = "Help" ->
         IF x.modal = "Help" THEN {CloseHelp(x)}
         ELSE {[Open(x, "Help") EXCEPT
                  !.beforeHelp = IF x.focus = "TimeTravelInput" THEN x.focus ELSE "list"]}
    [] k = "Tutorial" -> {IF x.modal = "Tutorial" THEN Leave(x) ELSE Open(x, "Tutorial")}
    [] k = "Sidebar" -> {[x EXCEPT !.split = b] : b \in BOOLEAN}

PromptKey(k, x) == Else(x,
  When(k = "CtrlC", {Quit(x)}) \cup When(k \in {"Enter", "Esc"}, {Leave(x)}))

(* The views: what each makes of a key that is not bound everywhere.       *)

\* A search line takes everything but these.
SearchLineKey(k, x) == When(k \in {"Esc", "Enter"}, {Type(x, "no")})

\* To the selected issue, if one is selected.
JumpKey(k, x) == When(k = "Enter", {x, Jump(x)})

\* The file tree of the history gives up its filter before the focus, and may still have one.
FileTreeKey(k, x) ==
  UNION {
    When(k = "Enter", {x, Type(x, "fileFilter")}),
    When(k = "Esc", {Type(x, IF Typed(x) = "fileFilter" THEN "files" ELSE "no")}),
    When(k = "Tab", {Type(x, "no")}) }

HistoryKey(k, x) ==
  CASE Typed(x) = "search" -> SearchLineKey(k, x)
    [] Typed(x) \in {"files", "fileFilter"} -> FileTreeKey(k, x)
    [] OTHER -> UNION {
         JumpKey(k, x),
         When(k = "Search", {Type(x, "search")}),
         When(k = "Tab", {x, Type(x, "files"), Type(x, "fileFilter")}) }

BoardKey(k, x) ==
  IF Typed(x) = "search" THEN SearchLineKey(k, x)
  ELSE JumpKey(k, x) \cup When(k = "Search", {Type(x, "search")})

MemoriesKey(k, x) ==
  IF Typed(x) = "search" THEN SearchLineKey(k, x) ELSE When(k = "Search", {Type(x, "search")})

GraphViewKey(k, x) == JumpKey(k, x)
ActionableKey(k, x) == JumpKey(k, x)
InsightsKey(k, x) == JumpKey(k, x)

\* syncTreeSelectionToDetail.
TreeKey(k, x) == When(k = "Tab" /\ x.split, {x, [x EXCEPT !.focus = "detail"]})

EpicsKey(k, x) ==
  When(k = "Enter", {x} \cup JumpFound(x)) \cup When(k = "other", {x, Open(x, "EpicCard")})

\* The jump out of the drilldown does not leave the view.
FlowMatrixKey(k, x) ==
  When(k = "Enter", {x} \cup {IF x.drill THEN ShowDetail(x) ELSE [x EXCEPT !.drill = TRUE]})

\* A label that is chosen filters the list, and the view stays.
LabelDashboardKey(k, x) ==
  When(k = "Enter", {x, [x EXCEPT !.split = TRUE, !.focus = "list"]})
    \cup When(k = "d", {x, Open(x, "LabelDrilldown")})

\* The keys of the list that the detail pane takes, too.
IssueKey(k, x) ==
  UNION {
    When(k = "EpicCard", {x, Open(x, "EpicCard")}),
    When(k = "TimeTravel", {x, Open(x, "TimeTravelInput")}),
    When(k = "Cass", {x, Open(x, "Cass")}),
    When(k = "SelfUpdate", {x, Open(x, "Update")}),
    When(k = "Claim", {x, Open(x, "ClaimConfirm")}),
    When(k = "FieldEdit", {x, Open(x, "FieldSelect")}),
    When(k = "Tab" /\ x.split /\ x.view = "List",
         {[x EXCEPT !.focus = IF @ = "list" THEN "detail" ELSE "list"]}),
    When(k = "2", {Fullscreen("issues", x)}),
    When(k = "3", {Fullscreen("details", x)}) }

ListKey(k, x) == IssueKey(k, x) \cup When(k = "Enter" /\ ~x.split, {ShowDetail(x)})

DetailKey(k, x) ==
  IssueKey(k, x) \cup When(k = "Search", {[x EXCEPT !.focus = "list", !.filter = "filtering"]})

\* The handler of the focus.
FocusKey(k, x) == Else(x,
  CASE x.focus = "list" -> ListKey(k, x)
    [] x.focus = "detail" -> DetailKey(k, x)
    [] x.focus = "History" -> HistoryKey(k, x)
    [] x.focus = "Board" -> BoardKey(k, x)
    [] x.focus = "Memories" -> MemoriesKey(k, x)
    [] x.focus = "Graph" -> GraphViewKey(k, x)
    [] x.focus = "Actionable" -> ActionableKey(k, x)
    [] x.focus = "Insights" -> InsightsKey(k, x)
    [] x.focus = "Tree" -> TreeKey(k, x)
    [] x.focus = "Epics" -> EpicsKey(k, x)
    [] x.focus = "FlowMatrix" -> FlowMatrixKey(k, x)
    [] x.focus = "LabelDashboard" -> LabelDashboardKey(k, x)
    [] OTHER -> {})

\* A view that is typed in: everything but ctrl+c is its own.
TypingKey(k, x) == Else(x,
  IF k = "CtrlC" THEN {Quit(x)}
  ELSE CASE x.view = "History" -> HistoryKey(k, x)
         [] x.view = "Board" -> BoardKey(k, x)
         [] x.view = "Memories" -> MemoriesKey(k, x))

-----------------------------------------------------------------------------
(* The view switches and the two keys that go back.                        *)

Toggle(k, x) ==
  IF x.view = k THEN ToList(x)
  ELSE [Go(x, k) EXCEPT !.focus = FocusOf(k), !.split = @ /\ k \notin Unsplit]

Opener(k, x) ==
  CASE k = "Alerts" -> {x, Open(x, "Alerts")}
    [] k = "Notifications" -> {Open(x, "Alerts")}
    [] k = "BQL" -> {Open(x, "BQL")}
    [] k = "Recipes" -> {Open(x, "RecipePicker")}
    [] k = "Projects" -> {x, Open(x, "RepoPicker")}
    [] k = "LabelPicker" -> {x, Open(x, "LabelPicker")}
Openers == {"Alerts", "Notifications", "BQL", "Recipes", "Projects", "LabelPicker"}

\* What both keys undo first.
Undone(x) ==
  When(x.full # "none", {[x EXCEPT !.full = "none"]}) \cup
  When(x.full = "none" /\ x.details /\ ~x.split, {[x EXCEPT !.details = FALSE, !.focus = "list"]})

BackKey(x) ==
  LET drilled == x.focus = "FlowMatrix" /\ x.drill IN
  IF Undone(x) # {} THEN Undone(x)
  ELSE IF drilled THEN {[x EXCEPT !.drill = FALSE]}
  ELSE IF x.focus \in {"Insights", "FlowMatrix"} THEN {[x EXCEPT !.focus = "list"]}
  ELSE IF x.view \in {"Graph", "Board", "LabelDashboard", "Epics", "Memories"} THEN {ToList(x)}
  ELSE {Quit(x)}

\* The views that esc leaves.  Variant: the actionable view was forgotten.
EscapableForgotten == Toggles \ {"Tree", "Actionable"}
Escapable == Toggles \ {"Tree"}

EscKey(x) ==
  IF Undone(x) # {} THEN Undone(x)
  ELSE IF x.view = "FlowMatrix" /\ x.drill THEN {[x EXCEPT !.drill = FALSE]}
  ELSE IF x.view \in Escapable THEN {ToList(x)}
  ELSE {[x EXCEPT !.filter = "unfiltered"]} \cup When(x.filter = "unfiltered", {Open(x, "SettingsMenu")})

GlobalKey(k, x) ==
  CASE k = "Back" -> BackKey(x)
    [] k = "Esc" -> EscKey(x)
    [] k \in Toggles -> {Toggle(k, x)}
    [] k \in Openers -> Opener(k, x)

\* The attention view's own keys: back to the list, or to filter for a label.
AttentionKey(k, x) ==
  IF k \in {"Esc", "Back", "d"} THEN {[x EXCEPT !.view = "List", !.focus = "list"]}
  ELSE {x}

-----------------------------------------------------------------------------
(* Who takes a key: the blocks of handleKeyPress, in their order.          *)

\* Variant: the block of a view that is typed in comes after the global keys.
TakesLate(n, k, x) ==
  CASE n = 1 -> \/ x.modal \in {"AgentPrompt", "Cass", "EpicCard", "Update"}
                \/ x.modal = "LabelDrilldown" /\ k \in {"Enter", "Graph", "Esc", "Back", "d"}
                \/ x.modal = "LabelGraph" /\ k \in {"Esc", "Back", "Graph"}
    [] n = 2 -> x.view = "Attention" /\ k \in {"Esc", "Back", "d", "Notifications", "2", "3"}
    [] n = 3 -> x.modal \in Picker \cup {"Alerts", "QuitConfirm"}
    [] n = 4 -> k \in {"Help", "Tutorial", "Sidebar"} /\ x.filter # "filtering"
    [] n = 5 -> x.focus = "Help"
    [] n = 6 -> x.focus = "Tutorial" /\ x.modal = "Tutorial"
    [] n = 7 -> x.focus = "TimeTravelInput"
    [] n = 8 -> FALSE
    [] n = 9 -> k = "Search" /\ x.modal = "none" /\ x.view = "List" /\ x.split
                /\ x.filter # "filtering" /\ x.focus # "list"
    [] n = 10 -> k = "CtrlC"
    [] n = 11 -> k \in {"Back", "Esc"} \cup Toggles \cup Openers /\ x.filter # "filtering"
    [] n = 12 -> x.filter # "filtering"
    [] n = 13 -> TRUE
Takes(n, k, x) ==
  IF n = 8 THEN x.modal = "none" /\ Typed(x) # "no" ELSE TakesLate(n, k, x)
Owner(k, x) == CHOOSE n \in 1..13 : Takes(n, k, x) /\ \A i \in 1..(n - 1) : ~Takes(i, k, x)

Handled(k, x) ==
  LET n == Owner(k, x) IN
  CASE n \in {1, 3} -> ModalKey(k, x)
    [] n = 2 -> AttentionKey(k, x)
    [] n = 4 -> EverywhereKey(k, x)
    [] n = 5 -> HelpKey(k, x)
    [] n = 6 -> TutorialKey(k, x)
    [] n = 7 -> PromptKey(k, x)
    [] n = 8 -> TypingKey(k, x)
    [] n = 9 -> {[x EXCEPT !.beforeSearch = x.focus, !.focus = "list"]}
    [] n = 10 -> {Quit(x)}
    [] n = 11 -> GlobalKey(k, x)
    [] n = 12 -> FocusKey(k, x)
    [] n = 13 -> {x}

\* The tail of Update: the list takes the key when it has the focus and no modal was open.
Listed(k, y) ==
  CASE k = "Esc" -> {[y EXCEPT !.filter = "unfiltered"]}
    [] k = "Search" -> {[y EXCEPT !.filter = "filtering"]}
    [] k \in {"Enter", "Tab"} -> Commit(y)
    [] OTHER -> {y}
Returned(y) ==
  IF y.beforeSearch # "list" /\ y.filter = "unfiltered"
  THEN [y EXCEPT !.focus = y.beforeSearch, !.beforeSearch = "list"] ELSE y
Tail(k, x, y) ==
  IF y.focus = "list" /\ y.modal = "none" /\ x.modal = "none"
  THEN {Returned(z) : z \in Listed(k, y)} ELSE {y}

\* Update: a filter that is typed while something else has the focus is committed first.
Press(k, x) ==
  UNION {UNION {Tail(k, x, y) : y \in Handled(k, z)} :
           z \in IF x.focus = "list" THEN {x} ELSE Commit(x)}

-----------------------------------------------------------------------------
(* The mouse, and what arrives by itself.                                  *)

\* handleMouseClick.
Clicked(x) ==
  CASE x.modal = "Alerts" ->
         {x, Close(x), Close(Toggle("Insights", [x EXCEPT !.view = "List"]))} \cup JumpFound(Close(x))
    [] x.modal \in {"LabelPicker", "RepoPicker"} -> {x, [x EXCEPT !.input = "search"]}
    [] x.modal = "none" /\ x.view = "History" -> {[x EXCEPT !.focus = "History"]}
    [] x.modal = "none" /\ x.view = "Tree" ->
         {[x EXCEPT !.focus = f] : f \in {"Tree"} \cup When(x.split, {"detail"})}
    [] x.modal = "none" /\ x.view = "List" /\ (x.split \/ ~x.details) ->
         LET listed == [x EXCEPT !.focus = "list"] IN
         {[listed EXCEPT !.filter = "filtering"]} \cup Commit(listed)
           \cup {ShowDetail(z) : z \in Commit(listed)}
           \cup When(x.split, IF x.focus = "detail" THEN {x} ELSE {ShowDetail(z) : z \in Commit(x)})
    [] OTHER -> {x}

Arrives(y) == ~m.over /\ m' \in Tail("none", m, y)

KeyPress(k) == ~m.over /\ m' \in Press(k, m)
Click == \E y \in Clicked(m) : Arrives(y)

\* handleWindowSize.
Resize == \E wide \in BOOLEAN : Arrives([m EXCEPT !.split = wide])

\* A reload takes the attention view away, and not its focus.
Reload ==
  /\ m.modal \in {"none", "Alerts"} /\ m.view = "Attention"
  /\ Arrives([m EXCEPT !.view = "List"])

\* handleHistoryLoaded puts a new history view in the place of the one that is shown.
HistoryLoaded == m.view = "History" /\ Arrives(Type(m, "no"))

UpdateDone == m.input = "running" /\ Arrives([m EXCEPT !.input = "done"])

\* The three seconds in which a second esc discards a text.
Disarm == m.input = "armed" /\ Arrives([m EXCEPT !.input = "dirty"])

\* handleAgentFileCheck answers once, at a time that is not known.
AgentFileCheck == ~m.over /\ m' = Open(m, "AgentPrompt")

NavNext ==
  \/ \E k \in Pressed : KeyPress(k)
  \/ Click \/ Resize \/ Reload \/ HistoryLoaded \/ UpdateDone \/ Disarm \/ AgentFileCheck

NavSpec == NavInit /\ [][NavNext]_m

-----------------------------------------------------------------------------
\* Every field has one of the values that the code gives it.
NavTypeOK ==
  /\ m.view \in View /\ m.modal \in Owning \cup Overlay \cup {"none"}
  /\ m.focus \in Owning \cup {"list", "detail"} \cup (Toggles \ {"Attention"})
  /\ m.typing.Board \in {"no", "search"} /\ m.typing.Memories \in {"no", "search"}
  /\ m.input = "no" \/ m.modal \in {"RepoPicker", "LabelPicker", "Update", "LongformEdit"}
  /\ m.filter \in {"unfiltered", "filtering", "applied"}

\* The key handlers go by the focus, and the rendering by the modal: they name the same one.
Fits(x) ==
  /\ x.focus \in Owning => x.modal = x.focus
  /\ x.modal \in Owning => x.focus = x.modal

Escs(n) == FoldSet(LAMBDA i, S : UNION {Press("Esc", x) : x \in S}, {m}, 1..n)

AtHome(x) ==
  /\ x.view = "List" /\ x.modal \in {"none", "SettingsMenu"}
  /\ x.full = "none" /\ ~(x.details /\ ~x.split)

(* From everywhere eight presses of esc lead to the plain list, and never  *)
(* out of the program ("context-aware cascade closing modals and going     *)
(* back", model_update_input.go:1030).  Not from the tree, which has no case in   *)
(* Cancel, from the question whether to quit, from an update under way,    *)
(* or from a modal over the attention view, whose handler comes first.     *)
EscLeadsHome ==
  /\ ~m.over /\ m.modal # "QuitConfirm" /\ m.view # "Tree" /\ m.input # "running"
  /\ Fits(m) /\ ~(m.view = "Attention" /\ m.modal # "none")
  => \A x \in Escs(8) : AtHome(x) /\ ~x.over

\* A line of text, or the editor, has the keyboard.
Reads(x) ==
  \/ x.modal \in {"BQL", "FieldInput", "LongformEdit"}
  \/ x.modal \in {"RepoPicker", "LabelPicker"} /\ x.input = "search"
  \/ x.modal = "TimeTravelInput"
  \/ x.modal = "none" /\ Typed(x) = "search" /\ x.focus = x.view
  \/ x.modal = "none" /\ x.focus = "list" /\ x.filter = "filtering"
Intercepted(x) ==
  IF x.modal = "TimeTravelInput" \/ Typed(x) = "search" THEN {"Help", "Tutorial"} ELSE {}

(* A letter that is typed is text: it changes neither the view nor the     *)
(* modal nor the focus, and does not quit, although every letter is a      *)
(* command elsewhere (model_update_input.go:910, "every key must reach the *)
(* active view's handler before the global view-switch dispatcher").  The  *)
(* help and the tutorial keys are taken from a prompt and a search line.   *)
TypingStays ==
  ~m.over /\ Reads(m) /\ Fits(m) /\ m.view # "Attention"
    => \A k \in Letters \ Intercepted(m) : \A x \in Press(k, m) :
         x.view = m.view /\ x.modal = m.modal /\ x.focus = m.focus /\ ~x.over

(* No key parts the focus from the modal: none leaves a modal on the       *)
(* screen without the keyboard, or the keyboard with a modal that is gone. *)
(* Not so in the attention view, and after help over the time-travel       *)
(* prompt, which gives the focus to a prompt that is gone.                 *)
FocusGoesWithModal ==
  ~m.over /\ Fits(m) /\ m.view # "Attention" /\ m.beforeHelp # "TimeTravelInput"
  => \A k \in Key : \A x \in Press(k, m) : Fits(x)

(* Help that is opened in a view returns to that view and to its focus     *)
(* (help_keys.go:5, "the bug where dismissing help would always return to  *)
(* focusList, even when the user was in a specialized view"), unless       *)
(* something fills the screen.                                             *)
HelpReturns ==
  \A x \in Press("Help", m) : x.modal = "Help" =>
    \A y \in Press("Esc", x) :
      /\ m.view # "Attention" /\ m.focus = FocusOf(m.view) /\ m.modal = "none"
      /\ m.full = "none" /\ (m.split \/ ~m.details)
      => y.view = m.view /\ y.focus = m.focus

(* The keyboard is where the user sees it to be, in a modal and after it.  *)
FocusFits == FocusGoesWithModal /\ HelpReturns
=============================================================================
