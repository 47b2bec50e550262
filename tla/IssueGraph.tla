------------------------------ MODULE IssueGraph ------------------------------
(***************************************************************************)
(* pkg/analysis: what can be worked on, why an issue cannot, and what      *)
(* completing one would free.  GetActionableIssues, GetBlockerChain and    *)
(* countTransitiveUnblocks are loops over the same issues; a behaviour is  *)
(* one call of one of them.  Which of several waiting items a loop takes   *)
(* first is left open where the code's queue or map decides it.            *)
(***************************************************************************)
EXTENDS Naturals

CONSTANTS Ids,        \* the issues there are
          Missing,    \* an issue that a dependency names and that is not there
          MaxDepth,   \* maxDepth, 50 in the code
          Inputs      \* the sets of issues that are analysed

Issues == [closed : SUBSET Ids, blocks : SUBSET (Ids \X (Ids \cup {Missing})),
           parents : SUBSET (Ids \X (Ids \cup {Missing}))]

ASSUME IdsAssumption == Missing \notin Ids /\ MaxDepth \in Nat /\ Inputs \subseteq Issues

VARIABLES issues, pc,
          blocked, depth,           \* GetActionableIssues
          target, queue, entries,   \* GetBlockerChain
          done, rest                \* countTransitiveUnblocks, which has a target and a queue too
vars == <<issues, pc, blocked, depth, target, queue, entries, done, rest>>

Open == Ids \ issues.closed
Blockers(i) == {b \in Ids : <<i, b>> \in issues.blocks}
Dependents(i) == {d \in Ids : <<d, i>> \in issues.blocks}
OpenBlockers(i) == Blockers(i) \cap Open
Children(p) == {c \in Ids : <<c, p>> \in issues.parents}

GraphInit ==
  /\ issues \in Inputs /\ pc = "given"
  /\ blocked = {} /\ depth = 0
  /\ target = Missing /\ queue = {} /\ entries = {}
  /\ done = {} /\ rest = {}

-----------------------------------------------------------------------------
(* GetActionableIssues: the children of a blocked issue are blocked.       *)

DirectlyBlocked == {i \in Open : OpenBlockers(i) # {}}

\* Variant: the children are those of the issues that are blocked by another.
NewlyOfDirect == {c \in Open \ blocked : \E p \in DirectlyBlocked : c \in Children(p)}
NewlyBlocked == {c \in Open \ blocked : \E p \in blocked : c \in Children(p)}

Analyse ==
  /\ pc = "given" /\ pc' = "propagating" /\ blocked' = DirectlyBlocked
  /\ UNCHANGED <<issues, depth, target, queue, entries, done, rest>>

Propagate ==
  /\ pc = "propagating" /\ depth < MaxDepth /\ NewlyBlocked # {}
  /\ blocked' = blocked \cup NewlyBlocked /\ depth' = depth + 1
  /\ UNCHANGED <<issues, pc, target, queue, entries, done, rest>>

Settle ==
  /\ pc = "propagating" /\ (NewlyBlocked = {} \/ depth = MaxDepth) /\ pc' = "settled"
  /\ UNCHANGED <<issues, blocked, depth, target, queue, entries, done, rest>>

Actionable == Open \ blocked

-----------------------------------------------------------------------------
(* GetBlockerChain: breadth first from the target over open blockers.      *)

Entry(i, n) == [id |-> i, depth |-> n]
Seen == {e.id : e \in entries}
IsRoot(i) == OpenBlockers(i) = {}

Explain(t) ==
  /\ pc = "given" /\ pc' = "walking"
  /\ target' = t /\ entries' = {Entry(t, 0)} /\ queue' = {Entry(b, 1) : b \in OpenBlockers(t)}
  /\ UNCHANGED <<issues, blocked, depth, done, rest>>

\* Variant: the blockers of an issue that is itself blocked are not followed.
WalkOnce(q) ==
  IF q.id \in Seen THEN queue' = queue \ {q} /\ UNCHANGED entries
  ELSE entries' = entries \cup {Entry(q.id, q.depth)} /\ queue' = queue \ {q}
WalkOn(q) ==
  IF q.id \in Seen THEN queue' = queue \ {q} /\ UNCHANGED entries
  ELSE /\ entries' = entries \cup {Entry(q.id, q.depth)}
       /\ queue' = (queue \ {q}) \cup {Entry(b, q.depth + 1) : b \in OpenBlockers(q.id)}

\* The queue is first in, first out: what was found nearer is taken earlier.
Walk ==
  /\ pc = "walking"
  /\ \E q \in queue : (\A o \in queue : q.depth <= o.depth) /\ WalkOn(q)
  /\ UNCHANGED <<issues, pc, blocked, depth, target, done, rest>>

Explained ==
  /\ pc = "walking" /\ queue = {} /\ pc' = "explained"
  /\ UNCHANGED <<issues, blocked, depth, target, queue, entries, done, rest>>

RootBlockers == {i \in Seen \ {target} : IsRoot(i)}

-----------------------------------------------------------------------------
(* computeUnblocks, and countTransitiveUnblocks, which completes what it   *)
(* has freed.                                                              *)

Unblocks(i) == {d \in Dependents(i) \cap Open : OpenBlockers(d) \subseteq {i}}

Complete(t) ==
  /\ pc = "given" /\ pc' = "completing"
  /\ target' = t /\ queue' = {t} /\ done' = {t}
  /\ UNCHANGED <<issues, blocked, depth, entries, rest>>

Take(i) ==
  /\ pc = "completing" /\ rest = {} /\ i \in queue
  /\ queue' = queue \ {i} /\ rest' = Dependents(i)
  /\ UNCHANGED <<issues, pc, blocked, depth, target, entries, done>>

Frees(d) == d \in Open \ done /\ OpenBlockers(d) \subseteq done

\* Variant: what is freed is counted and not completed in its turn.
CheckFirstOnly(d) ==
  IF Frees(d) THEN done' = done \cup {d} /\ UNCHANGED queue ELSE UNCHANGED <<done, queue>>
CheckOne(d) ==
  IF Frees(d) THEN done' = done \cup {d} /\ queue' = queue \cup {d} ELSE UNCHANGED <<done, queue>>
Check(d) ==
  /\ pc = "completing" /\ d \in rest /\ rest' = rest \ {d} /\ CheckOne(d)
  /\ UNCHANGED <<issues, pc, blocked, depth, target, entries>>

Counted ==
  /\ pc = "completing" /\ queue = {} /\ rest = {} /\ pc' = "counted"
  /\ UNCHANGED <<issues, blocked, depth, target, queue, entries, done, rest>>

-----------------------------------------------------------------------------
GraphNext ==
  \/ Analyse \/ Propagate \/ Settle
  \/ Walk \/ Explained \/ Counted
  \/ \E i \in Ids : Explain(i) \/ Complete(i) \/ Take(i) \/ Check(i)
GraphSpec == GraphInit /\ [][GraphNext]_vars

-----------------------------------------------------------------------------
\* S is the smallest set of issues for which Holds is true.
Least(S, Holds(_)) == Holds(S) /\ \A T \in SUBSET Ids : Holds(T) => S \subseteq T

\* What is not offered for work is exactly what is blocked, or below something blocked by open
\* issues only (graph.go:2333, "None of its parent issues ... are themselves blocked").
Inherits(S) == DirectlyBlocked \subseteq S /\ \A p \in S : Children(p) \cap Open \subseteq S
ActionableIsFree == pc = "settled" /\ depth < MaxDepth => Least(blocked, Inherits)

\* The chain has the target, every open blocker of what it has, and nothing else; the depth of an
\* entry is its distance from the target (graph.go:2538, "traverses the blocker graph to find all
\* root blockers").
Explains(S) == target \in S /\ \A i \in S : OpenBlockers(i) \subseteq S
Follows(e, f) == e.id \in OpenBlockers(f.id)
ChainExplains ==
  pc = "explained" =>
    /\ Least(Seen, Explains)
    /\ \A e \in entries : IF e.depth = 0 THEN e.id = target
                          ELSE \E f \in entries : e.depth = f.depth + 1 /\ Follows(e, f)
    /\ \A e, f \in entries : Follows(e, f) => e.depth <= f.depth + 1

\* Whatever the order, exactly the issues that can be completed one after the other once the target
\* is are counted: a diamond once, and nothing with another open blocker (priority.go:818).
Cascades(S) ==
  target \in S /\ \A d \in Open : Blockers(d) \cap S # {} /\ OpenBlockers(d) \subseteq S => d \in S
CascadeComplete == pc = "counted" => Least(done, Cascades) /\ Unblocks(target) \subseteq done
=============================================================================
