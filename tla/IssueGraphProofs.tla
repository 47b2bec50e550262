-------------------------- MODULE IssueGraphProofs ---------------------------
(***************************************************************************)
(* What the three loops of IssueGraph compute, for any set of issues.      *)
(***************************************************************************)
EXTENDS IssueGraph, TLAPS

-----------------------------------------------------------------------------
(* GetActionableIssues.                                                    *)

\* What is blocked so far is in every set that the blocked hand down to their children.
BlockedInv ==
  /\ pc \in {"propagating", "settled"} =>
       /\ blocked \in SUBSET Ids
       /\ DirectlyBlocked \subseteq blocked
       /\ \A T \in SUBSET Ids : Inherits(T) => blocked \subseteq T
  /\ pc = "settled" => NewlyBlocked = {} \/ depth = MaxDepth

GraphTypes == depth \in Nat
              /\ pc \in {"given", "propagating", "settled", "walking", "explained", "completing", "counted"}

\* The counter of rounds and the place in the call keep their types.
LEMMA GraphTyped == GraphSpec => []GraphTypes
<1>1. GraphInit => GraphTypes
  BY DEF GraphInit, GraphTypes
<1>2. GraphTypes /\ [GraphNext]_vars => GraphTypes'
  BY DEF GraphTypes, GraphNext, vars, Analyse, Propagate, Settle, Explain, Walk, Explained,
         Complete, Take, Check, Counted
<1> QED  BY <1>1, <1>2, PTL DEF GraphSpec

\* BlockedInv is kept by every step: a round adds children of what is blocked and nothing else.
LEMMA BlockedKept == BlockedInv /\ [GraphNext]_vars => BlockedInv'
<1> SUFFICES ASSUME BlockedInv, [GraphNext]_vars PROVE BlockedInv'
  OBVIOUS
<1>1. CASE Analyse
  BY <1>1 DEF Analyse, BlockedInv, Inherits, DirectlyBlocked, NewlyBlocked, Open, OpenBlockers,
              Blockers, Children
<1>2. CASE Propagate
  <2> USE <1>2 DEF Propagate
  <2>1. pc = "propagating" /\ pc' = pc /\ issues' = issues
    OBVIOUS
  <2>2. blocked' \in SUBSET Ids
    BY <2>1 DEF BlockedInv, NewlyBlocked, Open
  <2>3. DirectlyBlocked' \subseteq blocked'
    BY <2>1 DEF BlockedInv, DirectlyBlocked, Open, OpenBlockers, Blockers
  <2>4. ASSUME NEW T \in SUBSET Ids, Inherits(T)' PROVE blocked' \subseteq T
    <3>1. Inherits(T)
      BY <2>1, <2>4 DEF Inherits, DirectlyBlocked, Open, OpenBlockers, Blockers, Children
    <3>2. blocked \subseteq T
      BY <2>1, <3>1 DEF BlockedInv
    <3>3. NewlyBlocked \subseteq T
      BY <3>1, <3>2 DEF NewlyBlocked, Inherits
    <3> QED  BY <3>2, <3>3
  <2> QED  BY <2>1, <2>2, <2>3, <2>4 DEF BlockedInv
<1>3. CASE Settle
  BY <1>3, SMTT(30)
     DEF Settle, BlockedInv, Inherits, DirectlyBlocked, NewlyBlocked, Open, OpenBlockers,
         Blockers, Children
<1>4. CASE UNCHANGED <<issues, blocked, depth>> /\ (pc' = pc \/ pc' \notin {"propagating", "settled"})
  BY <1>4 DEF BlockedInv, Inherits, DirectlyBlocked, NewlyBlocked, Open, OpenBlockers, Blockers,
              Children
<1>5. \/ Analyse \/ Propagate \/ Settle
      \/ UNCHANGED <<issues, blocked, depth>> /\ (pc' = pc \/ pc' \notin {"propagating", "settled"})
  BY DEF GraphNext, vars, Explain, Walk, Explained, Complete, Take, Check, Counted
<1> QED  BY <1>1, <1>2, <1>3, <1>4, <1>5

\* When the rounds end before MaxDepth, the issues that are not offered for work are the smallest set
\* that has what open issues block and is handed down to open children (graph.go:2333).
THEOREM ActionableIssuesAreFree == GraphSpec => []ActionableIsFree
<1>1. GraphInit => BlockedInv
  BY DEF GraphInit, BlockedInv
<1>2. GraphTypes /\ BlockedInv => ActionableIsFree
  <2> SUFFICES ASSUME GraphTypes, BlockedInv, pc = "settled", depth < MaxDepth
               PROVE  Least(blocked, Inherits)
    BY DEF ActionableIsFree
  <2>1. NewlyBlocked = {}
    BY IdsAssumption DEF GraphTypes, BlockedInv
  <2>2. Inherits(blocked)
    BY <2>1 DEF BlockedInv, Inherits, NewlyBlocked
  <2> QED  BY <2>2 DEF BlockedInv, Least
<1> QED  BY <1>1, <1>2, BlockedKept, GraphTyped, PTL DEF GraphSpec

-----------------------------------------------------------------------------
(* GetBlockerChain.                                                        *)

\* What is listed leads to its blockers, in the chain or in the queue, and what is queued comes from
\* what is listed and is no nearer.
ChainInv ==
  pc \in {"walking", "explained"} =>
    /\ entries \in SUBSET [id : Ids, depth : Nat] /\ queue \in SUBSET [id : Ids, depth : Nat]
    /\ Entry(target, 0) \in entries
    /\ \A f \in entries : \A b \in OpenBlockers(f.id) : b \in Seen \/ Entry(b, f.depth + 1) \in queue
    /\ \A T \in SUBSET Ids : Explains(T) => \A e \in entries \cup queue : e.id \in T
    /\ \A e \in entries \cup queue :
         (e.depth = 0 /\ e.id = target)
         \/ \E f \in entries : e.depth = f.depth + 1 /\ Follows(e, f)
    /\ \A e \in entries, q \in queue : e.depth <= q.depth
    /\ \A e, f \in entries : Follows(e, f) => e.depth <= f.depth + 1
    /\ pc = "explained" => queue = {}

\* What the open blockers are queued as.
LEMMA BlockersEntered ==
  ASSUME NEW i, NEW n \in Nat
  PROVE  {Entry(b, n) : b \in OpenBlockers(i)} \in SUBSET [id : Ids, depth : Nat]
<1>1. ASSUME NEW b \in OpenBlockers(i) PROVE Entry(b, n) \in [id : Ids, depth : Nat]
  BY DEF Entry, OpenBlockers, Blockers
<1> QED  BY <1>1

\* ChainInv holds when the walk starts.
LEMMA ChainStarts == ASSUME NEW t \in Ids, Explain(t) PROVE ChainInv'
<1>1. pc' = "walking" /\ issues' = issues /\ target' = t
      /\ entries' = {Entry(t, 0)} /\ queue' = {Entry(b, 1) : b \in OpenBlockers(t)}
  BY DEF Explain
<1>2. entries' \in SUBSET [id : Ids, depth : Nat] /\ queue' \in SUBSET [id : Ids, depth : Nat]
  <2>1. Entry(t, 0) \in [id : Ids, depth : Nat]
    BY DEF Entry
  <2> QED  BY <1>1, <2>1, BlockersEntered
<1>3. Entry(target', 0) \in entries'
  BY <1>1
<1>4. \A f \in entries' : \A b \in OpenBlockers(f.id)' : b \in Seen' \/ Entry(b, f.depth + 1) \in queue'
  BY <1>1 DEF Entry, OpenBlockers, Blockers, Open
<1>5. \A T \in SUBSET Ids : Explains(T)' => \A e \in entries' \cup queue' : e.id \in T
  <2> SUFFICES ASSUME NEW T \in SUBSET Ids, Explains(T)', NEW e \in entries' \cup queue' PROVE e.id \in T
    OBVIOUS
  <2>1. t \in T /\ OpenBlockers(t) \subseteq T
    BY <1>1 DEF Explains, OpenBlockers, Blockers, Open
  <2>2. e = Entry(t, 0) \/ \E b \in OpenBlockers(t) : e = Entry(b, 1)
    BY <1>1
  <2> QED  BY <2>1, <2>2 DEF Entry
<1>6. \A e \in entries' \cup queue' :
        (e.depth = 0 /\ e.id = target') \/ \E f \in entries' : e.depth = f.depth + 1 /\ Follows(e, f)'
  <2> SUFFICES ASSUME NEW e \in entries' \cup queue', ~(e.depth = 0 /\ e.id = t)
               PROVE  e.depth = Entry(t, 0).depth + 1 /\ Follows(e, Entry(t, 0))'
    BY <1>1
  <2>1. PICK b \in OpenBlockers(t) : e = Entry(b, 1)
    BY <1>1 DEF Entry
  <2> QED  BY <1>1, <2>1 DEF Entry, Follows, OpenBlockers, Blockers, Open
<1>7. \A e \in entries', q \in queue' : e.depth <= q.depth
  BY <1>1 DEF Entry
<1>8. \A e, f \in entries' : Follows(e, f)' => e.depth <= f.depth + 1
  BY <1>1 DEF Entry
<1> QED  BY <1>1, <1>2, <1>3, <1>4, <1>5, <1>6, <1>7, <1>8 DEF ChainInv

\* An issue that is listed already is left out: what waited for it finds it in the chain.
LEMMA ChainSkips ==
  ASSUME ChainInv, pc = "walking", NEW q \in queue, q.id \in Seen,
         queue' = queue \ {q}, UNCHANGED <<issues, pc, target, entries>>
  PROVE  ChainInv'
<1>1. \A f \in entries' : \A b \in OpenBlockers(f.id)' : b \in Seen' \/ Entry(b, f.depth + 1) \in queue'
  <2> SUFFICES ASSUME NEW f \in entries, NEW b \in OpenBlockers(f.id), b \notin Seen
               PROVE  Entry(b, f.depth + 1) \in queue \ {q}
    BY DEF OpenBlockers, Blockers, Open, Seen
  <2>1. Entry(b, f.depth + 1) \in queue
    BY DEF ChainInv
  <2> QED  BY <2>1 DEF Entry
<1>2. \A T \in SUBSET Ids : Explains(T)' => \A e \in entries' \cup queue' : e.id \in T
  BY DEF ChainInv, Explains, OpenBlockers, Blockers, Open
<1>3. \A e \in entries' \cup queue' :
        (e.depth = 0 /\ e.id = target') \/ \E f \in entries' : e.depth = f.depth + 1 /\ Follows(e, f)'
  BY DEF ChainInv, Follows, OpenBlockers, Blockers, Open
<1>4. \A e, f \in entries' : Follows(e, f)' => e.depth <= f.depth + 1
  BY DEF ChainInv, Follows, OpenBlockers, Blockers, Open
<1> QED  BY <1>1, <1>2, <1>3, <1>4 DEF ChainInv

\* The nearest that is queued is listed: nothing in the chain is farther from the target than it.
LEMMA ChainGrows ==
  ASSUME ChainInv, pc = "walking", NEW q \in queue, q.id \notin Seen,
         \A o \in queue : q.depth <= o.depth,
         entries' = entries \cup {Entry(q.id, q.depth)},
         queue' = (queue \ {q}) \cup {Entry(b, q.depth + 1) : b \in OpenBlockers(q.id)},
         UNCHANGED <<issues, pc, target>>
  PROVE  ChainInv'
<1>0. entries \in SUBSET [id : Ids, depth : Nat] /\ queue \in SUBSET [id : Ids, depth : Nat]
  BY DEF ChainInv
<1>1. Entry(q.id, q.depth) = q
  BY <1>0 DEF Entry
<1>2. entries' = entries \cup {q}
  BY <1>1
<1>3. \A i : OpenBlockers(i)' = OpenBlockers(i)
  BY DEF OpenBlockers, Blockers, Open
<1>4. \A e, f : Follows(e, f)' = Follows(e, f)
  BY <1>3 DEF Follows
<1>5. Seen' = Seen \cup {q.id}
  BY <1>2 DEF Seen
<1>6. queue' \in SUBSET [id : Ids, depth : Nat]
  <2>1. q.depth + 1 \in Nat
    BY <1>0
  <2> QED  BY <1>0, <2>1, BlockersEntered
<1>7. \A f \in entries' : \A b \in OpenBlockers(f.id)' : b \in Seen' \/ Entry(b, f.depth + 1) \in queue'
  <2> SUFFICES ASSUME NEW f \in entries', NEW b \in OpenBlockers(f.id), b \notin Seen'
               PROVE  Entry(b, f.depth + 1) \in queue'
    BY <1>3
  <2>1. CASE f = q
    BY <2>1
  <2>2. CASE f \in entries
    <3>1. Entry(b, f.depth + 1) \in queue
      BY <2>2, <1>5 DEF ChainInv
    <3>2. Entry(b, f.depth + 1) # q
      BY <1>5 DEF Entry
    <3> QED  BY <3>1, <3>2
  <2> QED  BY <1>2, <2>1, <2>2
<1>8. \A T \in SUBSET Ids : Explains(T)' => \A e \in entries' \cup queue' : e.id \in T
  <2> SUFFICES ASSUME NEW T \in SUBSET Ids, Explains(T)', NEW e \in entries' \cup queue' PROVE e.id \in T
    OBVIOUS
  <2>1. Explains(T)
    BY <1>3 DEF Explains
  <2>2. \A o \in entries \cup queue : o.id \in T
    BY <2>1 DEF ChainInv
  <2>3. OpenBlockers(q.id) \subseteq T
    BY <2>1, <2>2 DEF Explains
  <2> QED  BY <1>2, <2>2, <2>3 DEF Entry
<1>9. \A e \in entries' \cup queue' :
        (e.depth = 0 /\ e.id = target') \/ \E f \in entries' : e.depth = f.depth + 1 /\ Follows(e, f)'
  <2> SUFFICES ASSUME NEW e \in entries' \cup queue', ~(e.depth = 0 /\ e.id = target)
               PROVE  \E f \in entries' : e.depth = f.depth + 1 /\ Follows(e, f)
    BY <1>4
  <2>1. CASE e \in entries \cup queue
    BY <2>1, <1>2 DEF ChainInv
  <2>2. CASE \E b \in OpenBlockers(q.id) : e = Entry(b, q.depth + 1)
    BY <2>2, <1>2 DEF Entry, Follows
  <2> QED  BY <1>2, <2>1, <2>2
<1>10. \A e \in entries', o \in queue' : e.depth <= o.depth
  <2> SUFFICES ASSUME NEW e \in entries', NEW o \in queue' PROVE e.depth <= o.depth
    OBVIOUS
  <2>1. e.depth \in Nat /\ q.depth \in Nat
    BY <1>0, <1>2
  <2>2. e.depth <= q.depth
    BY <1>2, <2>1 DEF ChainInv
  <2>3. CASE o \in queue
    <3>1. o.depth \in Nat /\ q.depth <= o.depth
      BY <2>3, <1>0
    <3> QED  BY <3>1, <2>1, <2>2
  <2>4. CASE \E b \in OpenBlockers(q.id) : o = Entry(b, q.depth + 1)
    <3>1. o.depth = q.depth + 1
      BY <2>4 DEF Entry
    <3> QED  BY <3>1, <2>1, <2>2
  <2> QED  BY <2>3, <2>4
<1>11. \A e, f \in entries' : Follows(e, f)' => e.depth <= f.depth + 1
  <2> SUFFICES ASSUME NEW e \in entries', NEW f \in entries', Follows(e, f) PROVE e.depth <= f.depth + 1
    BY <1>4
  <2>1. e.depth \in Nat /\ f.depth \in Nat /\ q.depth \in Nat
    BY <1>0, <1>2
  <2>2. CASE e \in entries /\ f \in entries
    BY <2>2 DEF ChainInv
  <2>3. CASE f = q
    <3>1. e.depth <= q.depth
      BY <1>2, <2>1 DEF ChainInv
    <3> QED  BY <2>1, <2>3, <3>1
  <2>4. CASE e = q /\ f \in entries
    <3>1. Entry(q.id, f.depth + 1) \in queue
      BY <2>4 DEF ChainInv, Follows
    <3>2. q.depth <= Entry(q.id, f.depth + 1).depth
      BY <3>1
    <3> QED  BY <3>2, <2>4 DEF Entry
  <2> QED  BY <1>2, <2>2, <2>3, <2>4
<1>12. Entry(target', 0) \in entries' /\ pc' = "walking" /\ entries' \in SUBSET [id : Ids, depth : Nat]
  BY <1>0, <1>2 DEF ChainInv, Entry
<1> QED  BY <1>6, <1>7, <1>8, <1>9, <1>10, <1>11, <1>12 DEF ChainInv

\* ChainInv is kept by every step.
LEMMA ChainKept == ChainInv /\ [GraphNext]_vars => ChainInv'
<1> SUFFICES ASSUME ChainInv, [GraphNext]_vars PROVE ChainInv'
  OBVIOUS
<1>1. ASSUME NEW t \in Ids, Explain(t) PROVE ChainInv'
  BY <1>1, ChainStarts
<1>2. CASE Walk
  <2>1. PICK q \in queue : (\A o \in queue : q.depth <= o.depth) /\ WalkOn(q)
    BY <1>2 DEF Walk
  <2>2. pc = "walking" /\ UNCHANGED <<issues, pc, target>>
    BY <1>2 DEF Walk
  <2>3. CASE q.id \in Seen
    BY <2>1, <2>2, <2>3, ChainSkips DEF WalkOn
  <2>4. CASE q.id \notin Seen
    BY <2>1, <2>2, <2>4, ChainGrows DEF WalkOn
  <2> QED  BY <2>3, <2>4
<1>3. CASE Explained
  BY <1>3 DEF Explained, ChainInv, Seen, Follows, Explains, OpenBlockers, Blockers, Open
<1>4. CASE UNCHANGED <<issues, target, entries, queue>> /\ pc' = pc
  BY <1>4 DEF ChainInv, Seen, Follows, Explains, OpenBlockers, Blockers, Open
<1>5. CASE pc' \notin {"walking", "explained"}
  BY <1>5 DEF ChainInv
<1>6. \/ \E t \in Ids : Explain(t)
      \/ Walk \/ Explained
      \/ UNCHANGED <<issues, target, entries, queue>> /\ pc' = pc
      \/ pc' \notin {"walking", "explained"}
  BY DEF GraphNext, vars, Analyse, Propagate, Settle, Complete, Take, Check, Counted
<1> QED  BY <1>1, <1>2, <1>3, <1>4, <1>5, <1>6

\* The chain is the target and what blocks it, through open blockers only, each issue once at its
\* distance from the target, whatever cycles there are (graph.go:2538).
THEOREM ChainIsExplanation == GraphSpec => []ChainExplains
<1>1. GraphInit => ChainInv
  BY DEF GraphInit, ChainInv
<1>2. ChainInv => ChainExplains
  <2> SUFFICES ASSUME ChainInv, pc = "explained"
               PROVE  /\ Least(Seen, Explains)
                      /\ \A e \in entries : IF e.depth = 0 THEN e.id = target
                                            ELSE \E f \in entries : e.depth = f.depth + 1 /\ Follows(e, f)
                      /\ \A e, f \in entries : Follows(e, f) => e.depth <= f.depth + 1
    BY DEF ChainExplains
  <2>1. Explains(Seen)
    <3>1. target \in Seen
      BY DEF ChainInv, Seen, Entry
    <3>2. \A f \in entries : OpenBlockers(f.id) \subseteq Seen
      BY DEF ChainInv
    <3> QED  BY <3>1, <3>2 DEF Explains, Seen
  <2>2. \A T \in SUBSET Ids : Explains(T) => Seen \subseteq T
    BY DEF ChainInv, Seen
  <2>3. ASSUME NEW e \in entries PROVE IF e.depth = 0 THEN e.id = target
                                       ELSE \E f \in entries : e.depth = f.depth + 1 /\ Follows(e, f)
    BY DEF ChainInv
  <2>4. \A e, f \in entries : Follows(e, f) => e.depth <= f.depth + 1
    BY DEF ChainInv
  <2> QED  BY <2>1, <2>2, <2>3, <2>4 DEF Least
<1> QED  BY <1>1, <1>2, ChainKept, PTL DEF GraphSpec

-----------------------------------------------------------------------------
(* countTransitiveUnblocks.                                                *)

\* What is freed and not counted is still to be checked, or depends on what is queued.
CascadeInv ==
  IF pc \notin {"completing", "counted"} THEN rest = {} ELSE
    /\ done \in SUBSET Ids /\ target \in done /\ queue \in SUBSET done
    /\ rest # {} => \E i \in done : rest \subseteq Dependents(i)
    /\ \A T \in SUBSET Ids : Cascades(T) => done \subseteq T
    /\ \A d \in Open : Blockers(d) \cap done # {} /\ OpenBlockers(d) \subseteq done
         => d \in done \/ d \in rest \/ Blockers(d) \cap queue # {}
    /\ pc = "counted" => queue = {} /\ rest = {}

\* CascadeInv is kept when an issue is freed: what it was the last to block depends on the queue.
LEMMA CascadeFrees ==
  ASSUME CascadeInv, pc = "completing", NEW d \in rest, Frees(d),
         done' = done \cup {d}, queue' = queue \cup {d}, rest' = rest \ {d},
         UNCHANGED <<issues, pc, target>>
  PROVE  CascadeInv'
<1>1. PICK i \in done : rest \subseteq Dependents(i)
  BY DEF CascadeInv
<1>2. d \in Open /\ d \in Ids /\ OpenBlockers(d) \subseteq done
  BY DEF Frees, Open
<1>3. done' \in SUBSET Ids /\ target' \in done' /\ queue' \in SUBSET done'
  BY <1>2 DEF CascadeInv
<1>4. rest' # {} => \E j \in done' : rest' \subseteq Dependents(j)'
  BY <1>1 DEF Dependents
<1>5. ASSUME NEW T \in SUBSET Ids, Cascades(T)' PROVE done' \subseteq T
  <2>1. Cascades(T)
    BY <1>5 DEF Cascades, Open, OpenBlockers, Blockers
  <2>2. done \subseteq T
    BY <2>1 DEF CascadeInv
  <2>3. i \in Blockers(d)
    BY <1>1, <1>2, <2>2 DEF Dependents, Blockers
  <2>4. d \in T
    BY <1>2, <2>1, <2>2, <2>3 DEF Cascades
  <2> QED  BY <2>2, <2>4
<1>6. ASSUME NEW e \in Open', (Blockers(e) \cap done # {})', (OpenBlockers(e) \subseteq done)'
      PROVE  e \in done' \/ e \in rest' \/ Blockers(e)' \cap queue' # {}
  <2>1. e \in Open /\ Blockers(e)' = Blockers(e) /\ OpenBlockers(e)' = OpenBlockers(e)
    BY DEF Open, OpenBlockers, Blockers
  <2>2. CASE d \in Blockers(e)
    BY <2>1, <2>2
  <2>3. CASE d \notin Blockers(e)
    <3>1. Blockers(e) \cap done # {} /\ OpenBlockers(e) \subseteq done
      BY <1>6, <2>1, <2>3 DEF OpenBlockers
    <3> QED  BY <2>1, <3>1 DEF CascadeInv
  <2> QED  BY <2>2, <2>3
<1> QED  BY <1>3, <1>4, <1>5, <1>6 DEF CascadeInv

\* CascadeInv is kept by every step.
LEMMA CascadeKept == CascadeInv /\ [GraphNext]_vars => CascadeInv'
<1> SUFFICES ASSUME CascadeInv, [GraphNext]_vars PROVE CascadeInv'
  OBVIOUS
<1>1. ASSUME NEW t \in Ids, Complete(t) PROVE CascadeInv'
  <2>1. issues' = issues /\ pc' = "completing" /\ target' = t /\ queue' = {t} /\ done' = {t}
    BY <1>1 DEF Complete
  <2>2. rest' = rest
    BY <1>1 DEF Complete
  <2>3. rest = {}
    BY <1>1 DEF Complete, CascadeInv
  <2>4. \A T \in SUBSET Ids : Cascades(T)' => done' \subseteq T
    BY <2>1 DEF Cascades
  <2>5. \A e \in Open' : (Blockers(e) \cap done # {})' /\ (OpenBlockers(e) \subseteq done)'
          => e \in done' \/ e \in rest' \/ Blockers(e)' \cap queue' # {}
    BY <2>1
  <2>6. done' \in SUBSET Ids /\ target' \in done' /\ queue' \in SUBSET done'
    BY <2>1
  <2>7. pc' \in {"completing", "counted"} /\ rest' = {} /\ pc' # "counted"
    BY <2>1, <2>2, <2>3
  <2> QED  BY <2>4, <2>5, <2>6, <2>7 DEF CascadeInv
<1>2. ASSUME NEW i \in Ids, Take(i) PROVE CascadeInv'
  <2>1. pc = "completing" /\ rest = {} /\ i \in queue /\ queue' = queue \ {i} /\ rest' = Dependents(i)
        /\ UNCHANGED <<issues, pc, target, done>>
    BY <1>2 DEF Take
  <2>2. \E j \in done' : rest' \subseteq Dependents(j)'
    BY <2>1 DEF CascadeInv, Dependents
  <2>3. \A T \in SUBSET Ids : Cascades(T)' => done' \subseteq T
    BY <2>1 DEF CascadeInv, Cascades, Open, OpenBlockers, Blockers
  <2>4. ASSUME NEW e \in Open', (Blockers(e) \cap done # {})', (OpenBlockers(e) \subseteq done)'
        PROVE  e \in done' \/ e \in rest' \/ Blockers(e)' \cap queue' # {}
    <3>1. e \in Open /\ Blockers(e)' = Blockers(e) /\ OpenBlockers(e)' = OpenBlockers(e) /\ e \in Ids
      BY <2>1 DEF Open, OpenBlockers, Blockers
    <3>2. e \in done \/ Blockers(e) \cap queue # {}
      BY <2>1, <2>4, <3>1 DEF CascadeInv
    <3>3. i \in Blockers(e) => e \in rest'
      BY <2>1, <3>1 DEF Dependents, Blockers
    <3> QED  BY <2>1, <3>1, <3>2, <3>3
  <2> QED  BY <2>1, <2>2, <2>3, <2>4 DEF CascadeInv
<1>3. ASSUME NEW d \in Ids, Check(d) PROVE CascadeInv'
  <2>1. pc = "completing" /\ d \in rest /\ rest' = rest \ {d} /\ CheckOne(d) /\ UNCHANGED <<issues, pc, target>>
    BY <1>3 DEF Check
  <2>2. CASE Frees(d)
    BY <2>1, <2>2, CascadeFrees DEF CheckOne
  <2>3. CASE ~Frees(d)
    <3>1. UNCHANGED <<done, queue>>
      BY <2>1, <2>3 DEF CheckOne
    <3>2. rest' # {} => \E j \in done' : rest' \subseteq Dependents(j)'
      BY <2>1, <3>1 DEF CascadeInv, Dependents
    <3>3. \A T \in SUBSET Ids : Cascades(T)' => done' \subseteq T
      BY <2>1, <3>1 DEF CascadeInv, Cascades, Open, OpenBlockers, Blockers
    <3>4. \A e \in Open' : (Blockers(e) \cap done # {})' /\ (OpenBlockers(e) \subseteq done)'
            => e \in done' \/ e \in rest' \/ Blockers(e)' \cap queue' # {}
      BY <2>1, <2>3, <3>1 DEF CascadeInv, Frees, Open, OpenBlockers, Blockers
    <3> QED  BY <2>1, <3>1, <3>2, <3>3, <3>4 DEF CascadeInv
  <2> QED  BY <2>2, <2>3
<1>4. CASE Counted
  BY <1>4 DEF Counted, CascadeInv, Cascades, Dependents, Open, OpenBlockers, Blockers
<1>5. CASE UNCHANGED <<issues, pc, target, queue, done, rest>>
  BY <1>5 DEF CascadeInv, Cascades, Dependents, Open, OpenBlockers, Blockers
<1>6. CASE UNCHANGED rest /\ {pc, pc'} \cap {"completing", "counted"} = {}
  BY <1>6 DEF CascadeInv
<1> QED  BY <1>1, <1>2, <1>3, <1>4, <1>5, <1>6
         DEF GraphNext, vars, Analyse, Propagate, Settle, Explain, Walk, Explained

\* Whatever order the queue is taken in, what is counted is the target and every issue that it, and
\* what it frees in turn, was the last to block (priority.go:818).
THEOREM CascadeIsComplete == GraphSpec => []CascadeComplete
<1>1. GraphInit => CascadeInv
  BY DEF GraphInit, CascadeInv
<1>2. CascadeInv => CascadeComplete
  <2> SUFFICES ASSUME CascadeInv, pc = "counted" PROVE Least(done, Cascades) /\ Unblocks(target) \subseteq done
    BY DEF CascadeComplete
  <2>1. target \in done /\ queue = {} /\ rest = {}
    BY DEF CascadeInv
  <2>2. \A d \in Open : Blockers(d) \cap done # {} /\ OpenBlockers(d) \subseteq done => d \in done
    BY <2>1 DEF CascadeInv
  <2>3. Cascades(done)
    BY <2>1, <2>2 DEF Cascades
  <2>4. \A T \in SUBSET Ids : Cascades(T) => done \subseteq T
    BY DEF CascadeInv
  <2>5. target \in Ids
    BY <2>1 DEF CascadeInv
  <2>6. Unblocks(target) \subseteq done
    BY <2>1, <2>2, <2>5 DEF Unblocks, Dependents, Blockers
  <2> QED  BY <2>3, <2>4, <2>6 DEF Least
<1> QED  BY <1>1, <1>2, CascadeKept, PTL DEF GraphSpec
=============================================================================
