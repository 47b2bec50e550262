------------------------------- MODULE MCGraph -------------------------------
(***************************************************************************)
(* The questions asked of every set of issues in MCInputs: those of        *)
(* IssueGraph, step by step, and those of GraphAlgorithms, at once.        *)
(***************************************************************************)
EXTENDS IssueGraph, GraphAlgorithms

Below == {p \in Ids \X Ids : p[1] > p[2]}
Small == {i \in Ids : i <= 4}
Pairs == {p \in Small \X Small : p[1] # p[2]}
UpTo(k, S) == UNION {kSubset(n, S) : n \in 0..k}

\* Every graph of four issues, every acyclic one of five, a few dependencies of any kind among
\* open and closed issues, and a dependency of the first with parents of any.
MCInputs ==
  [closed : {{}}, blocks : SUBSET Pairs \cup SUBSET Below, parents : {{}}]
  \cup [closed : {{}, {4}}, blocks : UpTo(3, Small \X (Small \cup {Missing})), parents : {{}}]
  \cup [closed : {{}, {4}}, blocks : {{<<1, b>>} : b \in Small}, parents : UpTo(3, Pairs)]

-----------------------------------------------------------------------------
\* What NewAnalyzer makes of the issues: an edge for each blocking dependency on an issue there is.
Edges == issues.blocks \cap (Ids \X Ids)
OpenEdges == Edges \cap (Ids \X Open)
N == Cardinality(Ids)

IsCycle(E, c) == Len(c) > 1 /\ Last(c) = c[1] /\ IsInjective(Front(c))
                 /\ \A i \in DOMAIN Front(c) : <<c[i], c[i + 1]>> \in E

\* Each group of issues that depend on each other is reported by one cycle of real dependencies, read
\* backwards; a chain is reported as cyclic exactly when a cycle is reachable, as it must be when it
\* has no root; and a dependency is refused exactly when it closes a cycle, with the cycle it closes
\* (graph_cycles.go:10, graph.go:2498, cycle_warnings.go:141).
CyclesReported ==
  /\ pc = "given" =>
       LET found == FindCyclesSafe(Edges, Ids) IN
       /\ \A c \in found : IsCycle(Edges, Reverse(c))
       /\ \A g \in TarjanSCC(Edges, Ids) :
            Cardinality({c \in found : ToSet(c) \subseteq g}) = IF Cyclic(Edges, g) THEN 1 ELSE 0
       /\ \A from, to \in Ids :
            LET c == WouldCreateCycle(Edges, from, to) IN
            IF from = to \/ from \in Ahead(Edges, to) THEN IsCycle(Edges \cup {<<from, to>>}, c)
            ELSE c = <<>>
  /\ pc = "explained" =>
       LET cycle == DetectBlockerCycles(OpenEdges, target) IN
       /\ cycle \subseteq {u \in Seen : u \in Ahead(OpenEdges, u)}
       /\ cycle = {} <=> ~Cyclic(OpenEdges, Seen)
       /\ RootBlockers = {} /\ Seen # {target} => cycle # {}

\* The numbers of phase 2 are what they are named for: the largest k such that the issue is in a group
\* where each has k neighbours; whether its removal parts two of its neighbours; and, when there is no
\* cycle, the length of the longest chain that ends at it, and how much shorter than the longest of all
\* is the longest one through it (graph.go:1993, 2103, 2181, 2276).
MetricsRight ==
  pc = "given" =>
    LET order == TopologicalOrder(Edges, Ids)
        heights == ComputeHeights(Edges, TopoSorted(Edges, Ids))
        slack == ComputeSlack(Edges, order)
        core == ComputeKCore(Edges, N)
        both == Edges \cup {<<e[2], e[1]>> : e \in Edges}
        groups(k) == {S \in SUBSET Ids : \A v \in S : Cardinality(Neighbors(Edges, v) \cap S) >= k}
        chains == {S \in SUBSET Ids \ {{}} :
                     LET s == SelectSeq(order, LAMBDA v : v \in S)
                     IN \A i \in 1..(Len(s) - 1) : <<s[i + 1], s[i]>> \in Edges}
        longest(Ss) == Max({Cardinality(S) : S \in Ss})
        ends(v) == {S \in chains : v \in S /\ From(Edges, v) \cap S = {}}
    IN /\ \A v \in Ids : core[v] = Max({k \in 0..N : \E S \in groups(k) : v \in S})
       /\ FindArticulationPoints(Edges, N) =
            {v \in Ids : \E u, w \in Neighbors(Edges, v) :
               w \notin Reach({e \in both : v \notin {e[1], e[2]}}, {u})}
       /\ ~Cyclic(Edges, Ids) => \A v \in Ids :
            /\ heights[v] = longest(ends(v))
            /\ slack[v] = longest(chains) - longest({S \in chains : v \in S})

\* The tracks share out what can be worked on, and work in one track never gates an issue that work
\* in another one gates too (plan.go:40, "parallel tracks identified for concurrent work").
TracksSeparate ==
  pc = "settled" =>
    LET tracks == BuildTracks(Edges, N, Actionable) IN
    /\ UNION tracks = Actionable
    /\ \A s, t \in tracks : s # t =>
         /\ s \cap t = {}
         /\ \A a \in s, b \in t : \A i \in Ids : ~({a, b} \subseteq {i} \cup Ahead(Edges, i))

\* What GraphAlgorithms computes by stacks, bins and orders is what its definition says.
AlgorithmsAgree == CyclesReported /\ MetricsRight /\ TracksSeparate

\* The dependency that a cycle warning offers to remove is one of the cycle
\* (cycle_warnings.go:108, "Suggest removing the last edge in the cycle").
SuggestedEdgeExists ==
  pc = "given" => \A c \in FindCyclesSafe(Edges, Ids) : Len(c) > 2 => SuggestedRemoval(c) \in Edges
=============================================================================
