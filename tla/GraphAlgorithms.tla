--------------------------- MODULE GraphAlgorithms ---------------------------
(***************************************************************************)
(* pkg/analysis: the algorithms on the dependency graph, each as the code  *)
(* runs it, next to a definition of what it computes.  A graph is a set of *)
(* edges over the nodes 1..n: <<u, v>> when u depends on v.                *)
(***************************************************************************)
EXTENDS Naturals, SequencesExt

Ascending(S) == SelectSeq([v \in 1..Max({0} \cup S) |-> v], LAMBDA v : v \in S)

\* compactDirectedGraph.
From(E, u) == {e[2] : e \in {e \in E : e[1] = u}}
To(E, u) == {e[1] : e \in {e \in E : e[2] = u}}
\* newUndirectedAdjacency.
Neighbors(E, u) == (From(E, u) \cup To(E, u)) \ {u}

\* The nodes that a path leads to, of one edge or more.
RECURSIVE Reach(_, _)
Reach(E, S) ==
  LET next == S \cup UNION {From(E, u) : u \in S} IN IF next = S THEN S ELSE Reach(E, next)
Ahead(E, u) == Reach(E, From(E, u))
Cyclic(E, nodes) == \E u \in nodes : u \in Ahead(E, u)

-----------------------------------------------------------------------------
(* topo.Sort and topo.TarjanSCC of gonum.                                  *)

RECURSIVE Sorted(_, _)
Sorted(E, nodes) ==
  IF nodes = {} THEN <<>>
  ELSE LET u == CHOOSE u \in nodes : To(E, u) \cap nodes = {} IN <<u>> \o Sorted(E, nodes \ {u})
TopoSorted(E, nodes) == IF Cyclic(E, nodes) THEN <<>> ELSE Sorted(E, nodes)
TarjanSCC(E, nodes) == {{v \in nodes : v = u \/ (v \in Ahead(E, u) /\ u \in Ahead(E, v))} : u \in nodes}

-----------------------------------------------------------------------------
(* graph_cycles.go.                                                        *)

\* findOneCycleInSCC, depth first over the edges backwards: path is the stack, next what is left
\* of each node's neighbours, and what has been visited and is not on the path was backtracked from.
RECURSIVE CycleFrom(_, _, _, _)
CycleFrom(adj, path, next, visited) ==
  IF path = <<>> THEN <<>>
  ELSE LET u == Last(path) IN
       IF next[u] = <<>> THEN CycleFrom(adj, Front(path), next, visited)
       ELSE LET v == Head(next[u])
                left == [next EXCEPT ![u] = Tail(@)] IN
            IF Contains(path, v)
            THEN Append(SubSeq(path, CHOOSE i \in DOMAIN path : path[i] = v, Len(path)), v)
            ELSE IF v \in visited THEN CycleFrom(adj, path, left, visited)
            ELSE CycleFrom(adj, Append(path, v), left, visited \cup {v})

FindOneCycleInSCC(E, scc) ==
  LET adj == [u \in scc |-> Ascending(To(E, u) \cap scc)]
      first == Ascending(scc)[1]
  IN CycleFrom(adj, <<first>>, adj, {first})

FindCyclesSafe(E, nodes) ==
  {c \in {IF \E u \in scc : scc = {u}
          THEN LET u == CHOOSE u \in scc : TRUE IN IF <<u, u>> \in E THEN <<u, u>> ELSE <<>>
          ELSE FindOneCycleInSCC(E, scc) : scc \in TarjanSCC(E, nodes)} : c # <<>>}

\* The edge that DetectCycleWarnings offers to remove, "the last edge in the cycle".
SuggestedRemoval(cycle) == <<cycle[Len(cycle) - 1], cycle[1]>>

\* WouldCreateCycle: from the new dependency's target, depth first, back to the issue that gets it.
RECURSIVE Seek(_, _, _, _)
Seek(E, goal, u, s) ==
  IF u = goal THEN [s EXCEPT !.path = Append(@, u), !.found = TRUE]
  ELSE IF u \in s.visited THEN s
  ELSE LET t == FoldLeft(LAMBDA r, v : IF r.found THEN r ELSE Seek(E, goal, v, r),
                         [s EXCEPT !.visited = @ \cup {u}, !.path = Append(@, u)],
                         Ascending(From(E, u)))
       IN IF t.found THEN t ELSE [t EXCEPT !.path = Front(@)]
WouldCreateCycle(E, from, to) ==
  LET t == Seek(E \cup {<<from, to>>}, from, to, [visited |-> {}, path |-> <<>>, found |-> FALSE])
  IN IF t.found THEN <<from>> \o t.path ELSE <<>>

\* detectBlockerCycles: the nodes a back edge leads to; a diamond has none.
Revisited(s, v) == v \in s.gray \cup s.black
BackEdge(s, v) == v \in s.gray
RECURSIVE Visit(_, _, _), VisitAll(_, _, _)
Visit(E, u, s) ==
  LET t == VisitAll(E, Ascending(From(E, u)), [s EXCEPT !.gray = @ \cup {u}])
  IN [t EXCEPT !.gray = @ \ {u}, !.black = @ \cup {u}]
VisitAll(E, vs, s) ==
  IF vs = <<>> THEN s
  ELSE LET v == Head(vs) IN
       VisitAll(E, Tail(vs),
         IF BackEdge(s, v) THEN [s EXCEPT !.back = @ \cup {v}]
         ELSE IF v \in s.black THEN s ELSE Visit(E, v, s))
DetectBlockerCycles(E, u) == Visit(E, u, [gray |-> {}, black |-> {}, back |-> {}]).back

-----------------------------------------------------------------------------
(* graph.go: the metrics of phase 2.                                       *)

\* computePhase1: dependencies first.
TopologicalOrder(E, nodes) == Reverse(TopoSorted(E, nodes))
\* computeHeights, over the nodes as they are sorted, and computeSlack, over the topological order.
ComputeHeights(E, order) ==
  FoldLeft(LAMBDA h, v : [h EXCEPT ![v] = 1 + Max({0} \cup {h[p] : p \in To(E, v)})],
           [v \in ToSet(order) |-> 0], order)
ComputeSlack(E, order) ==
  LET zero == [v \in ToSet(order) |-> 0]
      fromStart == FoldLeft(LAMBDA f, u : [v \in DOMAIN f |-> IF v \in From(E, u) /\ f[v] < f[u] + 1
                                                              THEN f[u] + 1 ELSE f[v]],
                            zero, Reverse(order))
      toEnd == FoldLeft(LAMBDA f, u : [f EXCEPT ![u] = Max({0} \cup {f[v] + 1 : v \in From(E, u)})],
                        zero, order)
      longest == Max({fromStart[v] + toEnd[v] : v \in DOMAIN zero})
  IN [v \in DOMAIN zero |-> longest - fromStart[v] - toEnd[v]]

\* computeKCore: vert has the nodes by degree, bin[d] is where those of degree d start in it, and
\* pos[v] is where v is.  Lower moves u to the front of its bin and the bin's start past it.
LowerOnly(s, u) == [s EXCEPT !.deg[u] = @ - 1]
Lower(s, u) ==
  LET first == s.bin[s.deg[u]]
      w == s.vert[first]
  IN [deg |-> [s.deg EXCEPT ![u] = @ - 1],
      bin |-> [s.bin EXCEPT ![s.deg[u]] = @ + 1],
      vert |-> [s.vert EXCEPT ![s.pos[u]] = w, ![first] = u],
      pos |-> [s.pos EXCEPT ![u] = first, ![w] = s.pos[u]]]
ComputeKCore(E, n) ==
  LET degree == [v \in 1..n |-> Cardinality(Neighbors(E, v))]
      sorted == FlattenSeq([d \in 1..n |-> Ascending({v \in 1..n : degree[v] = d - 1})])
      start == [deg |-> degree, vert |-> sorted,
                bin |-> [d \in 0..n |-> 1 + Cardinality({v \in 1..n : degree[v] < d})],
                pos |-> [v \in 1..n |-> CHOOSE i \in 1..n : sorted[i] = v]]
      peel(s, i) == FoldLeft(LAMBDA t, u : IF t.deg[u] > t.deg[t.vert[i]] THEN Lower(t, u) ELSE t,
                             s, Ascending(Neighbors(E, s.vert[i])))
  IN FoldLeft(peel, start, Ascending(1..n)).deg

\* findArticulationPoints: time, disc, low, parent and ap as in the code; 0 is no parent.
RootOnly(s, v, u) == s.parent[v] = 0 /\ Cardinality({w \in DOMAIN s.parent : s.parent[w] = v}) > 1
Cuts(s, v, u) ==
  \/ s.parent[v] = 0 /\ Cardinality({w \in DOMAIN s.parent : s.parent[w] = v}) > 1
  \/ s.parent[v] # 0 /\ s.low[u] >= s.disc[v]
Lowest(s, v, d) == [s EXCEPT !.low[v] = IF d < @ THEN d ELSE @]

RECURSIVE Discover(_, _, _)
Discover(E, v, s) ==
  LET child(t, u) ==
        LET r == Discover(E, u, [t EXCEPT !.parent[u] = v])
            q == Lowest(r, v, r.low[u])
        IN IF Cuts(q, v, u) THEN [q EXCEPT !.ap = @ \cup {v}] ELSE q
      visit(t, u) == IF t.disc[u] = 0 THEN child(t, u)
                     ELSE IF u # t.parent[v] THEN Lowest(t, v, t.disc[u]) ELSE t
  IN FoldLeft(visit, [s EXCEPT !.time = @ + 1, !.disc[v] = s.time + 1, !.low[v] = s.time + 1],
              Ascending(Neighbors(E, v)))
FindArticulationPoints(E, n) ==
  LET none == [v \in 1..n |-> 0]
  IN FoldLeft(LAMBDA s, v : IF s.disc[v] = 0 THEN Discover(E, v, s) ELSE s,
              [time |-> 0, disc |-> none, low |-> none, parent |-> none, ap |-> {}],
              Ascending(1..n)).ap

-----------------------------------------------------------------------------
(* plan.go: the tracks of the execution plan.                              *)

\* findConnectedComponents: the smaller of the two roots becomes the root of both groups.
UnionOfPair(root, x, y) == [root EXCEPT ![y] = root[x]]
UnionOf(root, x, y) ==
  LET px == root[x]
      py == root[y]
  IN [v \in DOMAIN root |-> IF root[v] \in {px, py} THEN (IF px < py THEN px ELSE py) ELSE root[v]]
FindConnectedComponents(E, n) ==
  LET join(r, x) == FoldLeft(LAMBDA t, y : UnionOf(t, x, y), r, Ascending(From(E, x)))
      root == FoldLeft(join, [v \in 1..n |-> v], Ascending(1..n))
  IN {{v \in 1..n : root[v] = r} : r \in 1..n} \ {{}}

BuildTracks(E, n, actionable) == {c \cap actionable : c \in FindConnectedComponents(E, n)} \ {{}}
=============================================================================
