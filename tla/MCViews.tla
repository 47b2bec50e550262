-------------------------------- MODULE MCViews --------------------------------
(* A tree of four issues, a chain that a reload turns into a branch, three  *)
(* of them in the project; two histories of four beads and three commits;   *)
(* a board of three cards to which a reload adds one and moves two.         *)
EXTENDS Views

MCTreeLoads ==
  <<[issues |-> 1..4, parents |-> {<<2, 1>>, <<3, 2>>, <<4, 3>>}],
    [issues |-> 1..4, parents |-> {<<2, 1>>, <<3, 1>>, <<3, 2>>}]>>
MCHere == 1..3
MCHeights == {1, 2}

Commit(sha, conf) == [sha |-> sha, conf |-> conf]
MCReports ==
  <<<<[commits |-> <<Commit(1, 2), Commit(2, 1)>>, events |-> 1],
      [commits |-> <<Commit(2, 2)>>, events |-> 1],
      [commits |-> <<>>, events |-> 2]>>,
    [b \in {4} |-> [commits |-> <<Commit(3, 1)>>, events |-> 0]]>>
MCTouches == <<{}, {"f"}, {"f"}>>
MCThresholds == <<0, 2>>
MCFolders == <<<<<<"f">>>>, <<<<"f">>>>>>
MCQueries ==
  {[beads |-> {2, 3}, commits |-> {}], [beads |-> {}, commits |-> {1}]}
MCPanes == {2, 3}

MCCards ==
  <<<<<<1, 1, 3>>, <<1, 4, 3>>, <<3, 4, 1>>>>,
    <<<<1, 1, 3>>, <<3, 4, 3>>, <<4, 4, 2>>, <<1, 1, 1>>>>>>
MCCardFilters == {1..4, {2, 3}, {}}
MCCardQueries == {{1, 2}, {3}}
=============================================================================
