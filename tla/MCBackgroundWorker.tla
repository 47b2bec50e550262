------------------------ MODULE MCBackgroundWorker ------------------------
(* A small worker for TLC: two process() slots, so that a superseded or a  *)
(* finishing process() can overlap a new one, or one, where a new one waits *)
(* for it; two recipes to switch between; Phase 2 followed or not.         *)
EXTENDS BackgroundWorker

MCProc == {1, 2}
MCOneProc == {1}
MCOneRecipe == {"plain"}
MCTwoRecipes == {"plain", "closed"}
MCDefaultRecipe == "plain"
MCNoKinds == {}
MCPhase2Kind == {"phase2"}
=============================================================================
