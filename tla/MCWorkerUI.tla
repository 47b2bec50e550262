----------------------------- MODULE MCWorkerUI -----------------------------
(* The worker with its user interface for TLC: two process() slots, so     *)
(* that the tail of one overlaps the next, and a second chain to spare.    *)
EXTENDS WorkerUI

MCProc == {1, 2}
MCChains == {1, 2}
MCOneRecipe == {"plain"}
MCTwoRecipes == {"plain", "closed"}
MCDefaultRecipe == "plain"
MCDeliveryKinds == {"ready", "error", "lost", "restored", "verified"}
MCPhase2Kinds == {"ready", "phase2"}
MCNothing == {}
MCEverything == {"overflow", "overtaken", "secondChain"}
=============================================================================
