----------------------------- MODULE MCNavigation -----------------------------
(* Not pressed: the keys whose view or modal differs from another one's by less than the   *)
(* properties tell apart (the epics from the graph, the memories from the history, the     *)
(* projects and the recipes from the labels); the insights are entered by the mouse.       *)
EXTENDS Navigation

MCPressed == Key \ {"Epics", "Memories", "Projects", "Recipes", "Insights"}
=============================================================================
