--------------------------- MODULE MCPendingWrites ---------------------------
(* The writes for TLC: a title, a body that bd reads from a file, notes and *)
(* comments that it adds; issues and commands are symmetric.  Others claim. *)
EXTENDS PendingWrites, TLC

MCShort == {"title"}
MCLongform == {"body", "notes", "comment"}
MCTempfile == {"body", "comment"}
MCAdditive == {"notes", "comment"}
MCContested == {"claim"}
MCSymmetry == Permutations(Issue) \cup Permutations(Write)
=============================================================================
