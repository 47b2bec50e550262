------------------------------- MODULE Backends -------------------------------
(***************************************************************************)
(* The three ways .beads/metadata.json lets bt reach its data, as cmd/bt   *)
(* and the background worker choose between them: a Dolt server of the     *)
(* project (DoltServer), an embedded database read through `bd export`     *)
(* (EmbeddedCache), or the shared server, where the history of past days   *)
(* is kept as well (TemporalCache).  The mode is fixed for a session.      *)
(***************************************************************************)
EXTENDS DoltServer, EmbeddedCache, TemporalCache

vars == <<doltMode, doltVars, embeddedVars, temporalVars>>

Init == doltMode \in Modes /\ DoltInit /\ EmbeddedInit /\ TemporalInit

OfServer(A) == doltMode = "server" /\ A /\ UNCHANGED <<embeddedVars, temporalVars>>
OfEmbedded(A) == doltMode = "embedded" /\ A /\ UNCHANGED <<doltMode, doltVars, temporalVars>>
OfGlobal(A) == doltMode = "global" /\ A /\ UNCHANGED <<doltMode, doltVars, embeddedVars>>

Next == OfServer(DoltNext) \/ OfEmbedded(EmbeddedNext) \/ OfGlobal(TemporalNext)

Spec == Init /\ [][Next]_vars

\* The goroutines of an instance go on, and bd answers or is given up on after a time limit.
FairSpec == Spec /\ \A i \in Instance : WF_vars(OfServer(Progress(i)))

-----------------------------------------------------------------------------
TypeOK == DoltTypes /\ EmbeddedTypes /\ TemporalTypes
=============================================================================
