----------------------------- MODULE LatestValue -----------------------------
(***************************************************************************)
(* What a snapshot worker promises its readers: whatever it shows is a     *)
(* version the source has had, it never goes back to an older version than *)
(* the one it showed before, and once closed it changes nothing any more.  *)
(***************************************************************************)
EXTENDS Naturals

VARIABLES
  current,   \* version of the source
  shown,     \* version readers see, 0 before the first
  open       \* the service has not been stopped

vars == <<current, shown, open>>

Init == current = 1 /\ shown = 0 /\ open = TRUE

Change == current' = current + 1 /\ UNCHANGED <<shown, open>>

Publish ==
  /\ open
  /\ shown' \in shown..current
  /\ UNCHANGED <<current, open>>

Close == open /\ open' = FALSE /\ UNCHANGED <<current, shown>>

Next == Change \/ Publish \/ Close

Spec == Init /\ [][Next]_vars
=============================================================================
