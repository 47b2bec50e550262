------------------------------ MODULE MCBackends ------------------------------
(* The backends for TLC: two instances and two ports; two loads; a window   *)
(* of four days that the limit cuts to three, in a session of six.          *)
EXTENDS Backends

MCTwo == {1, 2}
=============================================================================
