--------------------------- MODULE MCInstanceLock ---------------------------
(* Three instances for TLC: two may take a lock over while a third creates *)
(* one.                                                                    *)
EXTENDS InstanceLock

MCInstance == 1..3
=============================================================================
