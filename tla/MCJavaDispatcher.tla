-------------------------- MODULE MCJavaDispatcher --------------------------
(* JavaDispatcher for TLC.                                                   *)
EXTENDS JavaDispatcher, TLC

FleetSymmetry == Permutations(Endpoint) \cup Permutations(Dispatcher \ Jvm)
=============================================================================
