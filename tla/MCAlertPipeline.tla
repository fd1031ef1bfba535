--------------------------- MODULE MCAlertPipeline ---------------------------
(* AlertPipeline for TLC. The constants are in the .cfg files; the alert     *)
(* configs are interchangeable wherever all of them start alike.             *)
EXTENDS Analytics, TLC

ConfigSymmetry == Permutations(Config)
=============================================================================
