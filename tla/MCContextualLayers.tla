-------------------------- MODULE MCContextualLayers --------------------------
(* Instances of ContextualLayers for TLC.  Liveness is checked, so nothing *)
(* is declared interchangeable.                                            *)
EXTENDS ContextualLayers, TLC
=============================================================================
