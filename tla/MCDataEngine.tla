---------------------------- MODULE MCDataEngine ----------------------------
(* Instances of DataEngine for TLC. *)
EXTENDS DataEngine, TLC

(* Ids, values and clients are interchangeable.                            *)
Symmetric ==
  UNION {Permutations(S) : S \in {Rev, Avp, Value, Client}}
=============================================================================
