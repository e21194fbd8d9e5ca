-------------------------- MODULE MCRevisionStore --------------------------
(* Instances of RevisionStore for TLC. *)
EXTENDS RevisionStore, TLC

(* Revision ids, AVP ids, values and sessions are interchangeable.         *)
Symmetric ==
  UNION {Permutations(S) : S \in {Rev, Avp, Value, Session}}
=============================================================================
