----------------------------- MODULE MCRecordSync -----------------------------
(* Instances of RecordSync for TLC: two devices and the server, one of     *)
(* them with a call under way at a time (a call touches its own database   *)
(* only, so calls on two of them meet through replication alone).          *)
EXTENDS RecordSync
=============================================================================
