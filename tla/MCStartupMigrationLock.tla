----------------------- MODULE MCStartupMigrationLock -----------------------
(* Instances of StartupMigrationLock for TLC.  Liveness is checked, so the *)
(* instances are not declared interchangeable.                             *)
EXTENDS StartupMigrationLock, TLC
=============================================================================
