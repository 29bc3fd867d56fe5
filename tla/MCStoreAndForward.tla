-------------------------- MODULE MCStoreAndForward --------------------------
(***************************************************************************)
(* Small instances of StoreAndForward: a telemetry and a configuration     *)
(* record, stored while a connectivity cycle runs.                         *)
(***************************************************************************)
EXTENDS StoreAndForward, TLC
CONSTANTS t1, g1, c1

MCKind == (t1 :> "telemetry") @@ (g1 :> "configuration")
=============================================================================
