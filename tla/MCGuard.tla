-------------------------------- MODULE MCGuard --------------------------------
(* GuardHarness with values for TLC: one tier is enough, since the guard's   *)
(* registers do not depend on which tier a consumed request addresses.       *)
EXTENDS GuardHarness

MCLayers == {"t0"}
MCLayerRole == [l \in MCLayers |-> "EXEC"]
MCTemperatures == {90000, 90001}

=============================================================================
