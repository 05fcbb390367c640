-------------------------------- MODULE MCVtfSoc --------------------------------
(* VtfSoc for TLC: loads and stores to the data tier, and a fetch that the     *)
(* policy denies.                                                             *)
EXTENDS VtfSoc

MCLayers == {"t0", "t1"}
MCLayerRole == [l \in MCLayers |-> IF l = "t0" THEN "DATA" ELSE "EXEC"]
MCRequesters == {"CPU_FETCH", "CPU_DATA"}

Access(fetch, wr, layer, addr, data) ==
    [fetch |-> fetch, write |-> wr, layer |-> layer, addr |-> addr, data |-> data]

MCAccesses ==
    {Access(FALSE, FALSE, "t0", "a0", 0),       \* load
     Access(FALSE, TRUE, "t0", "a0", 1),        \* store
     Access(TRUE, FALSE, "t0", "a0", 0)}        \* fetch from the data tier: denied

=============================================================================
