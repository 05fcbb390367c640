------------------------- MODULE MCVerticalTrustFabric -------------------------
(* The fabric over a small stack.                                            *)
EXTENDS VerticalTrustFabric

MCTargets == {<<1, 0>>, <<3, 1>>, <<4, 0>>}
MCRoleChanges == {<<2, "DATA">>, <<3, "KEY_METADATA">>}
MCTemperatures == {0, 90000, 95000}

S(layers, words, who, host, control, issue, deliver, alter) ==
    [layers |-> layers, words |-> words, who |-> who, host |-> host, control |-> control,
     issue |-> issue, deliver |-> deliver, alter |-> alter]

Two == {"CPU_DATA", "SECURITY"}
All == ALLREQ \cup {INVALIDREQ}

\* Long sequences of one kind of step, and shorter mixtures
MCScenarios ==
    {S(4, 3, {}, 4, 0, 0, 0, 0), S(0, 0, {}, 2, 0, 0, 0, 0), S(3, 2, Two, 1, 2, 1, 1, 0),
     S(4, 3, {}, 0, 4, 0, 0, 0), S(4, 2, {"CPU_DATA"}, 0, 2, 2, 2, 0), S(4, 3, All, 0, 1, 1, 1, 0),
     S(9, 9, Two, 0, 0, 3, 4, 0), S(4, 3, Two, 0, 1, 2, 1, 1),
     S(4, 2, {"CPU_DATA"}, 0, 3, 1, 1, 0), S(2, 2, {"CPU_DATA"}, 3, 0, 1, 1, 0)}
=============================================================================
