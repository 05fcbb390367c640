------------------------------ MODULE MCVtfSystem ------------------------------
(* VtfSystem for TLC: a data tier and a key tier, two requesters, and a       *)
(* request of each kind the checks tell apart.                                *)
EXTENDS VtfSystem

MCLayers == {"t0", "t1"}
MCLayerRole == [l \in MCLayers |-> IF l = "t0" THEN "DATA" ELSE "KEY_HIDE"]
MCRequesters == {"CPU_FETCH", "CPU_DATA"}

Shape(who, wr, layer, addr, data, n, ep) ==
    [requester |-> who, write |-> wr, layer |-> layer, addr |-> addr, data |-> data,
     seq |-> n, epoch |-> ep]

\* The request with a tag made with the given key.
Tagged(q, key) ==
    [requester |-> q.requester, write |-> q.write, layer |-> q.layer, addr |-> q.addr,
     data |-> q.data, seq |-> q.seq, epoch |-> q.epoch, tag |-> Mac(key, req_msg(q))]

\* Writes and reads that are served when they come in order and in their epoch.
Served ==
    {Shape("CPU_DATA", TRUE, "t0", "a0", 1, n, ep) : n \in {1, 2}, ep \in 0 .. MaxEpoch}
    \union {Shape("CPU_DATA", FALSE, "t0", "a0", 0, n, 0) : n \in {1, 2}}

\* Requests no requester is ever granted.
Refused ==
    {Shape("CPU_DATA", TRUE, "t1", "a0", 1, 1, 0),        \* against the policy
     Shape("CPU_DATA", TRUE, "t0", NoAddr, 1, 1, 0),      \* outside the tier
     Shape("CPU_DATA", TRUE, NoLayer, "a0", 1, 1, 0)}     \* outside the stack

\* Requests with a tag anyone can make: of the all-zero key.
Unkeyed ==
    {Shape("CPU_DATA", TRUE, "t0", "a0", 1, 1, 0),
     Shape(NoRequester, TRUE, "t0", "a0", 1, 1, 0)}

\* A write for the second epoch, tagged with the key of the first: it is served if
\* the epoch advances between its authentication and the guard's decision.
EarlySigned ==
    {Tagged(Shape("CPU_DATA", TRUE, "t0", "a0", 1, 1, 1), req_key("CPU_DATA", "root", 0))}

MCRequests ==
    {Tagged(q, req_key(q.requester, "root", q.epoch)) : q \in Served \union Refused}
    \union EarlySigned
    \union {Tagged(q, Zero) : q \in Unkeyed}

\* The scenarios of tb_fault_campaign.sv: forged, replay, read and write.
MCCampaign ==
    {Tagged(Shape("CPU_DATA", TRUE, "t0", "a0", 1, n, 0), req_key("CPU_DATA", "root", 0)) :
        n \in {1, 2}}
    \union {Tagged(Shape("CPU_DATA", FALSE, "t0", "a0", 0, 2, 0), req_key("CPU_DATA", "root", 0)),
            Tagged(Shape("CPU_DATA", TRUE, "t0", "a0", 1, 1, 0), Zero)}

=============================================================================
