--------------------------------- MODULE VtfSoc ---------------------------------
(***************************************************************************)
(* The CPU-facing system (hardware_3d/rtl/crypto3d_vtf_soc_top.sv): the     *)
(* bridge and the Vertical Trust Fabric on one clock, one root input and    *)
(* one epoch input.                                                         *)
(***************************************************************************)
EXTENDS VtfSystem

CONSTANTS
    Accesses,       \* accesses the CPU makes: fetch, write, layer, addr, data
    NoAccess

\* The stack has a tier for each of the four layers the CPU port can name.
ASSUME SocAssumption ==
    /\ NoAccess \notin Accesses
    /\ "CPU_DATA" \in Requesters
    /\ \A a \in Accesses : /\ a.fetch \in BOOLEAN /\ a.write \in BOOLEAN
                           /\ a.layer \in Layers /\ a.data \in Words

VARIABLES
    b_state, b_seq, b_req, b_rsp, b_drv, b_cmac, b_out, b_tamper,
    b_phase, b_root, b_epoch,
    disturbed       \* history: an event, or an epoch change with an access in flight

Bridge == INSTANCE VtfCpuBridge

bridgeVars == <<b_state, b_seq, b_req, b_rsp, b_drv, b_cmac, b_out, b_tamper,
                b_phase, b_root, b_epoch>>
socVars == <<vars, bridgeVars, disturbed>>

SocInit == Init /\ Bridge!ResetBridge /\ disturbed = FALSE

\* The bridge drives the request channel; root_load_i reaches both schedules.
SocInputs ==
    [request : {IF Bridge!vtf_req_valid_o THEN b_req ELSE NoRequest},
     event   : Events,
     access  : IF At("S_GUARD") THEN BOOLEAN ELSE {TRUE},
     load    : {NoRoot} \union (IF phase = "EMPTY" THEN Roots ELSE {})]

SocEdge ==
    \E e \in SocInputs, a \in {NoAccess} \union (IF b_state = "B_IDLE" THEN Accesses ELSE {}) :
        /\ a # NoAccess => taken < MaxRequests
        /\ Edge(e)
        /\ Bridge!BridgeEdge(a, e.load, req_ready_o(e), rsp)
        /\ disturbed' = (disturbed \/ e.event # "none")

SocAdvanceEpoch ==
    /\ AdvanceEpoch
    /\ disturbed' = (disturbed \/ b_state # "B_IDLE")
    /\ UNCHANGED bridgeVars

SocNext == SocEdge \/ SocAdvanceEpoch

\* The fabric's key schedule goes on with a derivation.
DeriveStep ==
    /\ SocEdge
    /\ phase # "EMPTY" /\ phase' # "EMPTY"
    /\ <<phase, epoch>>' # <<phase, epoch>>

\* The clock never stops, and a key derivation that runs ends (KeysBecomeReady of
\* VtfKeySchedule shows it from the clock alone).
SocSpec ==
    /\ SocInit /\ [][SocNext]_socVars
    /\ WF_socVars(SocEdge)
    /\ WF_socVars(DeriveStep)

-----------------------------------------------------------------------------
(* Properties.                                                               *)

\* The CPU is told an access was executed only if it was, and with the word that
\* is in the memory: whatever happens to the keys, the epoch or the fabric while
\* the response is signed, sent and verified.
CpuToldTheTruth ==
    b_out.valid /\ b_out.ok =>
        /\ effect = "done"
        /\ b_out.rdata = mem[<<b_req.layer, b_req.addr>>]

\* As long as no event comes from outside and the epoch moves only between accesses,
\* the CPU's traffic never trips the fabric and never looks like tampering: the
\* sequence counters of bridge and guard stay in step, also over denied accesses,
\* and the two key schedules agree.
BenignTrafficIsServed == ~disturbed => ~Guard!locked /\ ~b_tamper

\* Every access the bridge took is answered.
AccessAnswered == b_state # "B_IDLE" ~> b_state = "B_IDLE"

=============================================================================
