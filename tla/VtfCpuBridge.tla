------------------------------ MODULE VtfCpuBridge ------------------------------
(***************************************************************************)
(* The CPU bridge (hardware_3d/rtl/crypto3d_vtf_cpu_bridge.sv): it turns    *)
(* each fetch, load and store of the CPU into a numbered, tagged request,   *)
(* and checks the response before the CPU sees it.  It has a key schedule   *)
(* and a CMAC unit of its own; nothing ever zeroizes or clears them.        *)
(***************************************************************************)
EXTENDS Integers

CONSTANTS
    SeqMod, Roots, NoRoot, MaxEpoch, CmacCycles,    \* see VtfSystem
    NoAccess                                        \* the idle CPU port

VARIABLES
    b_state,        \* state_q
    b_seq,          \* seq_fetch_q and seq_data_q, by requester
    b_req,          \* the request registers, with the tag
    b_rsp,          \* the response registers
    b_drv,          \* cm_start, cm_key, cm_msg
    b_cmac,         \* the CMAC unit
    b_out,          \* cpu_rsp_valid_o, cpu_rsp_ok_o, cpu_rsp_rdata_o
    b_tamper,       \* tamper_o
    b_phase, b_root, b_epoch,   \* the bridge's key schedule
    active_epoch

BStates == {"B_IDLE", "B_SIGN", "B_SEND", "B_WAIT", "B_VERIFY", "B_DONE"}
BRequesters == {"CPU_FETCH", "CPU_DATA"}

Keys == INSTANCE KeyStore
          WITH phase <- b_phase, root <- b_root, epoch <- b_epoch, epoch_keys <- TRUE
Cmac == INSTANCE CmacUnit WITH cmac <- b_cmac

Zero == Cmac!Zero
Fields(q) == [requester |-> q.requester, write |-> q.write, layer |-> q.layer,
              addr |-> q.addr, seq |-> q.seq, epoch |-> q.epoch]
req_msg(q) == <<"D1", Fields(q), q.data>>

keys_ready_o == Keys!ready
req_key(who) == IF keys_ready_o THEN <<"req", who, b_root, b_epoch>> ELSE Zero
rsp_key == IF keys_ready_o THEN <<"rsp", "any", b_root, b_epoch>> ELSE Zero

cpu_ready_o == b_state = "B_IDLE" /\ keys_ready_o /\ ~Cmac!busy_o
vtf_req_valid_o == b_state = "B_SEND"

\* The signed response echoes the request; a write echoes the word written.
fields_match ==
    /\ b_rsp.msg[1] = "D2"
    /\ b_rsp.msg[2] = Fields(b_req)
    /\ b_req.write => b_rsp.msg[4] = b_req.data

ResetBridge ==
    /\ b_state = "B_IDLE"
    /\ b_seq = [q \in BRequesters |-> 0]
    /\ b_req = [requester |-> "CPU_FETCH", write |-> FALSE, layer |-> "none", addr |-> "none",
                data |-> 0, seq |-> 0, epoch |-> 0, tag |-> Zero]
    /\ b_rsp = [msg |-> << >>, tag |-> Zero]
    /\ b_drv = [start |-> FALSE, key |-> Zero, msg |-> << >>]
    /\ Cmac!ResetUnit
    /\ b_out = [valid |-> FALSE, ok |-> FALSE, rdata |-> 0]
    /\ b_tamper = FALSE
    /\ b_phase = "EMPTY" /\ b_root = NoRoot /\ b_epoch = Keys!NoEpoch

-----------------------------------------------------------------------------

Quiet == b_drv' = [b_drv EXCEPT !.start = FALSE]
Silent == b_out' = [b_out EXCEPT !.valid = FALSE]

Wait ==
    /\ Quiet /\ Silent
    /\ UNCHANGED <<b_state, b_seq, b_req, b_rsp, b_tamper>>

\* A CPU access a: it takes the next number of its requester.
Take(a) ==
    LET who == IF a.fetch THEN "CPU_FETCH" ELSE "CPU_DATA"
        q == [requester |-> who, write |-> a.write /\ ~a.fetch, layer |-> a.layer,
              addr |-> a.addr, data |-> IF a.write THEN a.data ELSE 0,
              seq |-> (b_seq[who] + 1) % SeqMod, epoch |-> active_epoch, tag |-> b_req.tag]
    IN /\ cpu_ready_o
       /\ b_seq' = [b_seq EXCEPT ![who] = q.seq]
       /\ b_req' = q
       /\ b_drv' = [start |-> TRUE, key |-> req_key(who), msg |-> req_msg(q)]
       /\ b_state' = "B_SIGN"
       /\ Silent
       /\ UNCHANGED <<b_rsp, b_tamper>>

Signed ==
    /\ b_state = "B_SIGN"
    /\ b_cmac.done
    /\ b_req' = [b_req EXCEPT !.tag = b_cmac.tag]
    /\ b_state' = "B_SEND"
    /\ Quiet /\ Silent
    /\ UNCHANGED <<b_seq, b_rsp, b_tamper>>

Sent(ready) ==
    /\ vtf_req_valid_o
    /\ ready
    /\ b_state' = "B_WAIT"
    /\ Quiet /\ Silent
    /\ UNCHANGED <<b_seq, b_req, b_rsp, b_tamper>>

Received(rsp) ==
    /\ b_state = "B_WAIT"
    /\ rsp.valid
    /\ b_rsp' = [msg |-> rsp.msg, tag |-> rsp.tag]
    /\ b_drv' = [start |-> TRUE, key |-> rsp_key, msg |-> rsp.msg]
    /\ b_state' = "B_VERIFY"
    /\ Silent
    /\ UNCHANGED <<b_seq, b_req, b_tamper>>

\* Mutant of Verified: the status of the response is not looked at.
Verified_any_status ==
    /\ b_state = "B_VERIFY"
    /\ b_cmac.done
    /\ LET genuine == b_cmac.tag = b_rsp.tag
       IN /\ b_out' = [valid |-> TRUE,
                       ok    |-> genuine /\ fields_match,
                       rdata |-> IF genuine /\ fields_match THEN b_rsp.msg[4] ELSE 0]
          /\ b_tamper' = (b_tamper \/ ~genuine)
    /\ b_state' = "B_DONE"
    /\ Quiet
    /\ UNCHANGED <<b_seq, b_req, b_rsp>>

Verified ==
    /\ b_state = "B_VERIFY"
    /\ b_cmac.done
    /\ LET genuine == b_cmac.tag = b_rsp.tag
       IN /\ b_out' = [valid |-> TRUE,
                       ok    |-> genuine /\ fields_match /\ b_rsp.msg[3] = 1,
                       rdata |-> IF genuine /\ fields_match THEN b_rsp.msg[4] ELSE 0]
          /\ b_tamper' = (b_tamper \/ ~genuine)
    /\ b_state' = "B_DONE"
    /\ Quiet
    /\ UNCHANGED <<b_seq, b_req, b_rsp>>

Done ==
    /\ b_state = "B_DONE"
    /\ b_state' = "B_IDLE"
    /\ Quiet /\ Silent
    /\ UNCHANGED <<b_seq, b_req, b_rsp, b_tamper>>

\* No branch applies.
Waiting(a, ready, rsp) ==
    /\ \/ b_state = "B_IDLE" /\ (a = NoAccess \/ ~cpu_ready_o)
       \/ b_state \in {"B_SIGN", "B_VERIFY"} /\ ~b_cmac.done
       \/ b_state = "B_SEND" /\ ~ready
       \/ b_state = "B_WAIT" /\ ~rsp.valid
    /\ Wait

\* One clock edge of the bridge, its CMAC unit and its key schedule: a is the CPU
\* port, load the root input, ready and rsp the channels of the system.
BridgeEdge(a, load, ready, rsp) ==
    /\ \/ a # NoAccess /\ Take(a)
       \/ Signed
       \/ Sent(ready)
       \/ Received(rsp)
       \/ Verified
       \/ Done
       \/ Waiting(a, ready, rsp)
    /\ Cmac!UnitEdge(b_drv.start, b_drv.key, b_drv.msg, FALSE)
    /\ \/ load # NoRoot /\ Keys!Load(load)
       \/ Keys!BindEpoch
       \/ Keys!Finish
       \/ Keys!Rekey
       \/ (load = NoRoot \/ b_phase # "EMPTY") /\ UNCHANGED <<b_phase, b_root, b_epoch>>

=============================================================================
