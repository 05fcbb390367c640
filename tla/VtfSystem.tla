------------------------------- MODULE VtfSystem -------------------------------
(***************************************************************************)
(* The Vertical Trust Fabric system (hardware_3d/rtl/                       *)
(* crypto3d_vtf_system_top.sv): one transaction at a time is authenticated, *)
(* put to the guard, run on the stacked memory and answered with a signed   *)
(* response.                                                                *)
(*                                                                          *)
(* A step is one rising clock edge of the whole system: the control         *)
(* registers, the guard, the key schedule (by its abstract specification,   *)
(* KeyStore), the CMAC unit and the memory move together.  Between edges    *)
(* the epoch input may move and a register may be upset.                    *)
(*                                                                          *)
(* Keys, messages and tags are terms: a tag is the pair of the key and the  *)
(* message it authenticates.  The nonce is left out: it is echoed like the  *)
(* sequence number and decides nothing.                                     *)
(***************************************************************************)
EXTENDS Integers, FiniteSets, Sequences

CONSTANTS
    Layers, LayerRole, Requesters, SeqWidth, SeqMod, FaultHarden,   \* see the guard
    TopLayer,       \* {C3D_LAYER_WIDTH{1'b1}}: how an out-of-range layer is presented
    Addrs,          \* addresses below WORDS
    ZeroLayer, ZeroAddr,    \* layer 0 and address 0, what reset leaves in the registers
    Words,          \* data words, 0 among them
    Roots, NoRoot,  \* see KeyStore
    MaxEpoch,       \* bound: the epoch the environment stops at
    Requests,       \* what the request channel may carry
    Events,         \* environment events that may happen in a cycle
    CmacCycles,     \* cycles of one tag computation
    MaxRequests,    \* bound: requests taken
    MaxUpsets       \* bound: register upsets

NoLayer == "NO_LAYER"
NoRequester == "NO_REQUESTER"
NoAddr == "NO_ADDR"             \* an address at or above WORDS
States == {"S_IDLE", "S_AUTH", "S_AUTH2", "S_GUARD", "S_MEM", "S_SIGN", "S_RESP", "S_BAD"}
NoRequest == [valid |-> FALSE]  \* the idle channel
AuthCodes == {"AUTH_PASS", "AUTH_FAIL", "NO_CODE"}
Epochs == 0 .. MaxEpoch

ASSUME SystemAssumption ==
    /\ TopLayer \in Layers \union {NoLayer}
    /\ "CPU_FETCH" \in Requesters /\ "RSP" \notin Requesters
    /\ SeqMod \in Nat \ {0}
    /\ FaultHarden \in BOOLEAN
    /\ ZeroLayer \in Layers
    /\ ZeroAddr \in Addrs
    /\ Events \subseteq {"none", "physical", "thermal", "mismatch"}
    /\ 0 \in Words
    /\ NoRoot \notin Roots
    /\ MaxEpoch \in Nat
    /\ NoRequest \notin Requests
    /\ \A q \in Requests : q.write \in BOOLEAN /\ q.data \in Words
    /\ CmacCycles \in Nat \ {0}
    /\ MaxRequests \in Nat
    /\ MaxUpsets \in Nat

VARIABLES
    ctl,            \* FSM rails, fault alarm and response registers
    r,              \* latched request, with its tag
    auth,           \* r_auth_ok, r_auth_code, r_addr_ok, r_tag1
    drv,            \* cmac_start, cmac_key, cmac_msg
    cmac,           \* the CMAC unit
    mem, mem_q,     \* the stacked memory and its output registers
    rsp,            \* the response channel
    sentinel_fault, \* sticky output of the sentinel monitor
    lockdown_q, lockdown_n_q, last_sequence, seq_par_q,
    phase, root, epoch, active_epoch,
    spoiled,        \* key registers of the schedule that hold a garbage key
    pending,        \* history: the request taken and not yet answered, as it was sent
    effect,         \* history: what became of it: "none", "done" or "refused"
    last,           \* history: the last sequence number consumed, per requester
    reply,          \* history: the last response its requester accepted
    taken, upsets,  \* history: requests taken, upsets
    taken_in        \* history: the epoch in which it was taken

guardVars == <<lockdown_q, lockdown_n_q, last_sequence, seq_par_q>>
keyStoreVars == <<phase, root, epoch, active_epoch>>
controlVars == <<ctl, r, auth, drv, rsp>>
ghostVars == <<pending, effect, last, reply, taken, upsets, taken_in>>
vars == <<controlVars, cmac, mem, mem_q, sentinel_fault, guardVars, keyStoreVars, spoiled,
          ghostVars>>

MaxTempMc == 90000
Temperatures == {MaxTempMc, MaxTempMc + 1}

Guard == INSTANCE VerticalTrustGuard

\* What the guard assumes of its parity, of this instance.
ASSUME ParityOfZeroWord == Guard!BitParity(0) = 0

Keys == INSTANCE KeyStore WITH epoch_keys <- TRUE
Cmac == INSTANCE CmacUnit

-----------------------------------------------------------------------------
(* Keys, messages and tags.                                                  *)

Zero == Cmac!Zero
Garbage == <<"garbage">>        \* a key or tag that an upset destroyed
req_key(who, rt, e) == <<"req", who, rt, e>>
rsp_key(rt, e) == <<"rsp", "any", rt, e>>
Mac(key, msg) == Cmac!Mac(key, msg)

Fields(q) == [requester |-> q.requester, write |-> q.write, layer |-> q.layer,
              addr |-> q.addr, seq |-> q.seq, epoch |-> q.epoch]
req_msg(q) == <<"D1", Fields(q), q.data>>
rsp_msg(q, status, data) == <<"D2", Fields(q), status, data>>
NoMsg == << >>

keys_ready_o == Keys!ready

\* The registers key_q of the schedule: one for each requester, one for responses.
KeyRegisters == Requesters \union {"RSP"}
KeyRegister(k) ==
    IF k \in spoiled THEN Garbage
    ELSE IF k = "RSP" THEN rsp_key(root, epoch) ELSE req_key(k, root, epoch)

KeyOf(who) == IF who \in Requesters /\ keys_ready_o THEN KeyRegister(who) ELSE Zero
ResponseKey == IF keys_ready_o THEN KeyRegister("RSP") ELSE Zero

-----------------------------------------------------------------------------
(* What the edge samples.                                                    *)

At(s) == ctl.state = s

\* The inputs of this cycle.  A request is looked at in S_IDLE only, and its
\* sender waits for the answer before the next one, as the bridge does in B_WAIT;
\* the access permission of the addressed tier is looked at in S_GUARD only, a root
\* only by an empty key schedule.
Inputs ==
    [request : {NoRequest} \union (IF At("S_IDLE") /\ pending = NoRequest THEN Requests ELSE {}),
     event   : Events,      \* physical_fault_i, a hot tier, or a sentinel check that fails
     access  : IF At("S_GUARD") THEN BOOLEAN ELSE {TRUE},   \* layer_access_i
     load    : {NoRoot} \union (IF phase = "EMPTY" THEN Roots ELSE {})]    \* root_load_i

r_layer_ok == r.layer \in Layers
guard_layer == IF r_layer_ok THEN r.layer ELSE TopLayer

\* Mutant of fields_ok: the fields are not compared.
fields_not_compared == TRUE

fields_ok == req_msg(r) = drv.msg
auth_pass ==
    IF FaultHarden THEN auth.code = "AUTH_PASS" /\ fields_ok ELSE auth.ok
addr_ok == IF FaultHarden THEN r.addr \in Addrs ELSE auth.addr_ok
\* Mutant of state_fault: the state rails are not compared.
rails_not_compared == FALSE

state_fault == FaultHarden /\ ctl.state_n # ctl.state
\* Mutant of code_fault: differing fields are a fault whatever the code.
code_fault_any_code ==
    FaultHarden /\ At("S_GUARD") /\ (auth.code = "NO_CODE" \/ ~fields_ok)

code_fault ==
    /\ FaultHarden
    /\ At("S_GUARD")
    /\ \/ auth.code = "NO_CODE"
       \/ auth.code = "AUTH_PASS" /\ ~fields_ok

\* The parity bit stands for the fields it covers: one upset is always seen.
resp_par_fault ==
    /\ FaultHarden
    /\ At("S_SIGN")
    /\ ctl.par # <<ctl.status, ctl.rdata, ctl.reason>>

GuardIn(e) ==
    [req_valid      |-> At("S_GUARD"),
     requester      |-> r.requester,
     op_write       |-> r.write,
     layer          |-> guard_layer,
     sequence       |-> r.seq,
     epoch          |-> r.epoch,
     active_epoch   |-> active_epoch,
     auth_ok        |-> auth_pass /\ r_layer_ok,
     debug_unlocked |-> FALSE,
     temperature_mc |-> [l \in Layers |-> IF e.event = "thermal" THEN MaxTempMc + 1 ELSE MaxTempMc],
     physical_fault |-> e.event = "physical" \/ ctl.alarm,
     sentinel_fault |-> sentinel_fault]

allow(e) == Guard!allow_o(GuardIn(e))
zeroize(e) == Guard!key_zeroize_o(GuardIn(e))
lockdown_o(e) == Guard!lockdown_o(GuardIn(e))
cmac_busy == Cmac!busy_o
req_ready_o(e) == At("S_IDLE") /\ ~cmac_busy /\ (keys_ready_o \/ lockdown_o(e))
\* Mutant of mem_strobe: the guard's decision is not part of the enable.
mem_strobe_ungated(e) == At("S_GUARD") /\ addr_ok /\ r_layer_ok /\ ~code_fault /\ ~state_fault

mem_strobe(e) ==
    At("S_GUARD") /\ allow(e) /\ addr_ok /\ ~code_fault /\ ~state_fault

-----------------------------------------------------------------------------
(* The units the control drives.                                             *)

CmacEdge(e) == Cmac!UnitEdge(drv.start, drv.key, drv.msg, zeroize(e))

MemEdge(e) ==
    LET cell == <<guard_layer, r.addr>>
        ok == mem_strobe(e) /\ e.access
    IN /\ mem_q' = [ready  |-> mem_strobe(e),
                    denied |-> mem_strobe(e) /\ ~e.access,
                    rdata  |-> IF ok /\ ~r.write THEN mem[cell] ELSE mem_q.rdata]
       /\ mem' = IF ok /\ r.write THEN [mem EXCEPT ![cell] = r.data] ELSE mem

SentinelEdge(e) == sentinel_fault' = (sentinel_fault \/ e.event = "mismatch")

KeysProgress == Keys!BindEpoch \/ Keys!Finish \/ Keys!Rekey \/ UNCHANGED keyStoreVars

\* A zeroize wins over everything the schedule was about to do.  It wipes the key
\* registers, and a derivation writes every one of them anew: only what it has
\* written, or what the ready schedule holds, can stay spoiled.
KeysEdge(e) ==
    /\ \/ zeroize(e) /\ Keys!Zeroize
       \/ ~zeroize(e) /\ e.load # NoRoot /\ Keys!Load(e.load)
       \/ ~zeroize(e) /\ e.load = NoRoot /\ KeysProgress
    /\ spoiled' = IF phase' = "READY" THEN spoiled ELSE {}

-----------------------------------------------------------------------------
(* Control.  Go(c) is the write of the control registers; a disagreement     *)
(* between the state rails overrides it, whatever the branch was.            *)

To(c, s) == [c EXCEPT !.state = s, !.state_n = s]
Put(c, status, data, reason) ==
    [c EXCEPT !.status = status, !.rdata = data, !.reason = reason,
              !.par = <<status, data, reason>>]
Alarm(c) == [Put(c, 0, 0, "FAULT") EXCEPT !.alarm = TRUE]

Go(c) == ctl' = IF state_fault THEN To(Alarm(ctl), "S_SIGN") ELSE c

Quiet == drv' = [drv EXCEPT !.start = FALSE]
StartCmac(key, msg) == drv' = [start |-> TRUE, key |-> key, msg |-> msg]
Silent == rsp' = [rsp EXCEPT !.valid = FALSE]
Respond(msg, tag) == rsp' = [valid |-> TRUE, msg |-> msg, tag |-> tag]

Idle(e) ==
    /\ At("S_IDLE")
    /\ e.request = NoRequest \/ ~req_ready_o(e)
    /\ Go(ctl)
    /\ Quiet /\ Silent
    /\ UNCHANGED <<r, auth>>

\* Requests are taken with ready keys, or in lockdown, to be denied there.
Accept(e) ==
    /\ At("S_IDLE")
    /\ e.request # NoRequest
    /\ req_ready_o(e)
    /\ r' = e.request
    /\ auth' = [auth EXCEPT !.ok = FALSE, !.code = "AUTH_FAIL",
                            !.addr_ok = e.request.addr \in Addrs]
    /\ IF keys_ready_o /\ ~lockdown_o(e)
       THEN /\ StartCmac(KeyOf(e.request.requester), req_msg(e.request))
            /\ Go(To(Put(ctl, 0, 0, "NONE"), "S_AUTH"))
       ELSE /\ Quiet
            /\ Go(To(Put(ctl, 0, 0, "NONE"), "S_GUARD"))
    /\ Silent

Authentic(tag) == tag = r.tag /\ r.requester \in Requesters

\* The tag of the request is there; the hardened system computes it again.
AuthDone ==
    /\ At("S_AUTH")
    /\ cmac.done
    /\ \/ /\ FaultHarden
          /\ auth' = [auth EXCEPT !.ok = Authentic(cmac.tag), !.tag1 = cmac.tag]
          /\ drv' = [drv EXCEPT !.start = TRUE]
          /\ Go(To(ctl, "S_AUTH2"))
       \/ /\ ~FaultHarden
          /\ auth' = [auth EXCEPT !.ok = Authentic(cmac.tag)]
          /\ Quiet
          /\ Go(To(ctl, "S_GUARD"))
    /\ Silent
    /\ UNCHANGED r

Auth2Done ==
    /\ At("S_AUTH2")
    /\ cmac.done
    /\ \/ /\ cmac.tag = auth.tag1
          /\ auth' = [auth EXCEPT !.ok = Authentic(cmac.tag),
                                  !.code = IF Authentic(cmac.tag) THEN "AUTH_PASS"
                                                                  ELSE "AUTH_FAIL"]
          /\ Go(To(ctl, "S_GUARD"))
       \/ /\ cmac.tag # auth.tag1
          /\ auth' = [auth EXCEPT !.ok = FALSE, !.code = "AUTH_FAIL"]
          /\ Go(To([ctl EXCEPT !.alarm = TRUE], "S_GUARD"))
    /\ Quiet /\ Silent
    /\ UNCHANGED r

\* Mutant of AuthWait: it waits although the computation was aborted.
AuthWait_forever(e) ==
    /\ At("S_AUTH") \/ At("S_AUTH2")
    /\ ~cmac.done
    /\ Go(ctl)
    /\ Quiet /\ Silent
    /\ UNCHANGED <<r, auth>>

\* No tag yet: wait, or give up when the keys are wiped.
AuthWait(e) ==
    /\ At("S_AUTH") \/ At("S_AUTH2")
    /\ ~cmac.done
    /\ Go(IF zeroize(e) THEN To(ctl, "S_GUARD") ELSE ctl)
    /\ Quiet /\ Silent
    /\ UNCHANGED <<r, auth>>

GuardStep(e) ==
    /\ At("S_GUARD")
    /\ \/ /\ code_fault
          /\ Go(To(Alarm(ctl), "S_SIGN"))
       \/ /\ ~code_fault
          /\ LET served == allow(e) /\ addr_ok
                 reason == IF allow(e) /\ ~addr_ok THEN "POLICY"
                           ELSE Guard!deny_reason_o(GuardIn(e))
             IN Go(To(Put(ctl, 0, 0, reason), IF served THEN "S_MEM" ELSE "S_SIGN"))
    /\ Quiet /\ Silent
    /\ UNCHANGED <<r, auth>>

MemStep ==
    /\ At("S_MEM")
    /\ \/ ~mem_q.ready /\ Go(ctl)
       \/ /\ mem_q.ready
          /\ FaultHarden /\ ~fields_ok
          /\ Go(To(Alarm(ctl), "S_SIGN"))
       \/ /\ mem_q.ready
          /\ ~(FaultHarden /\ ~fields_ok)
          /\ Go(To(IF mem_q.denied
                   THEN Put(ctl, 0, 0, ctl.reason)
                   ELSE Put(ctl, 1, IF r.write THEN r.data ELSE mem_q.rdata, ctl.reason),
                   "S_SIGN"))
    /\ Quiet /\ Silent
    /\ UNCHANGED <<r, auth>>

\* Sign the response, or send it unsigned when there are no keys to sign with.
SignStep(e) ==
    /\ At("S_SIGN")
    /\ \/ /\ resp_par_fault
          /\ Go(Alarm(ctl))
          /\ Quiet /\ Silent
       \/ /\ ~resp_par_fault
          /\ keys_ready_o /\ ~lockdown_o(e) /\ ~cmac_busy
          /\ StartCmac(ResponseKey, rsp_msg(r, ctl.status, ctl.rdata))
          /\ Go(To(ctl, "S_RESP"))
          /\ Silent
       \/ /\ ~resp_par_fault
          /\ ~keys_ready_o \/ lockdown_o(e)
          /\ Respond(rsp_msg(r, ctl.status, ctl.rdata), Zero)
          /\ Go(To(ctl, "S_IDLE"))
          /\ Quiet
       \/ /\ ~resp_par_fault
          /\ keys_ready_o /\ ~lockdown_o(e) /\ cmac_busy
          /\ Go(ctl)
          /\ Quiet /\ Silent
    /\ UNCHANGED <<r, auth>>

RespStep(e) ==
    /\ At("S_RESP")
    /\ \/ /\ cmac.done
          /\ FaultHarden /\ drv.msg # rsp_msg(r, ctl.status, ctl.rdata)
          /\ Go(To(Alarm(ctl), "S_SIGN"))
          /\ Silent
       \/ /\ cmac.done
          /\ ~(FaultHarden /\ drv.msg # rsp_msg(r, ctl.status, ctl.rdata))
          /\ Respond(drv.msg, cmac.tag)
          /\ Go(To(ctl, "S_IDLE"))
       \/ /\ ~cmac.done
          /\ Go(IF zeroize(e) THEN To(ctl, "S_SIGN") ELSE ctl)
          /\ Silent
    /\ Quiet
    /\ UNCHANGED <<r, auth>>

BadState ==
    /\ At("S_BAD")
    /\ Go(To(ctl, "S_IDLE"))
    /\ Quiet /\ Silent
    /\ UNCHANGED <<r, auth>>

Control(e) ==
    \/ Idle(e) \/ Accept(e)
    \/ AuthDone \/ Auth2Done \/ AuthWait(e)
    \/ GuardStep(e)
    \/ MemStep
    \/ SignStep(e) \/ RespStep(e)
    \/ BadState

-----------------------------------------------------------------------------
(* The history of the request in flight, from the channels and the memory.   *)

\* What a requester that checks tag and fields believes: the response is that
\* of its own request, it was executed, and this is the data.
Believed(q, m) ==
    /\ m.valid
    /\ \E d \in Words : /\ m.msg = rsp_msg(q, 1, d)
                        /\ \E k \in Roots : m.tag = Mac(rsp_key(k, q.epoch), m.msg)

Observe(e) ==
    LET consumed == Guard!consume_sequence(GuardIn(e))
        executed == mem_strobe(e) /\ e.access
        accepted == At("S_IDLE") /\ e.request # NoRequest /\ req_ready_o(e)
    IN /\ last' = IF consumed THEN [last EXCEPT ![r.requester] = r.seq] ELSE last
       /\ effect' = IF accepted THEN "none"
                    ELSE IF executed THEN "done"
                    ELSE IF consumed THEN "refused"
                    ELSE effect
       /\ pending' = IF accepted THEN e.request
                     ELSE IF rsp'.valid THEN NoRequest
                     ELSE pending
       /\ reply' = IF pending # NoRequest /\ Believed(pending, rsp')
                   THEN [request |-> pending, data |-> rsp'.msg[4]]
                   ELSE reply
       /\ taken' = IF accepted THEN taken + 1 ELSE taken
       /\ taken_in' = IF accepted THEN active_epoch ELSE IF rsp'.valid THEN 0 ELSE taken_in

-----------------------------------------------------------------------------
(* Specification.                                                            *)

Init ==
    /\ ctl = [state |-> "S_IDLE", state_n |-> "S_IDLE", alarm |-> FALSE,
              status |-> 0, rdata |-> 0, reason |-> "NONE", par |-> <<0, 0, "NONE">>]
    /\ r = [requester |-> "CPU_FETCH", write |-> FALSE, layer |-> ZeroLayer, addr |-> ZeroAddr,
            data |-> 0, seq |-> 0, epoch |-> 0, tag |-> Zero]
    /\ auth = [ok |-> FALSE, code |-> "AUTH_FAIL", addr_ok |-> FALSE, tag1 |-> Zero]
    /\ drv = [start |-> FALSE, key |-> Zero, msg |-> NoMsg]
    /\ Cmac!ResetUnit
    /\ mem = [c \in Layers \X Addrs |-> 0]
    /\ mem_q = [ready |-> FALSE, denied |-> FALSE, rdata |-> 0]
    /\ rsp = [valid |-> FALSE, msg |-> NoMsg, tag |-> Zero]
    /\ sentinel_fault = FALSE
    /\ Guard!ResetState
    /\ Keys!Init
    /\ spoiled = {}
    /\ pending = NoRequest
    /\ effect = "none"
    /\ last = [q \in Requesters |-> 0]
    /\ reply = NoRequest
    /\ taken = 0
    /\ upsets = 0
    /\ taken_in = 0

Edge(e) ==
    /\ e.request # NoRequest => taken < MaxRequests
    /\ Control(e)
    /\ CmacEdge(e)
    /\ MemEdge(e)
    /\ SentinelEdge(e)
    /\ Guard!Cycle(GuardIn(e))
    /\ KeysEdge(e)
    /\ Observe(e)
    /\ UNCHANGED upsets

ClockEdge == \E e \in Inputs : Edge(e)

AdvanceEpoch ==
    /\ Keys!AdvanceEpoch
    /\ UNCHANGED <<controlVars, cmac, mem, mem_q, sentinel_fault, guardVars, spoiled, ghostVars>>

-----------------------------------------------------------------------------
(* Upsets: the register groups and the fault model of tb_fault_campaign.sv.  *)
(* A flipped field takes any other value; a flipped tag, key or AES state is *)
(* garbage; no single flip turns one authentication code into the other.     *)

FlipState ==
    /\ \E s \in States \ {ctl.state} : ctl' \in {[ctl EXCEPT !.state = s], [ctl EXCEPT !.state_n = s]}
    /\ UNCHANGED <<r, auth, drv, cmac, guardVars, spoiled>>

FlipDecision ==
    /\ auth' = IF FaultHarden THEN [auth EXCEPT !.code = "NO_CODE"]
                              ELSE [auth EXCEPT !.ok = ~@]
    /\ UNCHANGED <<ctl, r, drv, cmac, guardVars, spoiled>>

FlipRequest ==
    /\ \/ \E q \in Requesters \union {NoRequester} : r' = [r EXCEPT !.requester = q]
       \/ r' = [r EXCEPT !.write = ~@]
       \/ \E l \in Layers \union {NoLayer} : r' = [r EXCEPT !.layer = l]
       \/ \E a \in Addrs \union {NoAddr} : r' = [r EXCEPT !.addr = a]
       \/ \E d \in Words : r' = [r EXCEPT !.data = d]
       \/ \E n \in Guard!Seqs : r' = [r EXCEPT !.seq = n]
       \/ \E n \in Epochs : r' = [r EXCEPT !.epoch = n]
       \/ r' = [r EXCEPT !.tag = Garbage]
    /\ UNCHANGED <<ctl, auth, drv, cmac, guardVars, spoiled>>

FlipCmac ==
    /\ \/ /\ \/ drv' = [drv EXCEPT !.key = Garbage]
             \/ drv.msg # NoMsg /\ \E d \in Words : drv' = [drv EXCEPT !.msg[Len(drv.msg)] = d]
             \/ drv' = [drv EXCEPT !.msg = Garbage]
          /\ UNCHANGED cmac
       \/ cmac' = [cmac EXCEPT !.tag = Garbage] /\ UNCHANGED drv
    /\ UNCHANGED <<ctl, r, auth, guardVars, spoiled>>

FlipGuard ==
    /\ \/ Guard!FlipRail
       \/ \E q \in Requesters : Guard!FlipSequence(q) \/ Guard!FlipParity(q)
    /\ UNCHANGED <<ctl, r, auth, drv, cmac, spoiled>>

FlipResponse ==
    /\ \/ \E n \in 0 .. 2 : ctl' = [ctl EXCEPT !.status = n]
       \/ \E d \in Words : ctl' = [ctl EXCEPT !.rdata = d]
       \/ \E x \in Guard!DenyReasons : ctl' = [ctl EXCEPT !.reason = x]
       \/ ctl' = [ctl EXCEPT !.par = Garbage]
    /\ UNCHANGED <<r, auth, drv, cmac, guardVars, spoiled>>

\* A key that is flipped before the derivation writes its register is written over.
FlipKeys ==
    /\ \E k \in KeyRegisters : spoiled' = spoiled \union {k}
    /\ UNCHANGED <<ctl, r, auth, drv, cmac, guardVars>>

Upset ==
    /\ upsets < MaxUpsets
    /\ upsets' = upsets + 1
    /\ \/ FlipState \/ FlipDecision \/ FlipRequest \/ FlipCmac
       \/ FlipGuard \/ FlipResponse \/ FlipKeys
    /\ UNCHANGED <<rsp, mem, mem_q, sentinel_fault, keyStoreVars,
                   pending, effect, last, reply, taken, taken_in>>

Next == ClockEdge \/ AdvanceEpoch \/ Upset

\* The clock never stops.
Spec == Init /\ [][Next]_vars /\ WF_vars(ClockEdge)

-----------------------------------------------------------------------------
(* Properties.                                                               *)

TypeOK ==
    /\ ctl.state \in States /\ ctl.state_n \in States
    /\ ctl.status \in 0 .. 2 /\ ctl.rdata \in Words /\ ctl.reason \in Guard!DenyReasons
    /\ auth.code \in AuthCodes
    /\ cmac.left \in 0 .. CmacCycles /\ (cmac.live => cmac.left > 0)
    /\ mem \in [Layers \X Addrs -> Words]
    /\ last_sequence \in [Requesters -> Guard!Seqs]
    /\ pending \in Requests \union {NoRequest}
    /\ effect \in {"none", "done", "refused"}
    /\ spoiled \subseteq KeyRegisters

\* A request is authentic when its tag was made with a key of the requester it
\* names.  The key may be of an epoch before the one it names: the tag is computed
\* with the key of the epoch in which the request is taken, the epoch it names is
\* compared in S_GUARD, and active_epoch_i may advance in between.
AuthenticRequest(q) ==
    /\ q.requester \in Requesters
    /\ \E k \in Roots, e \in 0 .. q.epoch :
          q.tag = Mac(req_key(q.requester, k, e), req_msg(q))

\* The vertical access policy, as the requesters read it.
PermittedRequest(q) ==
    /\ q.layer \in Layers
    /\ q.addr \in Addrs
    /\ \/ q.requester = "SECURITY"
       \/ q.requester = "CPU_FETCH" /\ ~q.write /\ LayerRole[q.layer] = "EXEC"
       \/ q.requester \in {"CPU_DATA", "DMA"} /\ LayerRole[q.layer] = "DATA"

Fabric == INSTANCE TrustedMemory
            WITH tripped <- Guard!locked,
                 Authentic <- AuthenticRequest, Permitted <- PermittedRequest

\* The system implements the trusted memory: whatever the environment, the epoch
\* and (hardened) one upset register do, a request takes effect at most once and
\* only if it is authentic, current, fresh and permitted, nothing takes effect
\* after lockdown, and an accepted response tells the truth about the memory.
ImplementsTrustedMemory == Fabric!Spec

\* Every request that was taken is answered, although the keys may be wiped, the
\* epoch may move or the fabric may lock down at any point of the transaction.
RequestAnswered == pending # NoRequest ~> pending = NoRequest

\* The fault checks of FAULT_HARDEN never fire without a fault: no race between
\* a severe event, an epoch change and the transaction looks like an upset.
NoFalseAlarm == upsets = 0 => ~ctl.alarm

\* A request nobody can object to: of a known requester, to a tier of the stack, of
\* the active epoch, with the next number, and with a tag made with the requester's
\* key.  It names the epoch in which it was taken: one that named the next epoch and
\* was taken before the epoch moved is checked with the key of the former.
Rightful(q) ==
    /\ q.requester \in Requesters
    /\ q.layer \in Layers
    /\ q.epoch = active_epoch /\ q.epoch = taken_in
    /\ q.seq = (last[q.requester] + 1) % SeqMod
    /\ q.tag = Mac(req_key(q.requester, root, q.epoch), req_msg(q))

\* A step that locks the fabric of itself, without an upset, a sentinel that was hit or
\* an outside event, is the guard's decision on a request that is not rightful.
LockHasCause ==
    /\ upsets = 0 /\ ~sentinel_fault
    /\ ~Guard!locked /\ Guard!locked'
    /\ At("S_GUARD") => Rightful(pending)
    => \A e \in Inputs : Edge(e) => e.event \in {"physical", "thermal"}

\* No history of requests, refusals and epoch changes makes a rightful request lock
\* the fabric: the sequence registers, the keys and the tags of a transaction stay what
\* the requesters count on.
LocksForCause == [][LockHasCause]_vars

=============================================================================
