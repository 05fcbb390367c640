------------------------------- MODULE SocProofs -------------------------------
(***************************************************************************)
(* Proofs about the CPU-facing system, for every stack, policy, set of CPU  *)
(* accesses, tag latency and sequence width: the CPU is never told a lie,   *)
(* and undisturbed traffic never trips the fabric.                          *)
(*                                                                          *)
(* The invariant adds to that of the fabric (Clean) what the bridge holds   *)
(* of the transaction in each of its states (Link), and, as long as nothing *)
(* disturbed the system, that the two key schedules, the two sequence       *)
(* counters and the tags on both sides agree (Benign).                      *)
(***************************************************************************)
EXTENDS VtfSoc, SystemProofs

-----------------------------------------------------------------------------
(* The inductive invariant.                                                  *)

BSt(s) == b_state = s

\* The registers of the bridge, and what its CMAC unit works on.
BridgeOK ==
    /\ b_state \in Bridge!BStates
    /\ b_seq \in [Bridge!BRequesters -> Nat]
    /\ b_req = [requester |-> b_req.requester, write |-> b_req.write, layer |-> b_req.layer,
                addr |-> b_req.addr, data |-> b_req.data, seq |-> b_req.seq,
                epoch |-> b_req.epoch, tag |-> b_req.tag]
    /\ b_req.write \in BOOLEAN
    /\ b_req.data \in Words
    /\ b_drv = [start |-> b_drv.start, key |-> b_drv.key, msg |-> b_drv.msg]
    /\ b_drv.start \in BOOLEAN
    /\ b_out = [valid |-> b_out.valid, ok |-> b_out.ok, rdata |-> b_out.rdata]
    /\ b_out.valid => BSt("B_DONE")

BCmacOK ==
    /\ b_cmac = [left |-> b_cmac.left, live |-> b_cmac.live, done |-> b_cmac.done,
                 tag |-> b_cmac.tag]
    /\ b_cmac.left \in 0 .. CmacCycles
    /\ b_cmac.live \in BOOLEAN
    /\ b_cmac.done \in BOOLEAN
    /\ b_cmac.done => b_cmac.left = 0
    /\ b_drv.start => b_cmac.left = 0 /\ ~b_cmac.done
    /\ b_state \notin {"B_SIGN", "B_VERIFY"} => b_cmac.left = 0 /\ ~b_drv.start
    /\ b_state \in {"B_SIGN", "B_VERIFY"} /\ ~b_drv.start =>
          b_cmac.tag = Mac(b_drv.key, b_drv.msg)

\* A response to the bridge's request; if it says executed, that is the truth.
Told(m) ==
    /\ m = rsp_msg(b_req, m[3], m[4])
    /\ m[3] = 1 => effect = "done" /\ m[4] = mem[Cell(b_req)]

\* The system works on the bridge's request while the bridge waits for the response.
Link ==
    /\ ~BSt("B_WAIT") => pending = NoRequest
    /\ BSt("B_WAIT") /\ ~rsp.valid => pending = b_req
    /\ BSt("B_WAIT") /\ rsp.valid => pending = NoRequest /\ Told(rsp.msg)
    /\ BSt("B_VERIFY") => Told(b_rsp.msg)
    /\ BSt("B_DONE") => /\ Told(b_rsp.msg)
                        /\ b_out.ok => b_rsp.msg[3] = 1 /\ b_out.rdata = b_rsp.msg[4]

\* The keys both sides use in the active epoch.
ReqKey == req_key(b_req.requester, root, active_epoch)
RspKey == rsp_key(root, active_epoch)

\* The two key schedules have the same root.
SameRoot ==
    /\ phase \in {"EMPTY", "DERIVING", "READY"}
    /\ phase = "EMPTY" <=> b_phase = "EMPTY"
    /\ root = b_root

\* The access in flight is of this epoch, and the bridge has its keys.
Current ==
    /\ b_phase = "READY" /\ b_epoch = active_epoch
    /\ b_req.requester \in Bridge!BRequesters
    /\ b_req.layer \in Layers
    /\ b_req.epoch = active_epoch

\* Its sequence number has not reached the guard.
Unserved ==
    \/ b_state \in {"B_SIGN", "B_SEND"}
    \/ BSt("B_WAIT") /\ ctl.state \in {"S_AUTH", "S_AUTH2", "S_GUARD"}

\* The two sequence counters are in step.
InStep ==
    /\ \A q \in Bridge!BRequesters :
          ~(Unserved /\ q = b_req.requester) => b_seq[q] = last_sequence[q]
    /\ Unserved => /\ b_seq[b_req.requester] = b_req.seq
                   /\ b_req.seq = (last_sequence[b_req.requester] + 1) % SeqMod

\* What the bridge works on, with the right keys.
BridgeWork ==
    /\ BSt("B_SIGN") => b_drv.key = ReqKey /\ b_drv.msg = req_msg(b_req)
    /\ b_state \in {"B_SEND", "B_WAIT"} => b_req.tag = Mac(ReqKey, req_msg(b_req))
    /\ BSt("B_VERIFY") => /\ b_drv.key = RspKey /\ b_drv.msg = b_rsp.msg
                          /\ b_rsp.tag = Mac(RspKey, b_rsp.msg)

\* What the system works on, with the same keys.
SystemWork ==
    /\ BSt("B_WAIT") /\ ~rsp.valid => phase = "READY" /\ epoch = active_epoch
    /\ BSt("B_WAIT") /\ rsp.valid => rsp.tag = Mac(RspKey, rsp.msg)
    /\ ctl.state \in {"S_AUTH", "S_AUTH2"} => drv.key = ReqKey
    /\ At("S_GUARD") => auth.ok /\ (FaultHarden => auth.code = "AUTH_PASS")
    /\ At("S_RESP") => /\ drv.key = RspKey
                       /\ ~drv.start => cmac.tag = Mac(drv.key, drv.msg)

Benign ==
    /\ ~lockdown_q /\ sentinel_fault = FALSE /\ b_tamper = FALSE
    /\ SameRoot
    /\ ~BSt("B_IDLE") => Current
    /\ InStep
    /\ BridgeWork
    /\ SystemWork

SocInv ==
    /\ Clean
    /\ BridgeOK /\ BCmacOK /\ Link
    /\ disturbed \in BOOLEAN
    /\ ~disturbed => Benign

-----------------------------------------------------------------------------
(* What the fabric does at an edge of the whole.                             *)

\* The bridge's request is a request.
LEMMA BridgeRequest ==
    ASSUME BridgeOK
    PROVE  b_req # NoRequest
<1>1. "requester" \in DOMAIN b_req
  BY DEF BridgeOK
<1>2. "requester" \notin DOMAIN NoRequest
  BY DEF NoRequest
<1>3. QED
  BY <1>1, <1>2

\* The inputs of the fabric come from the bridge.
LEMMA SocInputsOK ==
    ASSUME BridgeOK, NEW e \in SocInputs
    PROVE  /\ InputOK(e)
           /\ e.request = IF BSt("B_SEND") THEN b_req ELSE NoRequest
           /\ e.request # NoRequest <=> BSt("B_SEND")
           /\ e.load \in {NoRoot} \union Roots
           /\ phase # "EMPTY" => e.load = NoRoot
<1>1. e.request = IF BSt("B_SEND") THEN b_req ELSE NoRequest
  BY DEF SocInputs, Bridge!vtf_req_valid_o, BSt
<1>2. /\ e.access \in BOOLEAN
      /\ e.load \in {NoRoot} \union Roots
      /\ phase # "EMPTY" => e.load = NoRoot
  BY DEF SocInputs
<1>3. InputOK(e)
  BY <1>1, <1>2 DEF InputOK, BridgeOK
<1>4. QED
  BY <1>1, <1>2, <1>3, BridgeRequest

\* The fabric has nothing to do and takes nothing.
LEMMA FabricIdle ==
    ASSUME Clean, NEW e, InputOK(e), Edge(e), pending = NoRequest,
           ~(e.request # NoRequest /\ req_ready_o(e))
    PROVE  /\ At("S_IDLE") /\ Idle(e)
           /\ ctl' = ctl /\ pending' = NoRequest /\ effect' = effect /\ mem' = mem
           /\ last' = last /\ ~rsp'.valid
<1>1. At("S_IDLE") /\ ~At("S_GUARD") /\ CtlOK /\ RspOK
  BY DEF Clean, ControlOK, InFlight, At
<1>2. Idle(e)
  BY <1>1 DEF Edge, Control, Accept, AuthDone, Auth2Done, AuthWait, GuardStep, MemStep,
              SignStep, RespStep, BadState, At
<1>3. ctl' = ctl /\ ~rsp'.valid
  BY <1>1, <1>2, NoFault DEF Idle, Go, Silent, RspOK
<1>4. mem' = mem /\ last' = last
  BY <1>1, History
<1>5. ~Guard!consume_sequence(GuardIn(e)) /\ ~mem_strobe(e)
  BY <1>1, Consumed DEF mem_strobe
<1>6. pending' = NoRequest /\ effect' = effect
  BY <1>3, <1>5 DEF Edge, Observe
<1>7. QED
  BY <1>1, <1>2, <1>3, <1>4, <1>6

\* The fabric takes a request.
LEMMA FabricAccepts ==
    ASSUME Clean, NEW e, InputOK(e), Edge(e), pending = NoRequest,
           e.request # NoRequest, req_ready_o(e)
    PROVE  /\ Accept(e)
           /\ pending' = e.request /\ ~rsp'.valid
           /\ mem' = mem /\ last' = last
<1>1. At("S_IDLE") /\ ~At("S_GUARD")
  BY DEF Clean, ControlOK, InFlight, At
<1>2. Accept(e)
  BY <1>1 DEF Edge, Control, Idle, AuthDone, Auth2Done, AuthWait, GuardStep, MemStep,
              SignStep, RespStep, BadState, At
<1>3. QED
  BY <1>1, <1>2, AcceptInv, History

\* The fabric works on its request: it goes on, or answers it truthfully.
LEMMA FabricBusy ==
    ASSUME Clean, NEW e, InputOK(e), Edge(e), pending # NoRequest
    PROVE  /\ ~At("S_IDLE") /\ pending = r
           /\ ~rsp'.valid => pending' = pending
           /\ rsp'.valid => /\ pending' = NoRequest
                            /\ rsp'.msg = rsp_msg(r, ctl.status, ctl.rdata)
                            /\ ctl.status = 1 => effect' = "done" /\ ctl.rdata = mem'[Cell(r)]
<1>1. ~At("S_IDLE") /\ pending = r
  BY DEF Clean, ControlOK, InFlight
<1>2. pending' = IF rsp'.valid THEN NoRequest ELSE pending
  BY <1>1, History
<1>3. CASE AuthDone \/ Auth2Done \/ AuthWait(e) \/ GuardStep(e) \/ MemStep
  BY <1>1, <1>2, <1>3, AuthDoneInv, Auth2DoneInv, AuthWaitInv, GuardStepInv, MemStepInv
<1>4. CASE SignStep(e) \/ RespStep(e)
  <2>1. rsp'.valid => rsp'.msg = rsp_msg(r, ctl.status, ctl.rdata) /\ Truthful
    BY <1>4, SignStepInv, RespStepInv
  <2>2. effect' = effect /\ mem' = mem
    BY <1>4, History DEF SignStep, RespStep, At
  <2>3. QED
    BY <1>1, <1>2, <2>1, <2>2 DEF Truthful
<1>5. CASE Idle(e) \/ Accept(e) \/ BadState
  BY <1>1, <1>5 DEF Idle, Accept, BadState, Clean, ControlOK, CtlOK, At
<1>6. QED
  BY <1>3, <1>4, <1>5 DEF Edge, Control

-----------------------------------------------------------------------------
(* The bridge at an edge.                                                    *)

\* Its CMAC unit is never cleared: a start is taken, and the tag stays.
LEMMA BCmacEdge ==
    ASSUME BridgeOK, BCmacOK, Bridge!Cmac!UnitEdge(b_drv.start, b_drv.key, b_drv.msg, FALSE)
    PROVE  /\ b_cmac' = [left |-> b_cmac'.left, live |-> b_cmac'.live, done |-> b_cmac'.done,
                         tag |-> b_cmac'.tag]
           /\ b_cmac'.left \in 0 .. CmacCycles
           /\ b_cmac'.live \in BOOLEAN
           /\ b_cmac'.done \in BOOLEAN
           /\ b_cmac'.done => b_cmac'.left = 0
           /\ b_drv.start => b_cmac'.tag = Mac(b_drv.key, b_drv.msg)
           /\ ~b_drv.start => b_cmac'.tag = b_cmac.tag
           /\ ~b_drv.start /\ b_cmac.left = 0 => b_cmac'.left = 0 /\ ~b_cmac'.done
<1>1. CmacCycles \in Nat /\ CmacCycles > 0
  BY SystemAssumption
<1>2. CASE Bridge!Cmac!TakeStart(b_drv.start, b_drv.key, b_drv.msg, FALSE)
  <2>1. /\ b_drv.start
        /\ b_cmac' = [left |-> CmacCycles, live |-> TRUE, done |-> FALSE,
                      tag |-> Mac(b_drv.key, b_drv.msg)]
    BY <1>2 DEF Bridge!Cmac!TakeStart, Bridge!Cmac!Mac, Mac, Cmac!Mac
  <2>2. /\ b_cmac' = [left |-> b_cmac'.left, live |-> b_cmac'.live, done |-> b_cmac'.done,
                      tag |-> b_cmac'.tag]
        /\ b_cmac'.left = CmacCycles /\ b_cmac'.live = TRUE /\ b_cmac'.done = FALSE
        /\ b_cmac'.tag = Mac(b_drv.key, b_drv.msg)
    BY <2>1
  <2>3. QED
    BY <1>1, <2>1, <2>2
<1>3. CASE Bridge!Cmac!StayIdle(b_drv.start, FALSE)
  <2>1. ~b_drv.start /\ ~(b_cmac.left > 0) /\ b_cmac' = [b_cmac EXCEPT !.done = FALSE]
    BY <1>3 DEF Bridge!Cmac!StayIdle, Bridge!Cmac!busy_o
  <2>2. b_cmac' = [left |-> b_cmac.left, live |-> b_cmac.live, done |-> FALSE,
                   tag |-> b_cmac.tag]
    BY <2>1 DEF BCmacOK
  <2>3. b_cmac.left = 0
    BY <1>1, <2>1 DEF BCmacOK
  <2>4. QED
    BY <1>1, <2>1, <2>2, <2>3 DEF BCmacOK
<1>4. CASE Bridge!Cmac!Deliver
  <2>1. /\ b_cmac.left = 1
        /\ b_cmac' = [left |-> 0, live |-> FALSE, done |-> b_cmac.live, tag |-> b_cmac.tag]
    BY <1>4 DEF BCmacOK, Bridge!Cmac!Deliver
  <2>2. /\ b_cmac'.left = 0 /\ b_cmac'.live = FALSE /\ b_cmac'.tag = b_cmac.tag
        /\ b_cmac'.done = b_cmac.live
        /\ b_cmac' = [left |-> b_cmac'.left, live |-> b_cmac'.live, done |-> b_cmac'.done,
                      tag |-> b_cmac'.tag]
    BY <2>1
  <2>3. b_cmac'.done \in BOOLEAN /\ b_cmac'.live \in BOOLEAN
    BY <2>2, Zenon DEF BCmacOK
  <2>4. ~b_drv.start /\ b_cmac.left # 0
    BY <2>1 DEF BCmacOK
  <2>5. QED
    BY <1>1, <2>2, <2>3, <2>4
<1>5. CASE Bridge!Cmac!Compute
  <2>1. /\ b_cmac.left > 1
        /\ b_cmac' = [left |-> b_cmac.left - 1, live |-> b_cmac.live, done |-> b_cmac.done,
                      tag |-> b_cmac.tag]
    BY <1>5 DEF BCmacOK, Bridge!Cmac!Compute
  <2>2. b_cmac.left - 1 \in 0 .. CmacCycles /\ ~b_drv.start /\ ~b_cmac.done /\ b_cmac.left # 0
    BY <1>1, <2>1 DEF BCmacOK
  <2>3. QED
    BY <2>1, <2>2 DEF BCmacOK
<1>6. QED
  BY <1>2, <1>3, <1>4, <1>5 DEF Bridge!Cmac!UnitEdge

\* One edge of fabric and bridge, with a on the CPU port.
SocStep(e, a) == Edge(e) /\ Bridge!BridgeEdge(a, e.load, req_ready_o(e), rsp)

Safe == BridgeOK /\ BCmacOK /\ Link

\* While the bridge does not wait for it, the fabric is idle; a response it gave
\* stays true.
LEMMA FabricStays ==
    ASSUME Clean, Safe, NEW e \in SocInputs, NEW a, SocStep(e, a),
           ~BSt("B_WAIT") \/ rsp.valid, ~(BSt("B_SEND") /\ req_ready_o(e))
    PROVE  /\ pending' = NoRequest /\ ~rsp'.valid /\ At("S_IDLE") /\ ctl' = ctl /\ last' = last
           /\ \A m : Told(m) /\ b_req' = b_req => Told(m)'
<1>1. InputOK(e) /\ (e.request # NoRequest <=> BSt("B_SEND"))
  BY SocInputsOK DEF Safe
<1>2. pending = NoRequest
  BY DEF Safe, Link
<1>3. /\ At("S_IDLE") /\ ctl' = ctl
      /\ pending' = NoRequest /\ effect' = effect /\ mem' = mem /\ last' = last /\ ~rsp'.valid
  BY <1>1, <1>2, FabricIdle DEF SocStep
<1>4. ASSUME NEW m, Told(m), b_req' = b_req PROVE Told(m)'
  BY <1>3, <1>4 DEF Told, Cell
<1>5. QED
  BY <1>3, <1>4

\* The CMAC unit of the bridge at such an edge.
LEMMA BCmacStep ==
    ASSUME Safe, NEW e, NEW a, SocStep(e, a)
    PROVE  /\ b_cmac' = [left |-> b_cmac'.left, live |-> b_cmac'.live, done |-> b_cmac'.done,
                         tag |-> b_cmac'.tag]
           /\ b_cmac'.left \in 0 .. CmacCycles
           /\ b_cmac'.live \in BOOLEAN
           /\ b_cmac'.done \in BOOLEAN
           /\ b_cmac'.done => b_cmac'.left = 0
           /\ b_drv.start => b_cmac'.tag = Mac(b_drv.key, b_drv.msg)
           /\ ~b_drv.start => b_cmac'.tag = b_cmac.tag
           /\ ~b_drv.start /\ b_cmac.left = 0 => b_cmac'.left = 0 /\ ~b_cmac'.done
BY BCmacEdge DEF SocStep, Bridge!BridgeEdge, Safe

\* The bridge takes an access of the CPU.
LEMMA TakeSafe ==
    ASSUME Clean, Safe, NEW e \in SocInputs, NEW a \in Accesses, SocStep(e, a), Bridge!Take(a)
    PROVE  Safe'
<1> DEFINE who == IF a.fetch THEN "CPU_FETCH" ELSE "CPU_DATA"
           n == (b_seq[who] + 1) % SeqMod
<1>1. BridgeOK /\ BCmacOK /\ Link
  BY DEF Safe
<1>2. /\ b_state = "B_IDLE" /\ b_state' = "B_SIGN"
      /\ b_seq' = [b_seq EXCEPT ![who] = n]
      /\ b_req' = [requester |-> who, write |-> a.write /\ ~a.fetch, layer |-> a.layer,
                   addr |-> a.addr, data |-> IF a.write THEN a.data ELSE 0,
                   seq |-> n, epoch |-> active_epoch, tag |-> b_req.tag]
      /\ b_drv'.start = TRUE
      /\ b_drv' = [start |-> b_drv'.start, key |-> b_drv'.key, msg |-> b_drv'.msg]
      /\ b_out' = [b_out EXCEPT !.valid = FALSE]
  BY DEF Bridge!Take, Bridge!cpu_ready_o, Bridge!Silent
<1>3. who \in Bridge!BRequesters
  BY DEF Bridge!BRequesters
<1>4. n \in Nat
  BY <1>1, <1>3, SystemAssumption DEF BridgeOK
<1>5. b_req'.write \in BOOLEAN /\ b_req'.data \in Words
  BY <1>2, SocAssumption, SystemAssumption
<1>6. b_req' = [requester |-> b_req'.requester, write |-> b_req'.write, layer |-> b_req'.layer,
                addr |-> b_req'.addr, data |-> b_req'.data, seq |-> b_req'.seq,
                epoch |-> b_req'.epoch, tag |-> b_req'.tag]
  BY <1>2
<1>7. b_seq' \in [Bridge!BRequesters -> Nat]
  BY <1>1, <1>2, <1>4 DEF BridgeOK
<1>8. /\ b_out' = [valid |-> b_out'.valid, ok |-> b_out'.ok, rdata |-> b_out'.rdata]
      /\ ~b_out'.valid
  BY <1>1, <1>2 DEF BridgeOK
<1>9. BridgeOK'
  BY <1>2, <1>5, <1>6, <1>7, <1>8 DEF BridgeOK, Bridge!BStates
<1>10. ~b_drv.start /\ b_cmac.left = 0
  BY <1>1, <1>2 DEF BCmacOK
<1>11. BCmacOK'
  BY <1>2, <1>10, BCmacStep DEF BCmacOK
<1>12. pending' = NoRequest
  BY <1>2, FabricStays DEF BSt
<1>13. Link'
  BY <1>2, <1>12 DEF Link, BSt
<1>14. QED
  BY <1>9, <1>11, <1>13 DEF Safe

\* The tag of the request is there.
LEMMA SignedSafe ==
    ASSUME Clean, Safe, NEW e \in SocInputs, NEW a, SocStep(e, a), Bridge!Signed
    PROVE  Safe'
<1>1. BridgeOK /\ BCmacOK /\ Link
  BY DEF Safe
<1>2. /\ b_state = "B_SIGN" /\ b_state' = "B_SEND" /\ b_cmac.done
      /\ b_req' = [b_req EXCEPT !.tag = b_cmac.tag]
      /\ b_drv' = [b_drv EXCEPT !.start = FALSE]
      /\ b_out' = [b_out EXCEPT !.valid = FALSE]
      /\ b_seq' = b_seq
  BY DEF Bridge!Signed, Bridge!Silent, Bridge!Quiet
<1>3. BridgeOK'
  <2>1. b_req' = [requester |-> b_req.requester, write |-> b_req.write, layer |-> b_req.layer,
                  addr |-> b_req.addr, data |-> b_req.data, seq |-> b_req.seq,
                  epoch |-> b_req.epoch, tag |-> b_cmac.tag]
    BY <1>1, <1>2 DEF BridgeOK
  <2>2. b_req' = [requester |-> b_req'.requester, write |-> b_req'.write, layer |-> b_req'.layer,
                  addr |-> b_req'.addr, data |-> b_req'.data, seq |-> b_req'.seq,
                  epoch |-> b_req'.epoch, tag |-> b_req'.tag]
        /\ b_req'.write = b_req.write /\ b_req'.data = b_req.data
    BY <2>1
  <2>3. /\ b_out' = [valid |-> b_out'.valid, ok |-> b_out'.ok, rdata |-> b_out'.rdata]
        /\ ~b_out'.valid
        /\ b_drv' = [start |-> b_drv'.start, key |-> b_drv'.key, msg |-> b_drv'.msg]
        /\ b_drv'.start = FALSE
    BY <1>1, <1>2 DEF BridgeOK
  <2>4. QED
    BY <1>1, <1>2, <2>2, <2>3 DEF BridgeOK, Bridge!BStates
<1>4. ~b_drv.start /\ b_cmac.left = 0
  BY <1>1, <1>2 DEF BCmacOK
<1>5. b_drv'.start = FALSE
  BY <1>1, <1>2 DEF BridgeOK
<1>6. BCmacOK'
  BY <1>2, <1>4, <1>5, BCmacStep DEF BCmacOK
<1>7. pending' = NoRequest
  BY <1>2, FabricStays DEF BSt
<1>8. Link'
  BY <1>2, <1>7 DEF Link, BSt
<1>9. QED
  BY <1>3, <1>6, <1>8 DEF Safe

\* The fabric takes the request.
LEMMA SentSafe ==
    ASSUME Clean, Safe, NEW e \in SocInputs, NEW a, SocStep(e, a), Bridge!Sent(req_ready_o(e))
    PROVE  /\ Safe'
           /\ Accept(e) /\ e.request = b_req /\ last' = last /\ ~rsp'.valid
<1>1. BridgeOK /\ BCmacOK /\ Link
  BY DEF Safe
<1>2. /\ b_state = "B_SEND" /\ b_state' = "B_WAIT" /\ req_ready_o(e)
      /\ b_drv' = [b_drv EXCEPT !.start = FALSE]
      /\ b_out' = [b_out EXCEPT !.valid = FALSE]
      /\ b_seq' = b_seq /\ b_req' = b_req
  BY DEF Bridge!Sent, Bridge!vtf_req_valid_o, Bridge!Silent, Bridge!Quiet
<1>3. BridgeOK'
  BY <1>1, <1>2 DEF BridgeOK, Bridge!BStates
<1>4. ~b_drv.start /\ b_cmac.left = 0
  BY <1>1, <1>2 DEF BCmacOK
<1>5. b_drv'.start = FALSE
  BY <1>1, <1>2 DEF BridgeOK
<1>6. BCmacOK'
  BY <1>2, <1>4, <1>5, BCmacStep DEF BCmacOK
<1>7. InputOK(e) /\ e.request = b_req /\ e.request # NoRequest
  BY <1>1, <1>2, SocInputsOK DEF BSt
<1>8. Accept(e) /\ pending' = b_req /\ ~rsp'.valid /\ last' = last
  BY <1>1, <1>2, <1>7, FabricAccepts DEF Link, BSt, SocStep
<1>9. Link'
  BY <1>2, <1>8 DEF Link, BSt
<1>10. QED
  BY <1>3, <1>6, <1>7, <1>8, <1>9 DEF Safe

\* The response is there; its tag is computed.
LEMMA ReceivedSafe ==
    ASSUME Clean, Safe, NEW e \in SocInputs, NEW a, SocStep(e, a), Bridge!Received(rsp)
    PROVE  Safe'
<1>1. BridgeOK /\ BCmacOK /\ Link
  BY DEF Safe
<1>2. /\ b_state = "B_WAIT" /\ b_state' = "B_VERIFY" /\ rsp.valid
      /\ b_rsp' = [msg |-> rsp.msg, tag |-> rsp.tag]
      /\ b_drv' = [start |-> TRUE, key |-> Bridge!rsp_key, msg |-> rsp.msg]
      /\ b_out' = [b_out EXCEPT !.valid = FALSE]
      /\ b_seq' = b_seq /\ b_req' = b_req
  BY DEF Bridge!Received, Bridge!Silent
<1>3. /\ b_drv' = [start |-> b_drv'.start, key |-> b_drv'.key, msg |-> b_drv'.msg]
      /\ b_drv'.start = TRUE
  BY <1>2
<1>4. BridgeOK'
  BY <1>1, <1>2, <1>3 DEF BridgeOK, Bridge!BStates
<1>5. ~b_drv.start /\ b_cmac.left = 0
  BY <1>1, <1>2 DEF BCmacOK
<1>6. BCmacOK'
  BY <1>2, <1>3, <1>5, BCmacStep DEF BCmacOK
<1>7. Told(rsp.msg)
  BY <1>1, <1>2 DEF Link, BSt
<1>8. pending' = NoRequest
  BY <1>2, FabricStays DEF BSt
<1>9. \A m : Told(m) => Told(m)'
  BY <1>2, FabricStays DEF BSt
<1>10. Told(b_rsp.msg)'
  <2>1. b_rsp'.msg = rsp.msg
    BY <1>2
  <2>2. PICK m : m = rsp.msg
    OBVIOUS
  <2>3. Told(m)'
    BY <1>7, <1>9, <2>2
  <2>4. b_rsp'.msg = m
    BY <2>1, <2>2
  <2>5. QED
    BY <2>3, <2>4 DEF Told
<1>11. Link'
  BY <1>2, <1>8, <1>10 DEF Link, BSt
<1>12. QED
  BY <1>4, <1>6, <1>11 DEF Safe

\* A response, once told, stays told while bridge and fabric keep their registers.
LEMMA ToldStays ==
    ASSUME Clean, Safe, NEW e \in SocInputs, NEW a, SocStep(e, a),
           b_state \in {"B_VERIFY", "B_DONE"}, b_req' = b_req, b_rsp' = b_rsp
    PROVE  Told(b_rsp.msg) /\ Told(b_rsp.msg)' /\ pending' = NoRequest
<1>1. Told(b_rsp.msg)
  BY DEF Safe, Link, BSt
<1>2. pending' = NoRequest /\ \A m : Told(m) /\ b_req' = b_req => Told(m)'
  BY FabricStays DEF BSt
<1>3. PICK m : m = b_rsp.msg
  OBVIOUS
<1>4. Told(m)' /\ b_rsp'.msg = m
  BY <1>1, <1>2, <1>3
<1>5. QED
  BY <1>1, <1>2, <1>4 DEF Told

\* The response was verified and the CPU is told.
LEMMA VerifiedSafe ==
    ASSUME Clean, Safe, NEW e \in SocInputs, NEW a, SocStep(e, a), Bridge!Verified
    PROVE  Safe'
<1> DEFINE genuine == b_cmac.tag = b_rsp.tag
<1>1. BridgeOK /\ BCmacOK /\ Link
  BY DEF Safe
<1>2. /\ b_state = "B_VERIFY" /\ b_state' = "B_DONE" /\ b_cmac.done
      /\ b_out' = [valid |-> TRUE,
                   ok    |-> genuine /\ Bridge!fields_match /\ b_rsp.msg[3] = 1,
                   rdata |-> IF genuine /\ Bridge!fields_match THEN b_rsp.msg[4] ELSE 0]
      /\ b_drv' = [b_drv EXCEPT !.start = FALSE]
      /\ b_seq' = b_seq /\ b_req' = b_req /\ b_rsp' = b_rsp
  BY DEF Bridge!Verified, Bridge!Quiet
<1>3. /\ b_out' = [valid |-> b_out'.valid, ok |-> b_out'.ok, rdata |-> b_out'.rdata]
      /\ b_out'.ok => b_rsp.msg[3] = 1 /\ b_out'.rdata = b_rsp.msg[4]
  BY <1>2
<1>4. BridgeOK'
  <2>1. b_drv' = [start |-> b_drv'.start, key |-> b_drv'.key, msg |-> b_drv'.msg]
        /\ b_drv'.start = FALSE
    BY <1>1, <1>2 DEF BridgeOK
  <2>2. QED
    BY <1>1, <1>2, <1>3, <2>1 DEF BridgeOK, Bridge!BStates, BSt
<1>5. ~b_drv.start /\ b_cmac.left = 0
  BY <1>1, <1>2 DEF BCmacOK
<1>6. b_drv'.start = FALSE
  BY <1>1, <1>2 DEF BridgeOK
<1>7. BCmacOK'
  BY <1>2, <1>5, <1>6, BCmacStep DEF BCmacOK
<1>8. Told(b_rsp.msg)' /\ pending' = NoRequest
  BY <1>2, ToldStays
<1>9. Link'
  BY <1>2, <1>3, <1>8 DEF Link, BSt
<1>10. QED
  BY <1>4, <1>7, <1>9 DEF Safe

\* The bridge is idle again.
LEMMA DoneSafe ==
    ASSUME Clean, Safe, NEW e \in SocInputs, NEW a, SocStep(e, a), Bridge!Done
    PROVE  Safe'
<1>1. BridgeOK /\ BCmacOK /\ Link
  BY DEF Safe
<1>2. /\ b_state = "B_DONE" /\ b_state' = "B_IDLE"
      /\ b_drv' = [b_drv EXCEPT !.start = FALSE]
      /\ b_out' = [b_out EXCEPT !.valid = FALSE]
      /\ b_seq' = b_seq /\ b_req' = b_req
  BY DEF Bridge!Done, Bridge!Quiet, Bridge!Silent
<1>3. BridgeOK'
  BY <1>1, <1>2 DEF BridgeOK, Bridge!BStates
<1>4. ~b_drv.start /\ b_cmac.left = 0 /\ b_drv'.start = FALSE
  BY <1>1, <1>2 DEF BCmacOK, BridgeOK
<1>5. BCmacOK'
  BY <1>2, <1>4, BCmacStep DEF BCmacOK
<1>6. pending' = NoRequest
  BY <1>2, FabricStays DEF BSt
<1>7. Link'
  BY <1>2, <1>6 DEF Link, BSt
<1>8. QED
  BY <1>3, <1>5, <1>7 DEF Safe

\* The bridge waits, for the fabric or for its own tag.
LEMMA WaitingSafe ==
    ASSUME Clean, Safe, NEW e \in SocInputs, NEW a, SocStep(e, a),
           Bridge!Waiting(a, req_ready_o(e), rsp)
    PROVE  Safe'
<1>1. BridgeOK /\ BCmacOK /\ Link
  BY DEF Safe
<1>2. /\ b_state' = b_state
      /\ b_drv' = [b_drv EXCEPT !.start = FALSE]
      /\ b_out' = [b_out EXCEPT !.valid = FALSE]
      /\ b_seq' = b_seq /\ b_req' = b_req /\ b_rsp' = b_rsp
  BY DEF Bridge!Waiting, Bridge!Wait, Bridge!Quiet, Bridge!Silent
<1>3. /\ b_state \in {"B_IDLE", "B_SIGN", "B_VERIFY", "B_SEND", "B_WAIT"}
      /\ b_state = "B_SEND" => ~req_ready_o(e)
      /\ b_state = "B_WAIT" => ~rsp.valid
  BY DEF Bridge!Waiting
<1>4. BridgeOK'
  BY <1>1, <1>2 DEF BridgeOK, BSt
<1>5. b_drv'.start = FALSE /\ b_drv'.key = b_drv.key /\ b_drv'.msg = b_drv.msg
  BY <1>1, <1>2 DEF BridgeOK
<1>6. BCmacOK'
  <2>1. b_state \notin {"B_SIGN", "B_VERIFY"} => b_cmac'.left = 0
    BY <1>1, BCmacStep DEF BCmacOK
  <2>2. b_state \in {"B_SIGN", "B_VERIFY"} => b_cmac'.tag = Mac(b_drv.key, b_drv.msg)
    BY <1>1, BCmacStep DEF BCmacOK
  <2>3. QED
    BY <1>2, <1>5, <2>1, <2>2, BCmacStep DEF BCmacOK
<1>7. CASE b_state = "B_WAIT"
  <2>1. pending = b_req /\ pending # NoRequest /\ InputOK(e)
    BY <1>1, <1>3, <1>7, BridgeRequest, SocInputsOK DEF Link, BSt
  <2>2. /\ pending = r
        /\ ~rsp'.valid => pending' = pending
        /\ rsp'.valid => /\ pending' = NoRequest
                         /\ rsp'.msg = rsp_msg(r, ctl.status, ctl.rdata)
                         /\ ctl.status = 1 => effect' = "done" /\ ctl.rdata = mem'[Cell(r)]
    BY <2>1, FabricBusy DEF SocStep
  <2>3. rsp'.valid => Told(rsp.msg)'
    BY <1>2, <2>1, <2>2 DEF Told, rsp_msg, Cell
  <2>4. Link'
    BY <1>2, <1>7, <2>1, <2>2, <2>3 DEF Link, BSt
  <2>5. QED
    BY <1>4, <1>6, <2>4 DEF Safe
<1>8. CASE b_state = "B_VERIFY"
  <2>1. Told(b_rsp.msg)' /\ pending' = NoRequest
    BY <1>2, <1>8, ToldStays
  <2>2. Link'
    BY <1>2, <1>8, <2>1 DEF Link, BSt
  <2>3. QED
    BY <1>4, <1>6, <2>2 DEF Safe
<1>9. CASE b_state \in {"B_IDLE", "B_SIGN", "B_SEND"}
  <2>1. pending' = NoRequest
    BY <1>3, <1>9, FabricStays DEF BSt
  <2>2. Link'
    BY <1>2, <1>9, <2>1 DEF Link, BSt
  <2>3. QED
    BY <1>4, <1>6, <2>2 DEF Safe
<1>10. QED
  BY <1>3, <1>7, <1>8, <1>9

\* Every edge keeps the safe part.
LEMMA SafeInv ==
    ASSUME Clean, Safe, NEW e \in SocInputs, NEW a \in {NoAccess} \union Accesses, SocStep(e, a)
    PROVE  Clean' /\ Safe'
<1>1. Clean'
  BY SocInputsOK, EdgeInv DEF Safe, SocStep
<1>2. Safe'
  BY TakeSafe, SignedSafe, SentSafe, ReceivedSafe, VerifiedSafe, DoneSafe, WaitingSafe
     DEF SocStep, Bridge!BridgeEdge
<1>3. QED
  BY <1>1, <1>2

-----------------------------------------------------------------------------
(* The undisturbed system.                                                   *)

\* The bridge's requesters are requesters of the fabric.
LEMMA BridgeRequesters == \A q \in Bridge!BRequesters : q \in Requesters
BY SystemAssumption, SocAssumption DEF Bridge!BRequesters

\* While the fabric works, it works on the request the bridge waits for.
LEMMA SameRequest ==
    ASSUME Clean, Safe, ~At("S_IDLE")
    PROVE  BSt("B_WAIT") /\ ~rsp.valid /\ r = b_req /\ pending # NoRequest
<1>1. pending # NoRequest /\ pending = r
  BY DEF Clean, ControlOK, InFlight
<1>2. QED
  BY <1>1 DEF Safe, Link

\* Without an event the guard sees nothing severe outside the request.
LEMMA NothingOutside ==
    ASSUME Clean, Benign, NEW e, e.event = "none"
    PROVE  ~Guard!environment_severe(GuardIn(e)) /\ ~Guard!locked
<1>1. GuardIn(e).physical_fault = FALSE /\ GuardIn(e).sentinel_fault = FALSE
  BY DEF GuardIn, Clean, ControlOK, CtlOK, Benign
<1>2. \A l \in Layers : GuardIn(e).temperature_mc[l] = MaxTempMc
  BY DEF GuardIn
<1>3. ~(MaxTempMc > MaxTempMc)
  BY DEF MaxTempMc
<1>4. ~Guard!thermal_alarm(GuardIn(e))
  BY <1>2, <1>3 DEF Guard!thermal_alarm
<1>5. ~Guard!internal_fault /\ ~Guard!locked
  BY GuardHealthy DEF Clean, Benign
<1>6. QED
  BY <1>1, <1>4, <1>5 DEF Guard!environment_severe

\* The guard consumes every request of the bridge.
LEMMA RequestConsumed ==
    ASSUME Clean, Safe, Benign, NEW e, e.event = "none", At("S_GUARD")
    PROVE  Guard!consume_sequence(GuardIn(e))
<1>1. BSt("B_WAIT") /\ ~rsp.valid /\ r = b_req
  BY SameRequest DEF At
<1>2. /\ r.requester \in Requesters /\ r.layer \in Layers /\ r.epoch = active_epoch
  BY <1>1, BridgeRequesters DEF Benign, Current, BSt
<1>3. r.seq = (last_sequence[r.requester] + 1) % SeqMod
  BY <1>1 DEF Benign, InStep, Unserved, At
<1>4. auth_pass
  <2>1. auth.ok /\ (FaultHarden => auth.code = "AUTH_PASS")
    BY DEF Benign, SystemWork
  <2>2. auth.code = "AUTH_PASS" => fields_ok
    BY DEF Clean, ControlOK, InFlight, InGuard, fields_ok
  <2>3. QED
    BY <2>1, <2>2 DEF auth_pass
<1>5. Guard!examined(GuardIn(e))
  <2>1. GuardIn(e).req_valid
    BY DEF GuardIn
  <2>2. QED
    BY <2>1, NothingOutside DEF Guard!examined
<1>6. Guard!well_formed(GuardIn(e))
  BY <1>2 DEF GuardIn, guard_layer, r_layer_ok, Guard!well_formed, Guard!requester_ok,
              Guard!layer_ok
<1>7. Guard!epoch_current(GuardIn(e)) /\ Guard!sequence_next(GuardIn(e))
  BY <1>2, <1>3 DEF GuardIn, Guard!epoch_current, Guard!sequence_next
<1>8. GuardIn(e).auth_ok
  BY <1>2, <1>4 DEF GuardIn, r_layer_ok
<1>9. QED
  BY <1>5, <1>6, <1>7, <1>8 DEF Guard!consume_sequence

\* So nothing is severe: the keys stay and the fabric does not trip.
LEMMA Calm ==
    ASSUME Clean, Safe, Benign, NEW e, e.event = "none"
    PROVE  ~zeroize(e) /\ ~lockdown_o(e)
<1>1. ~Guard!environment_severe(GuardIn(e)) /\ ~Guard!locked
  BY NothingOutside
<1>2. Guard!examined(GuardIn(e)) => At("S_GUARD")
  BY DEF Guard!examined, GuardIn
<1>3. ~Guard!request_severe(GuardIn(e))
  BY <1>2, RequestConsumed DEF Guard!request_severe
<1>4. QED
  BY <1>1, <1>3 DEF zeroize, lockdown_o, Guard!key_zeroize_o, Guard!lockdown_o,
                    Guard!severe_event_o

LEMMA CalmRegisters ==
    ASSUME Clean, Safe, Benign, NEW e, e.event = "none", Edge(e)
    PROVE  ~lockdown_q' /\ sentinel_fault' = FALSE
<1>1. ~zeroize(e)
  BY Calm
<1>2. lockdown_q' = (lockdown_q \/ zeroize(e))
  BY DEF Edge, Guard!Cycle, zeroize, Guard!key_zeroize_o
<1>3. sentinel_fault' = (sentinel_fault \/ e.event = "mismatch")
  BY DEF Edge, SentinelEdge
<1>4. QED
  BY <1>1, <1>2, <1>3 DEF Benign

\* The two key schedules load the same root, and keep keys of the active epoch.
LEMMA SameKeys ==
    ASSUME Clean, Safe, Benign, NEW e \in SocInputs, NEW a, e.event = "none", SocStep(e, a)
    PROVE  /\ SameRoot'
           /\ active_epoch' = active_epoch
           /\ phase = "READY" => root' = root
           /\ b_phase = "READY" => root' = root
           /\ phase = "READY" /\ epoch = active_epoch => phase' = "READY" /\ epoch' = active_epoch
           /\ b_phase = "READY" /\ b_epoch = active_epoch =>
                 b_phase' = "READY" /\ b_epoch' = active_epoch
<1>1. /\ e.load \in {NoRoot} \union Roots
      /\ phase # "EMPTY" => e.load = NoRoot
      /\ InputOK(e)
  BY SocInputsOK DEF Safe
<1>2. SameRoot
  BY DEF Benign
<1>3. active_epoch' = active_epoch
  BY <1>1, KeysEdgeOK DEF SocStep
<1>4. \/ e.load # NoRoot /\ Keys!Load(e.load)
      \/ e.load = NoRoot /\ KeysProgress
  BY Calm DEF SocStep, Edge, KeysEdge
<1>5. \/ e.load # NoRoot /\ Bridge!Keys!Load(e.load)
      \/ Bridge!Keys!BindEpoch
      \/ Bridge!Keys!Finish
      \/ Bridge!Keys!Rekey
      \/ (e.load = NoRoot \/ b_phase # "EMPTY") /\ UNCHANGED <<b_phase, b_root, b_epoch>>
  BY DEF SocStep, Bridge!BridgeEdge
<1>6. CASE e.load # NoRoot
  <2>1. phase = "EMPTY" /\ b_phase = "EMPTY"
    BY <1>1, <1>2, <1>6 DEF SameRoot
  <2>2. phase' = "DERIVING" /\ root' = e.load
    BY <1>4, <1>6 DEF Keys!Load
  <2>3. b_phase' = "DERIVING" /\ b_root' = e.load
    BY <1>5, <1>6, <2>1 DEF Bridge!Keys!Load, Bridge!Keys!BindEpoch, Bridge!Keys!Finish,
                            Bridge!Keys!Rekey
  <2>4. QED
    BY <1>3, <2>1, <2>2, <2>3 DEF SameRoot
<1>7. CASE e.load = NoRoot
  <2>1. /\ root' = root
        /\ phase' \in {"EMPTY", "DERIVING", "READY"} /\ (phase' = "EMPTY" <=> phase = "EMPTY")
        /\ phase = "READY" /\ epoch = active_epoch => phase' = "READY" /\ epoch' = active_epoch
    BY <1>2, <1>4, <1>7 DEF KeysProgress, Keys!BindEpoch, Keys!Finish, Keys!Rekey, keyStoreVars,
                            SameRoot
  <2>2. /\ b_root' = b_root
        /\ b_phase' = "EMPTY" <=> b_phase = "EMPTY"
        /\ b_phase = "READY" /\ b_epoch = active_epoch =>
              b_phase' = "READY" /\ b_epoch' = active_epoch
    BY <1>5, <1>7 DEF Bridge!Keys!BindEpoch, Bridge!Keys!Finish, Bridge!Keys!Rekey
  <2>3. QED
    BY <1>2, <1>3, <2>1, <2>2 DEF SameRoot
<1>8. QED
  BY <1>6, <1>7

\* The guard's numbers change only when it consumes one.
LEMMA Numbers ==
    ASSUME Clean, NEW e, InputOK(e), Edge(e)
    PROVE  /\ last' = last => last_sequence' = last_sequence
           /\ Guard!consume_sequence(GuardIn(e)) =>
                 last_sequence' = [last_sequence EXCEPT ![r.requester] = r.seq]
<1>1. last = last_sequence /\ last' = last_sequence'
  BY GuardEdge DEF Clean, GuardOK
<1>2. QED
  BY <1>1 DEF Edge, Guard!Cycle, Guard!StoreSequence, GuardIn

\* The states before the guard's decision is acted on.
Early == {"S_AUTH", "S_AUTH2", "S_GUARD"}

\* What an undisturbed edge leaves in the fabric's registers, with the keys of the epoch.
WorkGoesOn ==
    /\ rsp'.valid => rsp'.tag = Mac(RspKey, rsp'.msg)
    /\ ctl'.state \in {"S_AUTH", "S_AUTH2"} => drv'.key = ReqKey
    /\ ctl'.state = "S_GUARD" => auth'.ok /\ (FaultHarden => auth'.code = "AUTH_PASS")
    /\ ctl'.state = "S_RESP" => /\ drv'.key = RspKey
                                /\ ~drv'.start => cmac'.tag = Mac(drv'.key, drv'.msg)

\* The fabric works on an undisturbed request: the tag matches, the guard consumes
\* it, and the response is signed with the key the bridge expects.
LEMMA BusyBenign ==
    ASSUME Clean, Safe, Benign, NEW e \in SocInputs, NEW a, e.event = "none", SocStep(e, a),
           BSt("B_WAIT"), ~rsp.valid
    PROVE  /\ WorkGoesOn
           /\ ctl.state \in Early =>
                 \/ ctl'.state \in Early /\ last_sequence' = last_sequence
                 \/ /\ ctl'.state \notin Early
                    /\ last_sequence' = [last_sequence EXCEPT ![b_req.requester] = b_req.seq]
           /\ ctl.state \notin Early => ctl'.state \notin Early /\ last_sequence' = last_sequence
<1>1. InputOK(e) /\ Edge(e) /\ pending = b_req /\ pending # NoRequest
  BY SocInputsOK, BridgeRequest DEF SocStep, Safe, Link
<1>2. ~At("S_IDLE") /\ r = b_req
  BY <1>1 DEF Clean, ControlOK, InFlight
<1>3. ~zeroize(e) /\ ~lockdown_o(e)
  BY Calm
<1>4. keys_ready_o
  BY DEF Benign, SystemWork, keys_ready_o, Keys!ready
<1>5. CtlOK /\ AuthOK /\ DrvOK /\ CmacOK /\ RspOK /\ InFlight
  BY DEF Clean, ControlOK
<1>6. SystemWork /\ b_req.tag = Mac(ReqKey, req_msg(b_req)) /\ b_req.requester \in Requesters
  BY BridgeRequesters DEF Benign, BridgeWork, Current, BSt
<1>7. ~At("S_GUARD") => last_sequence' = last_sequence
  BY <1>1, History, Numbers
<1>8. Authenticating /\ ~drv.start /\ ctl.state \in {"S_AUTH", "S_AUTH2"} => Authentic(cmac.tag)
  BY <1>2, <1>6 DEF Authenticating, Authentic, SystemWork
<1>9. Silent => ~rsp'.valid
  BY <1>5 DEF Silent, RspOK
<1>10. CASE AuthDone
  <2>1. ctl.state = "S_AUTH" /\ cmac.done /\ Silent
    BY <1>10 DEF AuthDone, At
  <2>2. Authentic(cmac.tag)
    BY <1>5, <1>8, <2>1 DEF InFlight, InAuth, At, DrvOK
  <2>3. CASE FaultHarden
    <3>1. /\ drv' = [drv EXCEPT !.start = TRUE]
          /\ ctl' = To(ctl, "S_AUTH2")
      BY <1>10, <2>3, NoFault DEF AuthDone, Go
    <3>2. ctl'.state = "S_AUTH2" /\ drv'.key = drv.key
      BY <1>5, <3>1, CtlMove, GoodStates DEF DrvOK
    <3>3. QED
      BY <1>6, <1>7, <1>9, <2>1, <3>2 DEF SystemWork, WorkGoesOn, Early, At
  <2>4. CASE ~FaultHarden
    <3>1. /\ auth' = [auth EXCEPT !.ok = Authentic(cmac.tag)]
          /\ ctl' = To(ctl, "S_GUARD")
      BY <1>10, <2>4, NoFault DEF AuthDone, Go
    <3>2. ctl'.state = "S_GUARD" /\ auth'.ok
      BY <1>5, <2>2, <3>1, CtlMove, GoodStates DEF AuthOK
    <3>3. QED
      BY <1>7, <1>9, <2>1, <2>4, <3>2 DEF WorkGoesOn, Early, At
  <2>5. QED
    BY <2>3, <2>4
<1>11. CASE Auth2Done
  <2>1. ctl.state = "S_AUTH2" /\ cmac.done /\ Silent
    BY <1>11 DEF Auth2Done, At
  <2>2. InAuth2 /\ ~drv.start
    BY <1>5, <2>1 DEF InFlight, At, DrvOK
  <2>3. Authentic(cmac.tag) /\ cmac.tag = auth.tag1
    BY <1>8, <2>1, <2>2 DEF InAuth2, Authenticating
  <2>4. /\ auth' = [auth EXCEPT !.ok = Authentic(cmac.tag), !.code = "AUTH_PASS"]
        /\ ctl' = To(ctl, "S_GUARD")
    BY <1>11, <2>3, NoFault DEF Auth2Done, Go
  <2>5. ctl'.state = "S_GUARD" /\ auth'.ok /\ auth'.code = "AUTH_PASS"
    BY <1>5, <2>3, <2>4, CtlMove, GoodStates DEF AuthOK
  <2>6. QED
    BY <1>7, <1>9, <2>1, <2>5 DEF WorkGoesOn, Early, At
<1>12. CASE AuthWait(e)
  <2>1. ctl.state \in {"S_AUTH", "S_AUTH2"} /\ Silent
    BY <1>12 DEF AuthWait, At
  <2>2. ctl' = ctl /\ drv' = [drv EXCEPT !.start = FALSE]
    BY <1>3, <1>12, NoFault DEF AuthWait, Go, Quiet
  <2>3. drv'.key = drv.key
    BY <1>5, <2>2 DEF DrvOK
  <2>4. QED
    BY <1>6, <1>7, <1>9, <2>1, <2>2, <2>3 DEF SystemWork, WorkGoesOn, Early, At
<1>13. CASE GuardStep(e)
  <2>1. At("S_GUARD") /\ Silent
    BY <1>13 DEF GuardStep
  <2>2. Guard!consume_sequence(GuardIn(e))
    BY <2>1, RequestConsumed
  <2>3. last_sequence' = [last_sequence EXCEPT ![b_req.requester] = b_req.seq]
    BY <1>1, <1>2, <2>2, Numbers
  <2>4. ctl'.state \in {"S_MEM", "S_SIGN"}
    <3>1. PICK x \in Guard!DenyReasons, s \in {"S_MEM", "S_SIGN"} :
              ctl' = To(Put(ctl, 0, 0, x), s)
      BY <1>13, NoFault DEF GuardStep, Go, Guard!deny_reason_o, Guard!DenyReasons
    <3>2. s \in States \ {"S_BAD"} /\ 0 \in Words /\ 0 \in {0, 1}
      BY GoodStates, SystemAssumption
    <3>3. QED
      BY <1>5, <3>1, <3>2, CtlWrite
  <2>5. QED
    BY <1>9, <2>1, <2>3, <2>4 DEF WorkGoesOn, Early, At
<1>14. CASE MemStep
  <2>1. ctl.state = "S_MEM" /\ Silent
    BY <1>14 DEF MemStep, At
  <2>2. InMem /\ MemOK /\ ReqOK
    BY <1>5, <2>1 DEF InFlight, At, Clean, ControlOK
  <2>3. PICK st \in {0, 1}, d \in Words : ctl' = To(Put(ctl, st, d, ctl.reason), "S_SIGN")
    <3>1. CASE mem_q.denied
      BY <1>14, <2>2, <3>1, NoFault, SystemAssumption DEF MemStep, Go, InMem, fields_ok
    <3>2. CASE ~mem_q.denied
      BY <1>14, <2>2, <3>2, NoFault DEF MemStep, Go, InMem, fields_ok, MemOK, ReqOK
    <3>3. QED
      BY <3>1, <3>2
  <2>4. ctl.reason \in Guard!DenyReasons
    BY <1>5 DEF CtlOK
  <2>5. ctl'.state = "S_SIGN"
    BY <1>5, <2>3, <2>4, CtlWrite, GoodStates
  <2>6. QED
    BY <1>7, <1>9, <2>1, <2>5 DEF WorkGoesOn, Early, At
<1>15. CASE SignStep(e)
  <2>1. ctl.state = "S_SIGN"
    BY <1>15 DEF SignStep, At
  <2>2. \/ /\ Go(To(ctl, "S_RESP")) /\ Silent
           /\ StartCmac(ResponseKey, rsp_msg(r, ctl.status, ctl.rdata))
        \/ Go(ctl) /\ Silent
    BY <1>3, <1>4, <1>15, NoFault DEF SignStep
  <2>3. \/ ctl'.state = "S_RESP" /\ drv'.start = TRUE /\ drv'.key = ResponseKey /\ Silent
        \/ ctl'.state = "S_SIGN" /\ Silent
    BY <1>5, <2>1, <2>2, NoFault, CtlMove, GoodStates DEF Go, StartCmac
  <2>4. ResponseKey = RspKey
    BY <1>4 DEF ResponseKey, KeyRegister, RspKey, keys_ready_o, Keys!ready, Clean, KeysOK
  <2>5. QED
    BY <1>7, <1>9, <2>1, <2>3, <2>4 DEF WorkGoesOn, Early, At
<1>16. CASE RespStep(e)
  <2>1. ctl.state = "S_RESP" /\ drv' = [drv EXCEPT !.start = FALSE]
    BY <1>16 DEF RespStep, At, Quiet
  <2>2. /\ drv'.start = FALSE /\ drv'.key = drv.key /\ drv'.msg = drv.msg
        /\ drv.msg = rsp_msg(r, ctl.status, ctl.rdata)
    BY <1>5, <2>1 DEF DrvOK, InFlight, InResp, At
  <2>3. drv.key = RspKey /\ (~drv.start => cmac.tag = Mac(drv.key, drv.msg))
    BY <1>6, <2>1 DEF SystemWork, At
  <2>4. CASE cmac.done
    <3>1. ctl' = To(ctl, "S_IDLE") /\ rsp' = [valid |-> TRUE, msg |-> drv.msg, tag |-> cmac.tag]
      BY <1>16, <2>2, <2>4, NoFault DEF RespStep, Go, Respond
    <3>2. ctl'.state = "S_IDLE"
      BY <1>5, <3>1, CtlMove, GoodStates
    <3>3. ~drv.start
      BY <1>5, <2>4 DEF DrvOK
    <3>4. rsp'.tag = Mac(RspKey, rsp'.msg)
      BY <2>3, <3>1, <3>3
    <3>5. QED
      BY <1>7, <2>1, <3>2, <3>4 DEF WorkGoesOn, Early, At
  <2>5. CASE ~cmac.done
    <3>1. ctl' = ctl /\ Silent
      BY <1>3, <1>16, <2>5, NoFault DEF RespStep, Go
    <3>2. cmac'.tag = Mac(drv.key, drv.msg)
      BY <1>1, <1>3, <2>3, CmacEdgeOK
    <3>3. QED
      BY <1>7, <1>9, <2>1, <2>2, <2>3, <3>1, <3>2 DEF WorkGoesOn, Early, At
  <2>6. QED
    BY <2>4, <2>5
<1>17. CASE Idle(e) \/ Accept(e) \/ BadState
  BY <1>2, <1>5, <1>17 DEF Idle, Accept, BadState, CtlOK, At
<1>18. QED
  BY <1>1, <1>10, <1>11, <1>12, <1>13, <1>14, <1>15, <1>16, <1>17 DEF Edge, Control

\* While the fabric is idle there is nothing to show of it.
LEMMA IdleBenign ==
    ASSUME Clean, Safe, NEW e \in SocInputs, NEW a, SocStep(e, a),
           ~BSt("B_WAIT") \/ rsp.valid, ~(BSt("B_SEND") /\ req_ready_o(e)), b_state' # "B_WAIT"
    PROVE  SystemWork' /\ last_sequence' = last_sequence /\ ctl.state = "S_IDLE" /\ ctl' = ctl
<1>1. At("S_IDLE") /\ ctl' = ctl /\ last' = last
  BY FabricStays
<1>2. last_sequence' = last_sequence
  BY <1>1, SocInputsOK, Numbers DEF Safe, SocStep
<1>3. SystemWork'
  BY <1>1 DEF SystemWork, At, BSt
<1>4. QED
  BY <1>1, <1>2, <1>3 DEF At

\* A new access is signed with the keys of the epoch.
LEMMA TakeBenign ==
    ASSUME Clean, Safe, Benign, NEW e \in SocInputs, NEW a \in Accesses, e.event = "none",
           SocStep(e, a), Bridge!Take(a)
    PROVE  Benign'
<1> DEFINE who == IF a.fetch THEN "CPU_FETCH" ELSE "CPU_DATA"
           n == (b_seq[who] + 1) % SeqMod
<1>1. /\ b_state = "B_IDLE" /\ b_state' = "B_SIGN" /\ b_tamper' = b_tamper
      /\ b_phase = "READY" /\ b_epoch = active_epoch
      /\ b_seq' = [b_seq EXCEPT ![who] = n]
      /\ b_req' = [requester |-> who, write |-> a.write /\ ~a.fetch, layer |-> a.layer,
                   addr |-> a.addr, data |-> IF a.write THEN a.data ELSE 0,
                   seq |-> n, epoch |-> active_epoch, tag |-> b_req.tag]
      /\ b_drv'.key = Bridge!req_key(who) /\ b_drv'.msg = Bridge!req_msg(b_req')
  BY DEF Bridge!Take, Bridge!cpu_ready_o, Bridge!keys_ready_o, Bridge!Keys!ready
<1>2. /\ SameRoot' /\ active_epoch' = active_epoch /\ root' = root
      /\ b_phase' = "READY" /\ b_epoch' = active_epoch
  BY <1>1, SameKeys
<1>3. ~lockdown_q' /\ sentinel_fault' = FALSE /\ b_tamper' = FALSE
  BY <1>1, CalmRegisters DEF SocStep, Benign
<1>4. SystemWork' /\ last_sequence' = last_sequence
  BY <1>1, IdleBenign DEF BSt
<1>5. /\ who \in Bridge!BRequesters
      /\ b_req'.requester = who /\ b_req'.layer = a.layer /\ b_req'.epoch = active_epoch
      /\ b_req'.seq = n
  BY <1>1 DEF Bridge!BRequesters
<1>6. Current'
  BY <1>2, <1>5, SocAssumption DEF Current
<1>7. InStep'
  <2>1. \A q \in Bridge!BRequesters : b_seq[q] = last_sequence[q]
    BY <1>1 DEF Benign, InStep, Unserved, BSt
  <2>2. DOMAIN b_seq = Bridge!BRequesters
    BY DEF Safe, BridgeOK
  <2>3. /\ \A q \in Bridge!BRequesters : q # who => b_seq'[q] = b_seq[q]
        /\ b_seq'[who] = n
    BY <1>1, <1>5, <2>2
  <2>4. Unserved'
    BY <1>1 DEF Unserved
  <2>5. n = (last_sequence[who] + 1) % SeqMod
    BY <1>5, <2>1
  <2>6. QED
    BY <1>4, <1>5, <2>1, <2>3, <2>4, <2>5 DEF InStep
<1>8. BridgeWork'
  <2>1. b_drv'.key = ReqKey'
    <3>1. root = b_root
      BY DEF Benign, SameRoot
    <3>2. QED
      BY <1>1, <1>2, <1>5, <3>1 DEF ReqKey, req_key, Bridge!req_key, Bridge!keys_ready_o,
                                     Bridge!Keys!ready
  <2>2. b_drv'.msg = req_msg(b_req')
    BY <1>1 DEF Bridge!req_msg, Bridge!Fields, req_msg, Fields
  <2>3. QED
    BY <1>1, <2>1, <2>2 DEF BridgeWork, BSt
<1>9. QED
  BY <1>1, <1>2, <1>3, <1>4, <1>6, <1>7, <1>8 DEF Benign, BSt

\* The bridge has an access in flight: what it needs of its keys.
LEMMA InFlightKeys ==
    ASSUME Clean, Safe, Benign, NEW e \in SocInputs, NEW a, e.event = "none", SocStep(e, a),
           ~BSt("B_IDLE")
    PROVE  /\ SameRoot' /\ active_epoch' = active_epoch /\ root' = root
           /\ b_phase' = "READY" /\ b_epoch' = active_epoch
           /\ RspKey' = RspKey
           /\ b_req'.requester = b_req.requester => ReqKey' = ReqKey
           /\ (/\ b_req'.requester = b_req.requester
               /\ b_req'.layer = b_req.layer /\ b_req'.epoch = b_req.epoch) => Current'
           /\ ~lockdown_q' /\ sentinel_fault' = FALSE
<1>1. Current
  BY DEF Benign
<1>2. /\ SameRoot' /\ active_epoch' = active_epoch /\ root' = root
      /\ b_phase' = "READY" /\ b_epoch' = active_epoch
  BY <1>1, SameKeys DEF Current
<1>3. RspKey' = RspKey /\ (b_req'.requester = b_req.requester => ReqKey' = ReqKey)
  BY <1>2 DEF RspKey, ReqKey
<1>4. (/\ b_req'.requester = b_req.requester
       /\ b_req'.layer = b_req.layer /\ b_req'.epoch = b_req.epoch) => Current'
  BY <1>1, <1>2 DEF Current
<1>5. QED
  BY <1>2, <1>3, <1>4, CalmRegisters DEF SocStep

\* The request carries its tag.
LEMMA SignedBenign ==
    ASSUME Clean, Safe, Benign, NEW e \in SocInputs, NEW a, e.event = "none", SocStep(e, a),
           Bridge!Signed
    PROVE  Benign'
<1>1. /\ b_state = "B_SIGN" /\ b_state' = "B_SEND" /\ b_cmac.done /\ b_tamper' = b_tamper
      /\ b_req' = [b_req EXCEPT !.tag = b_cmac.tag] /\ b_seq' = b_seq
  BY DEF Bridge!Signed
<1>2. b_req' = [requester |-> b_req.requester, write |-> b_req.write, layer |-> b_req.layer,
                addr |-> b_req.addr, data |-> b_req.data, seq |-> b_req.seq,
                epoch |-> b_req.epoch, tag |-> b_cmac.tag]
  BY <1>1 DEF Safe, BridgeOK
<1>3. /\ b_req'.requester = b_req.requester /\ b_req'.layer = b_req.layer
      /\ b_req'.epoch = b_req.epoch /\ b_req'.seq = b_req.seq /\ b_req'.tag = b_cmac.tag
      /\ req_msg(b_req') = req_msg(b_req)
  BY <1>2 DEF req_msg, Fields
<1>4. SystemWork' /\ last_sequence' = last_sequence
  BY <1>1, IdleBenign DEF BSt
<1>5. InStep'
  BY <1>1, <1>3, <1>4 DEF Benign, InStep, Unserved, BSt
<1>6. b_cmac.tag = Mac(ReqKey, req_msg(b_req))
  BY <1>1 DEF Safe, BCmacOK, Benign, BridgeWork, BSt
<1>7. BridgeWork'
  BY <1>1, <1>3, <1>6, InFlightKeys DEF BridgeWork, BSt
<1>8. QED
  BY <1>1, <1>3, <1>4, <1>5, <1>7, InFlightKeys DEF Benign, BSt

\* The fabric, its keys ready, takes the request and authenticates it.
LEMMA SentBenign ==
    ASSUME Clean, Safe, Benign, NEW e \in SocInputs, NEW a, e.event = "none", SocStep(e, a),
           Bridge!Sent(req_ready_o(e))
    PROVE  Benign'
<1>1. /\ b_state = "B_SEND" /\ b_state' = "B_WAIT" /\ b_tamper' = b_tamper
      /\ b_req' = b_req /\ b_seq' = b_seq
  BY DEF Bridge!Sent, Bridge!vtf_req_valid_o
<1>2. Accept(e) /\ e.request = b_req /\ last' = last /\ ~rsp'.valid
  BY SentSafe
<1>3. ~lockdown_o(e)
  BY Calm
<1>4. keys_ready_o
  BY <1>2, <1>3 DEF Accept, req_ready_o
<1>5. /\ ctl' = To(Put(ctl, 0, 0, "NONE"), "S_AUTH")
      /\ drv'.key = KeyOf(b_req.requester)
  BY <1>2, <1>3, <1>4, NoFault DEF Accept, Go, StartCmac
<1>6. ctl'.state = "S_AUTH"
  <2>1. CtlOK /\ 0 \in Words /\ 0 \in {0, 1} /\ "NONE" \in Guard!DenyReasons
    BY SystemAssumption DEF Clean, ControlOK, Guard!DenyReasons
  <2>2. QED
    BY <1>5, <2>1, CtlWrite, GoodStates
<1>7. last_sequence' = last_sequence
  BY <1>2, SocInputsOK, Numbers DEF Safe, SocStep
<1>8. InStep'
  BY <1>1, <1>6, <1>7 DEF Benign, InStep, Unserved, BSt
<1>9. drv'.key = ReqKey
  <2>1. b_req.requester \in Requesters
    BY <1>1, BridgeRequesters DEF Benign, Current, BSt
  <2>2. spoiled = {} /\ b_req.requester # "RSP"
    BY <2>1, SystemAssumption DEF Clean, KeysOK
  <2>3. QED
    BY <1>4, <1>5, <2>1, <2>2 DEF KeyOf, KeyRegister, keys_ready_o, Keys!ready, ReqKey
<1>10. phase' = "READY" /\ epoch' = active_epoch'
  BY <1>4, SameKeys DEF keys_ready_o, Keys!ready
<1>11. SystemWork'
  BY <1>1, <1>2, <1>6, <1>9, <1>10, InFlightKeys DEF SystemWork, At, BSt
<1>12. BridgeWork'
  BY <1>1, InFlightKeys DEF Benign, BridgeWork, BSt
<1>13. QED
  BY <1>1, <1>8, <1>11, <1>12, InFlightKeys DEF Benign, BSt

\* The response is checked with the key it was signed with.
LEMMA ReceivedBenign ==
    ASSUME Clean, Safe, Benign, NEW e \in SocInputs, NEW a, e.event = "none", SocStep(e, a),
           Bridge!Received(rsp)
    PROVE  Benign'
<1>1. /\ b_state = "B_WAIT" /\ b_state' = "B_VERIFY" /\ rsp.valid /\ b_tamper' = b_tamper
      /\ b_rsp'.msg = rsp.msg /\ b_rsp'.tag = rsp.tag
      /\ b_drv'.key = Bridge!rsp_key /\ b_drv'.msg = rsp.msg
      /\ b_seq' = b_seq /\ b_req' = b_req
  BY DEF Bridge!Received
<1>2. SystemWork' /\ last_sequence' = last_sequence /\ ctl.state = "S_IDLE" /\ ctl' = ctl
  BY <1>1, IdleBenign DEF BSt
<1>3. InStep'
  BY <1>1, <1>2 DEF Benign, InStep, Unserved, BSt
<1>4. rsp.tag = Mac(RspKey, rsp.msg)
  BY <1>1 DEF Benign, SystemWork, BSt
<1>5. Bridge!rsp_key = RspKey
  BY <1>1 DEF Benign, Current, SameRoot, RspKey, rsp_key, Bridge!rsp_key, Bridge!keys_ready_o,
              Bridge!Keys!ready, BSt
<1>6. BridgeWork'
  BY <1>1, <1>4, <1>5, InFlightKeys DEF BridgeWork, BSt
<1>7. QED
  BY <1>1, <1>2, <1>3, <1>6, InFlightKeys DEF Benign, BSt

\* The response is genuine.
LEMMA VerifiedBenign ==
    ASSUME Clean, Safe, Benign, NEW e \in SocInputs, NEW a, e.event = "none", SocStep(e, a),
           Bridge!Verified
    PROVE  Benign'
<1>1. /\ b_state = "B_VERIFY" /\ b_state' = "B_DONE" /\ b_cmac.done
      /\ b_tamper' = (b_tamper \/ b_cmac.tag # b_rsp.tag)
      /\ b_seq' = b_seq /\ b_req' = b_req
  BY DEF Bridge!Verified
<1>2. b_cmac.tag = b_rsp.tag
  BY <1>1 DEF Safe, BCmacOK, Benign, BridgeWork, BSt
<1>3. b_tamper' = FALSE
  BY <1>1, <1>2 DEF Benign
<1>4. SystemWork' /\ last_sequence' = last_sequence /\ ctl.state = "S_IDLE" /\ ctl' = ctl
  BY <1>1, IdleBenign DEF BSt
<1>5. InStep'
  BY <1>1, <1>4 DEF Benign, InStep, Unserved, BSt
<1>6. BridgeWork'
  BY <1>1 DEF BridgeWork, BSt
<1>7. QED
  BY <1>1, <1>3, <1>4, <1>5, <1>6, InFlightKeys DEF Benign, BSt

\* The access is over.
LEMMA DoneBenign ==
    ASSUME Clean, Safe, Benign, NEW e \in SocInputs, NEW a, e.event = "none", SocStep(e, a),
           Bridge!Done
    PROVE  Benign'
<1>1. /\ b_state = "B_DONE" /\ b_state' = "B_IDLE" /\ b_tamper' = b_tamper
      /\ b_seq' = b_seq /\ b_req' = b_req
  BY DEF Bridge!Done
<1>2. SystemWork' /\ last_sequence' = last_sequence /\ ctl.state = "S_IDLE" /\ ctl' = ctl
  BY <1>1, IdleBenign DEF BSt
<1>3. InStep' /\ BridgeWork'
  BY <1>1, <1>2 DEF Benign, InStep, Unserved, BridgeWork, BSt
<1>4. QED
  BY <1>1, <1>2, <1>3, InFlightKeys DEF Benign, BSt

\* The bridge waits.
LEMMA WaitingBenign ==
    ASSUME Clean, Safe, Benign, NEW e \in SocInputs, NEW a, e.event = "none", SocStep(e, a),
           Bridge!Waiting(a, req_ready_o(e), rsp)
    PROVE  Benign'
<1>1. /\ b_state' = b_state /\ b_tamper' = b_tamper
      /\ b_drv' = [b_drv EXCEPT !.start = FALSE]
      /\ b_seq' = b_seq /\ b_req' = b_req /\ b_rsp' = b_rsp
  BY DEF Bridge!Waiting, Bridge!Wait, Bridge!Quiet
<1>2. /\ b_state \in {"B_IDLE", "B_SIGN", "B_VERIFY", "B_SEND", "B_WAIT"}
      /\ b_state = "B_SEND" => ~req_ready_o(e)
      /\ b_state = "B_WAIT" => ~rsp.valid
  BY DEF Bridge!Waiting
<1>3. b_drv'.key = b_drv.key /\ b_drv'.msg = b_drv.msg
  BY <1>1 DEF Safe, BridgeOK
<1>4. BridgeWork'
  <2>1. CASE b_state = "B_IDLE"
    BY <1>1, <2>1 DEF BridgeWork, BSt
  <2>2. CASE b_state # "B_IDLE"
    BY <1>1, <1>3, <2>2, InFlightKeys DEF Benign, BridgeWork, BSt
  <2>3. QED
    BY <2>1, <2>2
<1>5. SystemWork' /\ InStep'
  <2>1. CASE b_state # "B_WAIT"
    <3>1. SystemWork' /\ last_sequence' = last_sequence
      BY <1>1, <1>2, <2>1, IdleBenign DEF BSt
    <3>2. InStep'
      BY <1>1, <2>1, <3>1 DEF Benign, InStep, Unserved, BSt
    <3>3. QED
      BY <3>1, <3>2
  <2>2. CASE b_state = "B_WAIT"
    <3>1. /\ WorkGoesOn
          /\ ctl.state \in Early =>
                \/ ctl'.state \in Early /\ last_sequence' = last_sequence
                \/ /\ ctl'.state \notin Early
                   /\ last_sequence' = [last_sequence EXCEPT ![b_req.requester] = b_req.seq]
          /\ ctl.state \notin Early => ctl'.state \notin Early /\ last_sequence' = last_sequence
      BY <1>2, <2>2, BusyBenign DEF BSt
    <3>2. phase' = "READY" /\ epoch' = active_epoch'
      BY <1>2, <2>2, SameKeys DEF Benign, SystemWork, BSt
    <3>3. RspKey' = RspKey /\ ReqKey' = ReqKey
      BY <1>1, <2>2, InFlightKeys DEF BSt
    <3>4. SystemWork'
      BY <3>1, <3>2, <3>3 DEF SystemWork, WorkGoesOn, At
    <3>5. /\ Unserved <=> ctl.state \in Early
          /\ Unserved' <=> ctl'.state \in Early
      BY <1>1, <2>2 DEF Unserved, BSt, Early
    <3>6. b_req.requester \in Bridge!BRequesters /\ InStep
      BY <2>2 DEF Benign, Current, BSt
    <3>7. DOMAIN last_sequence = Requesters
      BY DEF Clean, GuardOK
    <3>8. InStep'
      <4>1. CASE last_sequence' = last_sequence /\ (Unserved' <=> Unserved)
        BY <1>1, <3>6, <4>1 DEF InStep
      <4>2. CASE /\ Unserved /\ ~Unserved'
                 /\ last_sequence' = [last_sequence EXCEPT ![b_req.requester] = b_req.seq]
        <5>1. \A q \in Bridge!BRequesters : b_seq[q] = last_sequence'[q]
          BY <3>6, <3>7, <4>2, BridgeRequesters DEF InStep
        <5>2. QED
          BY <1>1, <4>2, <5>1 DEF InStep
      <4>3. QED
        BY <3>1, <3>5, <4>1, <4>2
    <3>9. QED
      BY <3>4, <3>8
  <2>3. QED
    BY <2>1, <2>2
<1>6. CASE b_state = "B_IDLE"
  BY <1>1, <1>4, <1>5, <1>6, SameKeys, CalmRegisters DEF Benign, BSt, SocStep
<1>7. CASE b_state # "B_IDLE"
  BY <1>1, <1>4, <1>5, <1>7, InFlightKeys DEF Benign, BSt
<1>8. QED
  BY <1>6, <1>7

\* Without an event every edge keeps the two sides in agreement.
LEMMA BenignInv ==
    ASSUME Clean, Safe, Benign, NEW e \in SocInputs, NEW a \in {NoAccess} \union Accesses,
           e.event = "none", SocStep(e, a)
    PROVE  Benign'
BY TakeBenign, SignedBenign, SentBenign, ReceivedBenign, VerifiedBenign, DoneBenign,
   WaitingBenign
   DEF SocStep, Bridge!BridgeEdge

-----------------------------------------------------------------------------
(* The theorems.                                                             *)

LEMMA SocInitInv == SocInit => SocInv
<1> SUFFICES ASSUME SocInit PROVE SocInv
  OBVIOUS
<1>1. Init /\ Bridge!ResetBridge /\ disturbed = FALSE
  BY DEF SocInit
<1>2. Clean
  <2>1. upsets = 0
    BY <1>1 DEF Init
  <2>2. QED
    BY <1>1, <2>1, InitInv DEF IInv
<1>3. /\ b_state = "B_IDLE" /\ b_tamper = FALSE
      /\ b_seq = [q \in Bridge!BRequesters |-> 0]
      /\ b_phase = "EMPTY" /\ b_root = NoRoot
  BY <1>1 DEF Bridge!ResetBridge
<1>4. /\ ctl.state = "S_IDLE" /\ pending = NoRequest /\ sentinel_fault = FALSE
      /\ lockdown_q = FALSE /\ last_sequence = [q \in Requesters |-> 0]
      /\ phase = "EMPTY" /\ root = NoRoot
  BY <1>1 DEF Init, Guard!ResetState, Keys!Init
<1>5. BridgeOK
  <2>1. /\ b_req = [requester |-> "CPU_FETCH", write |-> FALSE, layer |-> "none",
                    addr |-> "none", data |-> 0, seq |-> 0, epoch |-> 0, tag |-> Bridge!Zero]
        /\ b_drv = [start |-> FALSE, key |-> Bridge!Zero, msg |-> << >>]
        /\ b_out = [valid |-> FALSE, ok |-> FALSE, rdata |-> 0]
    BY <1>1 DEF Bridge!ResetBridge
  <2>2. 0 \in Words
    BY SystemAssumption
  <2>3. QED
    BY <1>3, <2>1, <2>2 DEF BridgeOK, Bridge!BStates
<1>6. BCmacOK
  <2>1. /\ b_cmac = [left |-> 0, live |-> FALSE, done |-> FALSE, tag |-> Bridge!Cmac!Zero]
        /\ b_drv.start = FALSE
    BY <1>1 DEF Bridge!ResetBridge, Bridge!Cmac!ResetUnit
  <2>2. 0 \in 0 .. CmacCycles
    BY SystemAssumption
  <2>3. QED
    BY <1>3, <2>1, <2>2 DEF BCmacOK
<1>7. Link
  BY <1>3, <1>4 DEF Link, BSt
<1>8. InStep
  BY <1>3, <1>4, BridgeRequesters DEF InStep, Unserved, BSt
<1>9. Benign
  BY <1>3, <1>4, <1>8 DEF Benign, SameRoot, BridgeWork, SystemWork, BSt, At
<1>10. QED
  BY <1>1, <1>2, <1>5, <1>6, <1>7, <1>9 DEF SocInv

\* The bridge does not see a new epoch before its next edge.
LEMMA SocAdvanceEpochInv ==
    ASSUME SocInv, SocAdvanceEpoch
    PROVE  SocInv'
<1>1. /\ AdvanceEpoch /\ disturbed' = (disturbed \/ b_state # "B_IDLE")
      /\ UNCHANGED bridgeVars
  BY DEF SocAdvanceEpoch
<1>2. Clean'
  BY <1>1, AdvanceEpochInv DEF SocInv
<1>3. /\ UNCHANGED <<phase, root, epoch>>
      /\ UNCHANGED <<ctl, r, auth, drv, rsp>>
      /\ UNCHANGED <<cmac, mem, sentinel_fault, lockdown_q, last_sequence, pending, effect>>
  BY <1>1 DEF AdvanceEpoch, Keys!AdvanceEpoch, controlVars, guardVars, ghostVars
<1>4. /\ UNCHANGED <<b_state, b_seq, b_req, b_rsp, b_drv, b_cmac, b_out, b_tamper>>
      /\ UNCHANGED <<b_phase, b_root>>
  BY <1>1 DEF bridgeVars
<1>5. BridgeOK' /\ BCmacOK'
  BY <1>4 DEF SocInv, BridgeOK, BCmacOK, BSt
<1>6. Link'
  BY <1>3, <1>4 DEF SocInv, Link, Told, BSt
<1>7. ~disturbed' => Benign'
  <2> SUFFICES ASSUME ~disturbed' PROVE Benign'
    OBVIOUS
  <2>1. b_state = "B_IDLE" /\ Benign
    BY <1>1 DEF SocInv
  <2>2. ctl.state = "S_IDLE"
    BY <2>1 DEF SocInv, Link, BSt, Clean, ControlOK, InFlight, At
  <2>3. InStep' /\ SameRoot' /\ ~lockdown_q' /\ sentinel_fault' = FALSE /\ b_tamper' = FALSE
    BY <1>3, <1>4, <2>1 DEF Benign, InStep, Unserved, SameRoot, BSt
  <2>4. BridgeWork' /\ SystemWork'
    BY <1>3, <1>4, <2>1, <2>2 DEF BridgeWork, SystemWork, BSt, At
  <2>5. QED
    BY <1>4, <2>1, <2>3, <2>4 DEF Benign, BSt
<1>8. QED
  BY <1>1, <1>2, <1>5, <1>6, <1>7 DEF SocInv

LEMMA SocStepInv == SocInv /\ [SocNext]_socVars => SocInv'
<1> SUFFICES ASSUME SocInv, [SocNext]_socVars PROVE SocInv'
  OBVIOUS
<1>1. CASE SocEdge
  <2>1. PICK e \in SocInputs, a \in {NoAccess} \union Accesses :
           SocStep(e, a) /\ disturbed' = (disturbed \/ e.event # "none")
    BY <1>1 DEF SocEdge, SocStep
  <2>2. Clean /\ Safe
    BY DEF SocInv, Safe
  <2>3. Clean' /\ Safe'
    BY <2>1, <2>2, SafeInv
  <2>4. ~disturbed' => Benign'
    BY <2>1, <2>2, BenignInv DEF SocInv
  <2>5. QED
    BY <2>1, <2>3, <2>4 DEF SocInv, Safe
<1>2. CASE SocAdvanceEpoch
  BY <1>2, SocAdvanceEpochInv
<1>3. CASE UNCHANGED socVars
  <2>1. UNCHANGED vars /\ UNCHANGED bridgeVars /\ UNCHANGED disturbed
    BY <1>3 DEF socVars
  <2>2. /\ UNCHANGED <<phase, root, epoch, active_epoch>>
        /\ UNCHANGED <<ctl, r, auth, drv, rsp>>
        /\ UNCHANGED <<cmac, mem, mem_q, sentinel_fault>>
        /\ UNCHANGED <<lockdown_q, lockdown_n_q, last_sequence, seq_par_q>>
        /\ UNCHANGED <<pending, effect, last>>
    BY <2>1 DEF vars, controlVars, guardVars, keyStoreVars, ghostVars
  <2>3. /\ UNCHANGED <<b_state, b_seq, b_req, b_rsp, b_drv, b_cmac, b_out, b_tamper>>
        /\ UNCHANGED <<b_phase, b_root, b_epoch>>
    BY <2>1 DEF bridgeVars
  <2>4. Clean'
    BY <2>1, CleanUnchanged DEF SocInv
  <2>5. BridgeOK' /\ BCmacOK'
    BY <2>3 DEF SocInv, BridgeOK, BCmacOK, BSt
  <2>6. Link'
    BY <2>2, <2>3 DEF SocInv, Link, Told, BSt
  <2>7. Benign => Benign'
    <3>1. SameRoot => SameRoot'
      BY <2>2, <2>3 DEF SameRoot
    <3>2. Current => Current'
      BY <2>2, <2>3 DEF Current
    <3>3. InStep => InStep'
      BY <2>2, <2>3 DEF InStep, Unserved, BSt
    <3>4. ReqKey' = ReqKey /\ RspKey' = RspKey
      BY <2>2, <2>3 DEF ReqKey, RspKey
    <3>5. BridgeWork => BridgeWork'
      BY <2>2, <2>3, <3>4 DEF BridgeWork, BSt
    <3>6. SystemWork => SystemWork'
      BY <2>2, <2>3, <3>4 DEF SystemWork, BSt, At
    <3>7. QED
      BY <2>2, <2>3, <3>1, <3>2, <3>3, <3>5, <3>6 DEF Benign, BSt
  <2>8. QED
    BY <2>1, <2>4, <2>5, <2>6, <2>7 DEF SocInv
<1>4. QED
  BY <1>1, <1>2, <1>3 DEF SocNext

\* The invariant of the CPU-facing system: what crypto3d_vtf_soc_top.sv wires
\* together stays consistent over every edge and every change of the epoch.
THEOREM SocInvariant == SocSpec => []SocInv
BY SocInitInv, SocStepInv, PTL DEF SocSpec

\* The CPU is told an access was executed only if it was, and with the word that is
\* in the memory: the bridge's response handling (crypto3d_vtf_cpu_bridge.sv,
\* B_WAIT to B_DONE), whatever events, lockdowns and epochs come meanwhile.
THEOREM CpuIsToldTheTruth == SocSpec => []CpuToldTheTruth
<1>1. SocInv => CpuToldTheTruth
  BY DEF SocInv, BridgeOK, Link, Told, CpuToldTheTruth, BSt, Cell
<1>2. QED
  BY <1>1, SocInvariant, PTL

\* Undisturbed traffic of the CPU never locks the fabric and never raises the
\* bridge's tamper flag: the sequence counters (seq_fetch_q, seq_data_q and
\* last_sequence) and the two key schedules stay in step.
THEOREM BenignTrafficServed == SocSpec => []BenignTrafficIsServed
<1>1. SocInv => BenignTrafficIsServed
  <2> SUFFICES ASSUME SocInv, ~disturbed PROVE ~Guard!locked /\ ~b_tamper
    BY DEF BenignTrafficIsServed
  <2>1. ~lockdown_q /\ b_tamper = FALSE /\ GuardOK
    BY DEF SocInv, Benign, Clean
  <2>2. QED
    BY <2>1, GuardHealthy
<1>2. QED
  BY <1>1, SocInvariant, PTL

=============================================================================
