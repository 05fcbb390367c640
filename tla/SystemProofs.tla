------------------------------ MODULE SystemProofs ------------------------------
(***************************************************************************)
(* Proofs about the Vertical Trust Fabric system, for every stack, policy,  *)
(* request set, key set, tag latency and sequence width, hardened or not:   *)
(* as long as no register was upset, the redundancy checks of FAULT_HARDEN  *)
(* stay silent and no rightful request locks the fabric; and a system that  *)
(* is never upset implements TrustedMemory.                                 *)
(*                                                                          *)
(* What makes them inductive is a description of the transaction in flight, *)
(* state by state (InFlight): which message and key the CMAC unit works on, *)
(* what a tag that was accepted says of the latched request, and what the   *)
(* response registers say of the memory.                                    *)
(***************************************************************************)
EXTENDS VtfSystem, TLAPS

-----------------------------------------------------------------------------
(* The inductive invariant.                                                  *)

\* The key schedule has a root unless it is empty, and its registers are intact.
KeysOK ==
    /\ phase # "EMPTY" => root \in Roots
    /\ active_epoch \in Nat
    /\ spoiled = {}

\* The guard's redundant registers agree, and it remembers what was consumed.
GuardOK ==
    /\ lockdown_q \in BOOLEAN
    /\ lockdown_n_q = ~lockdown_q
    /\ last_sequence \in [Requesters -> Guard!Seqs]
    /\ DOMAIN seq_par_q = Requesters
    /\ seq_par_q = [q \in Requesters |-> Guard!BitParity(last_sequence[q])]
    /\ last = last_sequence

\* The state rails agree, no check has fired, and the parity bit is right.
CtlOK ==
    /\ ctl \in [state : States, state_n : States, alarm : BOOLEAN, status : {0, 1},
                rdata : Words, reason : Guard!DenyReasons,
                par : {0, 1} \X Words \X Guard!DenyReasons]
    /\ ctl.state # "S_BAD" /\ ctl.state_n = ctl.state
    /\ ctl.alarm = FALSE
    /\ ctl.par = <<ctl.status, ctl.rdata, ctl.reason>>

ReqOK == r.write \in BOOLEAN /\ r.data \in Words

AuthOK ==
    /\ auth = [ok |-> auth.ok, code |-> auth.code, addr_ok |-> auth.addr_ok, tag1 |-> auth.tag1]
    /\ auth.ok \in BOOLEAN
    /\ auth.code \in {"AUTH_PASS", "AUTH_FAIL"}

\* The control starts the CMAC unit in these states only, and finds it idle.
DrvOK ==
    /\ drv = [start |-> drv.start, key |-> drv.key, msg |-> drv.msg]
    /\ drv.start \in BOOLEAN
    /\ drv.start => /\ ctl.state \in {"S_AUTH", "S_AUTH2", "S_RESP"}
                    /\ cmac.left = 0 /\ ~cmac.done

CmacOK ==
    /\ cmac = [left |-> cmac.left, live |-> cmac.live, done |-> cmac.done, tag |-> cmac.tag]
    /\ cmac.left \in 0 .. CmacCycles
    /\ cmac.live \in BOOLEAN
    /\ cmac.done \in BOOLEAN
    /\ cmac.live => cmac.left > 0
    /\ cmac.done => cmac.left = 0

MemOK ==
    /\ mem \in [Layers \X Addrs -> Words]
    /\ mem_q = [ready |-> mem_q.ready, denied |-> mem_q.denied, rdata |-> mem_q.rdata]
    /\ mem_q.ready \in BOOLEAN
    /\ mem_q.denied \in BOOLEAN
    /\ mem_q.rdata \in Words

RspOK == rsp = [valid |-> rsp.valid, msg |-> rsp.msg, tag |-> rsp.tag]

Cell(q) == <<q.layer, q.addr>>

\* The tag was made with a key of the requester, of an epoch up to the active one.
Signed(q) ==
    /\ q.requester \in Requesters
    /\ \E k \in Roots, e \in 0 .. active_epoch :
          q.tag = Mac(req_key(q.requester, k, e), req_msg(q))

\* The tag was made with the requester's key of the epoch in which it was taken.
WellTagged(q) ==
    /\ q.requester \in Requesters
    /\ q.tag = Mac(req_key(q.requester, root, taken_in), req_msg(q))

\* The CMAC unit works on the request with such a key, or has its tag.  Until the
\* fabric locks, the key is that of the epoch in which the request was taken.
Authenticating ==
    /\ drv.msg = req_msg(r)
    /\ r.requester \in Requesters =>
          \E k \in Roots, e \in 0 .. active_epoch : drv.key = req_key(r.requester, k, e)
    /\ ~drv.start => cmac.tag = Mac(drv.key, drv.msg)
    /\ auth.code = "AUTH_FAIL"
    /\ auth.ok => Signed(r)
    /\ ~Guard!locked =>
          /\ phase # "EMPTY"
          /\ r.requester \in Requesters => drv.key = req_key(r.requester, root, taken_in)

\* The response registers tell the truth.
Truthful ==
    ctl.status = 1 => effect = "done" /\ ctl.rdata = mem[Cell(r)]

\* The transaction, by the state it is in.
InAuth == Authenticating /\ effect = "none"

InAuth2 ==
    /\ Authenticating /\ effect = "none"
    /\ FaultHarden
    /\ auth.tag1 = Mac(drv.key, drv.msg)

InGuard ==
    /\ effect = "none"
    /\ auth.ok => Signed(r)
    /\ auth.code = "AUTH_PASS" => Signed(r) /\ drv.msg = req_msg(r)
    /\ ~Guard!locked /\ WellTagged(r) =>
          IF FaultHarden THEN auth.code = "AUTH_PASS" ELSE auth.ok

InMem ==
    /\ mem_q.ready
    /\ FaultHarden => drv.msg = req_msg(r)
    /\ ~mem_q.denied => /\ effect = "done"
                        /\ Cell(r) \in Layers \X Addrs
                        /\ mem[Cell(r)] = IF r.write THEN r.data ELSE mem_q.rdata

InResp == Truthful /\ drv.msg = rsp_msg(r, ctl.status, ctl.rdata)

InFlight ==
    /\ effect \in {"none", "done", "refused"}
    /\ At("S_IDLE") <=> pending = NoRequest
    /\ ~At("S_IDLE") => pending = r /\ auth.addr_ok = (r.addr \in Addrs)
    /\ At("S_AUTH") => InAuth
    /\ At("S_AUTH2") => InAuth2
    /\ At("S_GUARD") => InGuard
    /\ At("S_MEM") => InMem
    /\ At("S_SIGN") => Truthful
    /\ At("S_RESP") => InResp

ControlOK == CtlOK /\ ReqOK /\ AuthOK /\ DrvOK /\ RspOK /\ InFlight

Clean == KeysOK /\ GuardOK /\ CmacOK /\ MemOK /\ ControlOK

\* Once a register was upset nothing is claimed of the registers.
IInv ==
    /\ upsets \in 0 .. MaxUpsets
    /\ pending \in Requests \union {NoRequest}
    /\ upsets = 0 => Clean

\* What the lemmas about an edge need of its inputs.
InputOK(e) ==
    /\ e.request # NoRequest => e.request.write \in BOOLEAN /\ e.request.data \in Words
    /\ e.access \in BOOLEAN
    /\ e.load # NoRoot => e.load \in Roots

-----------------------------------------------------------------------------
(* What an edge of a clean system samples.                                   *)

\* The guard sees no internal fault and is locked by its latch alone.
LEMMA GuardHealthy ==
    ASSUME GuardOK
    PROVE  /\ ~Guard!internal_fault
           /\ Guard!locked = lockdown_q
<1>1. \A q \in Requesters : seq_par_q[q] = Guard!BitParity(last_sequence[q])
  BY DEF GuardOK
<1>2. lockdown_q # lockdown_n_q
  BY Zenon DEF GuardOK
<1>3. ~Guard!internal_fault
  BY <1>1, <1>2 DEF Guard!internal_fault
<1>4. Guard!locked = lockdown_q
  BY Zenon DEF GuardOK, Guard!locked
<1>5. QED
  BY <1>3, <1>4

\* A clean system sees no fault of its own.
LEMMA NoFault ==
    ASSUME Clean
    PROVE  ~state_fault /\ ~code_fault /\ ~resp_par_fault
<1>1. ctl.state_n = ctl.state /\ ctl.par = <<ctl.status, ctl.rdata, ctl.reason>>
  BY DEF Clean, ControlOK, CtlOK
<1>2. At("S_GUARD") => /\ auth.code # "NO_CODE"
                       /\ auth.code = "AUTH_PASS" => fields_ok
  BY DEF Clean, ControlOK, AuthOK, InFlight, InGuard, fields_ok
<1>3. QED
  BY <1>1, <1>2 DEF state_fault, code_fault, resp_par_fault

\* A request the guard consumes is current, next, signed by its requester, and
\* addressed to a tier; the guard neither is nor gets locked.
LEMMA Consumed ==
    ASSUME Clean, NEW e, Guard!consume_sequence(GuardIn(e))
    PROVE  /\ At("S_GUARD")
           /\ r.layer \in Layers /\ guard_layer = r.layer
           /\ r.epoch = active_epoch
           /\ r.seq = (last_sequence[r.requester] + 1) % SeqMod
           /\ Signed(r)
           /\ FaultHarden => drv.msg = req_msg(r)
           /\ ~Guard!locked
           /\ ~zeroize(e)
<1>1. /\ Guard!examined(GuardIn(e))
      /\ GuardIn(e).auth_ok
      /\ Guard!epoch_current(GuardIn(e))
      /\ Guard!sequence_next(GuardIn(e))
  BY DEF Guard!consume_sequence
<1>2. /\ At("S_GUARD")
      /\ ~Guard!locked
      /\ ~Guard!environment_severe(GuardIn(e))
  BY <1>1 DEF Guard!examined, GuardIn
<1>3. auth_pass /\ r_layer_ok
  BY <1>1 DEF GuardIn
<1>4. r.epoch = active_epoch /\ r.seq = (last_sequence[r.requester] + 1) % SeqMod
  BY <1>1 DEF Guard!epoch_current, Guard!sequence_next, GuardIn
<1>5. InGuard
  BY <1>2 DEF Clean, ControlOK, InFlight
<1>6. Signed(r) /\ (FaultHarden => drv.msg = req_msg(r))
  BY <1>3, <1>5, SystemAssumption DEF InGuard, auth_pass
<1>7. ~zeroize(e)
  BY <1>2 DEF zeroize, Guard!key_zeroize_o, Guard!severe_event_o, Guard!request_severe
<1>8. QED
  BY <1>2, <1>3, <1>4, <1>6, <1>7 DEF r_layer_ok, guard_layer

\* The memory is strobed exactly for a request that was consumed, that policy
\* allows and whose address exists.
LEMMA Strobed ==
    ASSUME Clean, NEW e
    PROVE  /\ mem_strobe(e) <=> At("S_GUARD") /\ allow(e) /\ r.addr \in Addrs
           /\ At("S_GUARD") => addr_ok = (r.addr \in Addrs)
           /\ allow(e) => Guard!consume_sequence(GuardIn(e)) /\ Guard!policy_ok(GuardIn(e))
<1>1. At("S_GUARD") => auth.addr_ok = (r.addr \in Addrs)
  BY DEF Clean, ControlOK, InFlight, At
<1>2. At("S_GUARD") => addr_ok = (r.addr \in Addrs)
  BY <1>1 DEF addr_ok
<1>3. allow(e) => Guard!consume_sequence(GuardIn(e)) /\ Guard!policy_ok(GuardIn(e))
  BY DEF allow, Guard!allow_o
<1>4. QED
  BY <1>2, <1>3, NoFault DEF mem_strobe

-----------------------------------------------------------------------------
(* One edge, unit by unit.                                                   *)

\* The guard keeps its registers in agreement with each other and the history.
LEMMA GuardEdge ==
    ASSUME Clean, NEW e, Edge(e)
    PROVE  /\ GuardOK'
           /\ Guard!locked => Guard!locked'
           /\ Guard!consume_sequence(GuardIn(e)) => Guard!locked' = Guard!locked
           /\ Guard!locked' \in BOOLEAN
<1> DEFINE sev == Guard!severe_event_o(GuardIn(e))
           consumed == Guard!consume_sequence(GuardIn(e))
<1>1. GuardOK
  BY DEF Clean
<1>2. /\ lockdown_q' = (lockdown_q \/ sev)
      /\ lockdown_n_q' = (lockdown_n_q /\ ~sev)
      /\ consumed => Guard!StoreSequence(GuardIn(e))
      /\ ~consumed => UNCHANGED <<last_sequence, seq_par_q>>
  BY DEF Edge, Guard!Cycle
<1>3. last' = IF consumed THEN [last EXCEPT ![r.requester] = r.seq] ELSE last
  BY DEF Edge, Observe
<1>4. lockdown_q' \in BOOLEAN /\ lockdown_n_q' = ~lockdown_q'
  BY <1>1, <1>2, Zenon DEF GuardOK
<1>5. GuardOK'
  <2>1. CASE consumed
    <3>1. r.requester \in Requesters /\ r.seq = (last_sequence[r.requester] + 1) % SeqMod
      BY <2>1, Consumed DEF Signed
    <3>2. last_sequence[r.requester] \in Nat
      BY <1>1, <3>1, SystemAssumption DEF GuardOK, Guard!Seqs
    <3>3. r.seq \in Guard!Seqs
      BY <3>1, <3>2, SystemAssumption DEF Guard!Seqs
    <3>4. /\ last_sequence' = [last_sequence EXCEPT ![r.requester] = r.seq]
          /\ seq_par_q' = [seq_par_q EXCEPT ![r.requester] = Guard!BitParity(r.seq)]
      BY <1>2, <2>1 DEF Guard!StoreSequence, GuardIn
    <3>5. last_sequence' \in [Requesters -> Guard!Seqs] /\ last' = last_sequence'
      BY <1>1, <1>3, <2>1, <3>3, <3>4 DEF GuardOK
    <3>6. seq_par_q' = [q \in Requesters |-> Guard!BitParity(last_sequence'[q])]
      BY <1>1, <3>4 DEF GuardOK
    <3>7. QED
      BY <1>4, <3>5, <3>6 DEF GuardOK, Guard!BitParity, Guard!Seqs
  <2>2. CASE ~consumed
    <3>1. last_sequence' = last_sequence /\ seq_par_q' = seq_par_q /\ last' = last
      BY <1>2, <1>3, <2>2
    <3>2. QED
      BY <1>1, <1>4, <3>1 DEF GuardOK
  <2>3. QED
    BY <2>1, <2>2
<1>6. Guard!locked = lockdown_q /\ Guard!locked' = lockdown_q'
  <2>1. Guard!locked' = lockdown_q'
    BY <1>4, Zenon DEF Guard!locked
  <2>2. QED
    BY <1>1, <2>1, GuardHealthy
<1>7. consumed => ~sev
  BY Consumed DEF zeroize, Guard!key_zeroize_o
<1>8. lockdown_q => lockdown_q'
  BY <1>2
<1>9. consumed => lockdown_q' = lockdown_q
  <2>1. lockdown_q \in BOOLEAN
    BY <1>1 DEF GuardOK
  <2>2. QED
    BY <1>2, <1>7, <2>1, Zenon
<1>10. QED
  BY <1>4, <1>5, <1>6, <1>8, <1>9, Zenon

\* The key schedule takes its root from the root input.
LEMMA KeysEdgeOK ==
    ASSUME Clean, NEW e, InputOK(e), Edge(e)
    PROVE  /\ KeysOK'
           /\ active_epoch' = active_epoch
           /\ phase # "EMPTY" /\ ~zeroize(e) => phase' # "EMPTY" /\ root' = root
<1>1. KeysOK /\ KeysEdge(e)
  BY DEF Clean, Edge
<1>2. spoiled' = {}
  BY <1>1 DEF KeysOK, KeysEdge
<1>3. CASE zeroize(e) /\ Keys!Zeroize
  BY <1>1, <1>2, <1>3 DEF KeysOK, Keys!Zeroize
<1>4. CASE e.load # NoRoot /\ Keys!Load(e.load)
  BY <1>1, <1>2, <1>4 DEF KeysOK, Keys!Load, InputOK
<1>5. CASE KeysProgress
  BY <1>1, <1>2, <1>5 DEF KeysOK, KeysProgress, Keys!BindEpoch, Keys!Finish, Keys!Rekey, keyStoreVars
<1>6. QED
  BY <1>1, <1>3, <1>4, <1>5 DEF KeysEdge

\* As long as the fabric does not lock, the keys are not wiped, and the guard lets no
\* lock go by that its severe events ask for.
LEMMA StaysOpen ==
    ASSUME Clean, NEW e, InputOK(e), Edge(e)
    PROVE  /\ zeroize(e) => Guard!locked'
           /\ lockdown_o(e) = Guard!locked'
           /\ ~Guard!locked' => ~Guard!locked
<1>1. GuardOK
  BY DEF Clean
<1>2. GuardOK' /\ Guard!locked = lockdown_q
  BY <1>1, GuardEdge, GuardHealthy
<1>3. Guard!locked' = lockdown_q'
  BY <1>2, Zenon DEF GuardOK, Guard!locked
<1>4. lockdown_q' = (lockdown_q \/ Guard!severe_event_o(GuardIn(e)))
  BY DEF Edge, Guard!Cycle
<1>5. lockdown_o(e) = (lockdown_q \/ Guard!severe_event_o(GuardIn(e)))
  BY <1>2 DEF lockdown_o, Guard!lockdown_o
<1>6. zeroize(e) = Guard!severe_event_o(GuardIn(e))
  BY DEF zeroize, Guard!key_zeroize_o
<1>7. lockdown_q \in BOOLEAN
  BY <1>1 DEF GuardOK
<1>8. Guard!severe_event_o(GuardIn(e)) \in BOOLEAN
  BY DEF Guard!severe_event_o
<1>9. QED
  BY <1>2, <1>3, <1>4, <1>5, <1>6, <1>7, <1>8, Zenon

\* What the memory does, and what becomes of the request, at an edge.
LEMMA MemEdgeOK ==
    ASSUME Clean, NEW e, InputOK(e), Edge(e)
    PROVE  /\ mem' \in [Layers \X Addrs -> Words]
           /\ mem_q' = [ready |-> mem_q'.ready, denied |-> mem_q'.denied, rdata |-> mem_q'.rdata]
           /\ mem_q'.ready \in BOOLEAN
           /\ mem_q'.denied \in BOOLEAN
           /\ mem_q'.rdata \in Words
           /\ ~mem_strobe(e) => mem' = mem
           /\ mem_strobe(e) =>
                 /\ mem_q'.ready
                 /\ mem_q'.denied = ~e.access
                 /\ Cell(r) \in Layers \X Addrs
                 /\ ~e.access => mem' = mem
                 /\ e.access => /\ mem' = IF r.write THEN [mem EXCEPT ![Cell(r)] = r.data] ELSE mem
                                /\ mem'[Cell(r)] = IF r.write THEN r.data ELSE mem_q'.rdata
<1> DEFINE cell == <<guard_layer, r.addr>>
           ok == mem_strobe(e) /\ e.access
<1>1. /\ mem_q' = [ready  |-> mem_strobe(e),
                   denied |-> mem_strobe(e) /\ ~e.access,
                   rdata  |-> IF ok /\ ~r.write THEN mem[cell] ELSE mem_q.rdata]
      /\ mem' = IF ok /\ r.write THEN [mem EXCEPT ![cell] = r.data] ELSE mem
  BY DEF Edge, MemEdge
<1>2. mem_strobe(e) => guard_layer = r.layer /\ r.layer \in Layers /\ r.addr \in Addrs
  BY Strobed, Consumed
<1>3. mem_strobe(e) => cell = Cell(r) /\ Cell(r) \in Layers \X Addrs
  BY <1>2 DEF Cell
<1>4. mem_strobe(e) \in BOOLEAN /\ e.access \in BOOLEAN
  BY DEF mem_strobe, InputOK
<1>5. MemOK /\ ReqOK
  BY DEF Clean, ControlOK
<1>6. mem' \in [Layers \X Addrs -> Words]
  BY <1>1, <1>3, <1>5 DEF MemOK, ReqOK
<1>7. mem_q'.rdata \in Words
  BY <1>1, <1>3, <1>5 DEF MemOK
<1>8. /\ mem_q' = [ready |-> mem_q'.ready, denied |-> mem_q'.denied, rdata |-> mem_q'.rdata]
      /\ mem_q'.ready = mem_strobe(e)
      /\ mem_q'.denied = (mem_strobe(e) /\ ~e.access)
  BY <1>1
<1>9. ~mem_strobe(e) => mem' = mem
  BY <1>1
<1>10. ASSUME mem_strobe(e)
       PROVE  /\ ~e.access => mem' = mem
              /\ e.access => /\ mem' = IF r.write THEN [mem EXCEPT ![Cell(r)] = r.data] ELSE mem
                             /\ mem'[Cell(r)] = IF r.write THEN r.data ELSE mem_q'.rdata
  BY <1>1, <1>3, <1>5, <1>10 DEF MemOK
<1>11. mem_q'.ready \in BOOLEAN /\ mem_q'.denied \in BOOLEAN
  BY <1>4, <1>8, Zenon
<1>12. mem_strobe(e) => mem_q'.ready /\ mem_q'.denied = ~e.access
  BY <1>4, <1>8, Zenon
<1>13. QED
  BY <1>3, <1>6, <1>7, <1>8, <1>9, <1>10, <1>11, <1>12

\* The CMAC unit: a start finds it idle and is taken unless the keys are wiped;
\* the tag it holds changes only by a start.
LEMMA CmacEdgeOK ==
    ASSUME Clean, NEW e, Edge(e)
    PROVE  /\ CmacOK'
           /\ drv.start /\ ~zeroize(e) => cmac'.tag = Mac(drv.key, drv.msg)
           /\ ~drv.start => cmac'.tag = cmac.tag
           /\ ~drv.start /\ cmac.left = 0 => cmac'.left = 0 /\ ~cmac'.done
<1>1. CmacOK /\ DrvOK /\ Cmac!UnitEdge(drv.start, drv.key, drv.msg, zeroize(e))
  BY DEF Clean, ControlOK, Edge, CmacEdge
<1>2. CmacCycles \in Nat /\ CmacCycles > 0
  BY SystemAssumption
<1>3. CASE Cmac!TakeStart(drv.start, drv.key, drv.msg, zeroize(e))
  BY <1>1, <1>2, <1>3 DEF CmacOK, DrvOK, Cmac!TakeStart, Cmac!busy_o, Mac
<1>4. CASE Cmac!StayIdle(drv.start, zeroize(e))
  BY <1>1, <1>2, <1>4 DEF CmacOK, DrvOK, Cmac!StayIdle, Cmac!busy_o
<1>5. CASE Cmac!Deliver
  <2>1. /\ cmac.left = 1
        /\ cmac' = [left |-> 0, live |-> FALSE, done |-> cmac.live, tag |-> cmac.tag]
    BY <1>1, <1>5 DEF CmacOK, DrvOK, Cmac!Deliver
  <2>2. /\ cmac'.left = 0 /\ cmac'.live = FALSE /\ cmac'.tag = cmac.tag
        /\ cmac'.done = cmac.live
        /\ cmac' = [left |-> cmac'.left, live |-> cmac'.live, done |-> cmac'.done, tag |-> cmac'.tag]
    BY <2>1
  <2>3. cmac'.done \in BOOLEAN /\ cmac'.live \in BOOLEAN
    BY <1>1, <2>2, Zenon DEF CmacOK, DrvOK
  <2>4. ~drv.start /\ cmac.left # 0
    BY <1>1, <2>1 DEF CmacOK, DrvOK
  <2>5. QED
    BY <1>2, <2>2, <2>3, <2>4 DEF CmacOK
<1>6. CASE Cmac!Compute
  BY <1>1, <1>2, <1>6 DEF CmacOK, DrvOK, Cmac!Compute
<1>7. CASE Cmac!Abort
  <2>1. cmac.left > 1
    BY <1>7 DEF Cmac!Abort
  <2>2. PICK n \in 0 .. cmac.left - 1 : cmac' = [cmac EXCEPT !.left = n, !.live = FALSE]
    BY <1>7 DEF Cmac!Abort
  <2>3. cmac' = [left |-> n, live |-> FALSE, done |-> cmac.done, tag |-> cmac.tag]
    BY <1>1, <2>2 DEF CmacOK, DrvOK
  <2>4. ~drv.start /\ ~cmac.done
    BY <1>1, <2>1 DEF CmacOK, DrvOK
  <2>5. n \in 0 .. CmacCycles
    BY <1>1, <1>2, <2>1 DEF CmacOK, DrvOK
  <2>6. QED
    BY <1>1, <2>1, <2>3, <2>4, <2>5 DEF CmacOK, DrvOK
<1>8. QED
  BY <1>1, <1>3, <1>4, <1>5, <1>6, <1>7 DEF Cmac!UnitEdge

\* The history: requests are taken in S_IDLE and answered when a response is sent;
\* the memory and the effect change in S_GUARD only.
LEMMA History ==
    ASSUME Clean, NEW e, InputOK(e), Edge(e)
    PROVE  /\ ~At("S_IDLE") => pending' = IF rsp'.valid THEN NoRequest ELSE pending
           /\ ~At("S_IDLE") /\ ~At("S_GUARD") => effect' = effect
           /\ At("S_GUARD") =>
                 effect' = IF mem_strobe(e) /\ e.access THEN "done"
                           ELSE IF Guard!consume_sequence(GuardIn(e)) THEN "refused"
                           ELSE effect
           /\ ~At("S_GUARD") => mem' = mem /\ last' = last
<1>1. Guard!consume_sequence(GuardIn(e)) => At("S_GUARD")
  BY Consumed
<1>2. mem_strobe(e) => At("S_GUARD")
  BY DEF mem_strobe
<1>3. At("S_GUARD") => ~At("S_IDLE")
  BY DEF At
<1>4. ~At("S_GUARD") => mem' = mem
  BY <1>2, MemEdgeOK
<1>5. QED
  BY <1>1, <1>2, <1>3, <1>4 DEF Edge, Observe

-----------------------------------------------------------------------------
(* One edge, branch by branch of the control.                                *)

\* The states of a transaction.
LEMMA GoodStates ==
    \A s \in {"S_IDLE", "S_AUTH", "S_AUTH2", "S_GUARD", "S_MEM", "S_SIGN", "S_RESP"} :
        s \in States \ {"S_BAD"}
BY DEF States

\* A write of the response registers, with a move to another state.
LEMMA CtlWrite ==
    ASSUME CtlOK, NEW s \in States \ {"S_BAD"}, NEW status \in {0, 1}, NEW data \in Words,
           NEW reason \in Guard!DenyReasons, ctl' = To(Put(ctl, status, data, reason), s)
    PROVE  /\ CtlOK' /\ ctl'.state = s
           /\ ctl'.status = status /\ ctl'.rdata = data
<1>1. <<status, data, reason>> \in {0, 1} \X Words \X Guard!DenyReasons
  OBVIOUS
<1>2. QED
  BY <1>1 DEF CtlOK, To, Put

\* A move to another state.
LEMMA CtlMove ==
    ASSUME CtlOK, NEW s \in States \ {"S_BAD"}, ctl' = To(ctl, s)
    PROVE  /\ CtlOK' /\ ctl'.state = s
           /\ ctl'.status = ctl.status /\ ctl'.rdata = ctl.rdata
BY DEF CtlOK, To

\* Nothing is taken in S_IDLE.
LEMMA IdleInv ==
    ASSUME Clean, NEW e, InputOK(e), Edge(e), Idle(e)
    PROVE  ControlOK'
<1>1. CtlOK /\ ReqOK /\ AuthOK /\ DrvOK /\ RspOK /\ InFlight /\ At("S_IDLE")
  BY DEF Clean, ControlOK, Idle
<1>2. /\ ctl' = ctl /\ r' = r /\ auth' = auth
      /\ drv' = [drv EXCEPT !.start = FALSE]
      /\ rsp' = [rsp EXCEPT !.valid = FALSE]
  BY NoFault DEF Idle, Go, Quiet, Silent
<1>3. CtlOK' /\ ReqOK' /\ AuthOK'
  BY <1>1, <1>2 DEF CtlOK, ReqOK, AuthOK
<1>4. DrvOK' /\ RspOK' /\ ~rsp'.valid
  BY <1>1, <1>2 DEF DrvOK, RspOK
<1>5. ~(e.request # NoRequest /\ req_ready_o(e))
  BY DEF Idle
<1>6. /\ pending' = pending
      /\ effect' \in {"none", "done", "refused"}
  BY <1>1, <1>4, <1>5 DEF Edge, Observe, InFlight
<1>7. InFlight'
  BY <1>1, <1>2, <1>6 DEF InFlight, At
<1>8. QED
  BY <1>3, <1>4, <1>7 DEF ControlOK

\* A request is taken: with ready keys its tag is computed with the key of its
\* requester and of the active epoch.
LEMMA AcceptInv ==
    ASSUME Clean, NEW e, InputOK(e), Edge(e), Accept(e)
    PROVE  /\ ControlOK'
           /\ pending' = e.request /\ effect' = "none" /\ ~rsp'.valid
<1> DEFINE q == e.request
           auths == keys_ready_o /\ ~lockdown_o(e)
<1>1. KeysOK /\ CtlOK /\ AuthOK /\ DrvOK /\ RspOK /\ InFlight /\ At("S_IDLE")
  BY DEF Clean, ControlOK, Accept
<1>2. /\ r' = q /\ q # NoRequest
      /\ auth' = [auth EXCEPT !.ok = FALSE, !.code = "AUTH_FAIL", !.addr_ok = q.addr \in Addrs]
      /\ rsp' = [rsp EXCEPT !.valid = FALSE]
      /\ req_ready_o(e)
  BY DEF Accept, Silent
<1>3. /\ auths => /\ drv' = [start |-> TRUE, key |-> KeyOf(q.requester), msg |-> req_msg(q)]
                   /\ ctl' = To(Put(ctl, 0, 0, "NONE"), "S_AUTH")
      /\ ~auths => /\ drv' = [drv EXCEPT !.start = FALSE]
                    /\ ctl' = To(Put(ctl, 0, 0, "NONE"), "S_GUARD")
  BY NoFault DEF Accept, Go, Quiet, StartCmac
<1>4. CtlOK' /\ ctl'.state = IF auths THEN "S_AUTH" ELSE "S_GUARD"
  <2>1. 0 \in Words /\ "NONE" \in Guard!DenyReasons
    BY SystemAssumption DEF Guard!DenyReasons
  <2>2. "S_AUTH" \in States \ {"S_BAD"} /\ "S_GUARD" \in States \ {"S_BAD"}
    BY GoodStates
  <2>3. QED
    BY <1>1, <1>3, <2>1, <2>2, CtlWrite
<1>5. ReqOK' /\ AuthOK' /\ RspOK' /\ ~rsp'.valid
  BY <1>1, <1>2 DEF InputOK, ReqOK, AuthOK, RspOK
<1>6. ~auth'.ok /\ auth'.code = "AUTH_FAIL" /\ auth'.addr_ok = (q.addr \in Addrs)
  BY <1>1, <1>2 DEF AuthOK
<1>7. cmac.left = 0 /\ ~drv.start
  <2>1. ~drv.start /\ ~(cmac.left > 0)
    BY <1>1, <1>2 DEF DrvOK, At, req_ready_o, cmac_busy, Cmac!busy_o
  <2>2. QED
    BY <2>1 DEF Clean, CmacOK
<1>8. cmac'.left = 0 /\ ~cmac'.done
  BY <1>7, CmacEdgeOK
<1>9. DrvOK'
  <2>1. CASE auths
    <3>1. ctl'.state = "S_AUTH"
      BY <2>1, <1>4
    <3>2. /\ drv' = [start |-> drv'.start, key |-> drv'.key, msg |-> drv'.msg]
          /\ drv'.start = TRUE
      BY <2>1, <1>3
    <3>3. QED
      BY <3>1, <3>2, <1>8 DEF DrvOK
  <2>2. CASE ~auths
    BY <2>2, <1>1, <1>3 DEF DrvOK
  <2>3. QED
    BY <2>1, <2>2
<1>10. pending' = q /\ effect' = "none" /\ taken_in' = active_epoch
  BY <1>1, <1>2 DEF Edge, Observe
<1>11. At("S_AUTH")' => InAuth'
  <2> SUFFICES ASSUME ctl'.state = "S_AUTH" PROVE InAuth'
    BY DEF At
  <2>1. auths
    BY <1>4
  <2>2. drv'.msg = req_msg(q) /\ drv'.key = KeyOf(q.requester) /\ drv'.start
    BY <2>1, <1>3
  <2>3. root \in Roots /\ epoch = active_epoch /\ active_epoch \in Nat
    BY <1>1, <2>1 DEF keys_ready_o, Keys!ready, KeysOK
  <2>4. active_epoch' = active_epoch
    BY KeysEdgeOK
  <2>5. q.requester \in Requesters => drv'.key = req_key(q.requester, root, active_epoch)
    <3>1. q.requester # "RSP" \/ q.requester \notin Requesters
      BY SystemAssumption
    <3>2. spoiled = {}
      BY <1>1 DEF KeysOK
    <3>3. QED
      BY <2>1, <2>2, <2>3, <3>1, <3>2 DEF KeyOf, KeyRegister
  <2>6. q.requester \in Requesters =>
          \E k \in Roots, x \in 0 .. active_epoch' : drv'.key = req_key(q.requester, k, x)
    BY <2>3, <2>4, <2>5
  <2>7. phase' # "EMPTY" /\ root' = root
    <3>1. phase # "EMPTY" /\ ~zeroize(e)
      BY <2>1, StaysOpen DEF keys_ready_o, Keys!ready
    <3>2. QED
      BY <3>1, KeysEdgeOK
  <2>8. QED
    BY <1>2, <1>6, <1>10, <2>2, <2>5, <2>6, <2>7 DEF InAuth, Authenticating
<1>12. At("S_GUARD")' => InGuard'
  <2>1. ~auths => lockdown_o(e)
    BY <1>2 DEF req_ready_o
  <2>2. At("S_GUARD")' => Guard!locked'
    BY <1>4, <2>1, StaysOpen DEF At
  <2>3. QED
    BY <1>6, <1>10, <2>2 DEF InGuard
<1>13. InFlight'
  BY <1>2, <1>4, <1>6, <1>10, <1>11, <1>12 DEF InFlight, At
<1>14. QED
  BY <1>4, <1>5, <1>9, <1>10, <1>13 DEF ControlOK

\* An edge within a transaction that sends no response.
LEMMA Within ==
    ASSUME Clean, NEW e, InputOK(e), Edge(e), ~At("S_IDLE"), r' = r, Silent
    PROVE  /\ ReqOK' /\ RspOK' /\ ~rsp'.valid
           /\ pending' = pending /\ pending' = r' /\ pending' # NoRequest
           /\ active_epoch' = active_epoch
           /\ Signed(r) => Signed(r)'
           /\ taken_in' = taken_in
<1>1. rsp' = [rsp EXCEPT !.valid = FALSE] /\ RspOK /\ ReqOK /\ InFlight
  BY DEF Silent, Clean, ControlOK
<1>2. ReqOK' /\ RspOK' /\ ~rsp'.valid
  BY <1>1 DEF ReqOK, RspOK
<1>3. pending' = pending /\ pending = r /\ pending # NoRequest
  BY <1>1, <1>2, History DEF InFlight
<1>4. active_epoch' = active_epoch
  BY KeysEdgeOK
<1>5. Signed(r) => Signed(r)'
  BY <1>4 DEF Signed
<1>6. taken_in' = taken_in
  BY <1>2 DEF Edge, Observe
<1>7. QED
  BY <1>2, <1>3, <1>4, <1>5, <1>6

\* A tag that matches was made with a key of the requester.
LEMMA TagMatches ==
    ASSUME Authenticating, ~drv.start, Authentic(cmac.tag)
    PROVE  Signed(r)
BY DEF Authenticating, Authentic, Signed

\* Before the fabric locks, the right tag is recognised.
LEMMA Recognised ==
    ASSUME Authenticating, ~drv.start, ~Guard!locked, WellTagged(r)
    PROVE  Authentic(cmac.tag)
BY DEF Authenticating, WellTagged, Authentic

\* What the unit works on stays what it was as long as its inputs do.
LEMMA StillAuthenticating ==
    ASSUME Clean, NEW e, InputOK(e), Edge(e), Authenticating, ~At("S_IDLE"), r' = r, Silent
    PROVE  /\ ~Guard!locked' =>
                 /\ ~Guard!locked /\ phase' # "EMPTY" /\ root' = root
                 /\ r.requester \in Requesters => drv.key = req_key(r.requester, root', taken_in')
           /\ ~Guard!locked' /\ WellTagged(r)' => WellTagged(r)
<1> SUFFICES ASSUME ~Guard!locked'
             PROVE  /\ ~Guard!locked /\ phase' # "EMPTY" /\ root' = root
                    /\ r.requester \in Requesters => drv.key = req_key(r.requester, root', taken_in')
                    /\ WellTagged(r)' => WellTagged(r)
  OBVIOUS
<1>1. ~Guard!locked /\ ~zeroize(e)
  BY StaysOpen
<1>2. phase # "EMPTY"
  BY <1>1 DEF Authenticating
<1>3. phase' # "EMPTY" /\ root' = root
  BY <1>1, <1>2, KeysEdgeOK
<1>4. taken_in' = taken_in
  BY Within
<1>5. QED
  BY <1>1, <1>3, <1>4 DEF Authenticating, WellTagged

\* The first tag is there.
LEMMA AuthDoneInv ==
    ASSUME Clean, NEW e, InputOK(e), Edge(e), AuthDone
    PROVE  ControlOK' /\ ~rsp'.valid
<1>1. CtlOK /\ AuthOK /\ DrvOK /\ CmacOK /\ InFlight /\ ctl.state = "S_AUTH" /\ cmac.done
  BY DEF Clean, ControlOK, AuthDone, At
<1>2. InAuth /\ auth.addr_ok = (r.addr \in Addrs)
  BY <1>1 DEF InFlight, At
<1>3. ~drv.start /\ cmac.left = 0
  BY <1>1 DEF DrvOK, CmacOK
<1>4. cmac'.left = 0 /\ ~cmac'.done /\ cmac'.tag = cmac.tag
  BY <1>3, CmacEdgeOK
<1>5. r' = r /\ Silent
  BY DEF AuthDone
<1>6. /\ ReqOK' /\ RspOK' /\ ~rsp'.valid
      /\ pending' = r' /\ pending' # NoRequest
      /\ active_epoch' = active_epoch
      /\ Signed(r) => Signed(r)'
  BY <1>1, <1>5, Within DEF At
<1>7. effect' = "none"
  BY <1>1, <1>2, History DEF At, InAuth
<1>8. Authentic(cmac.tag) => Signed(r)'
  BY <1>2, <1>3, <1>6, TagMatches DEF InAuth
<1>9. Authentic(cmac.tag) \in BOOLEAN
  BY DEF Authentic
<1>10. /\ ~Guard!locked' => phase' # "EMPTY" /\
             (r.requester \in Requesters => drv.key = req_key(r.requester, root', taken_in'))
       /\ ~Guard!locked' /\ WellTagged(r)' => Authentic(cmac.tag)
  BY <1>1, <1>2, <1>3, <1>5, StillAuthenticating, Recognised DEF At, InAuth
<1>11. CASE FaultHarden
  <2>1. /\ auth' = [auth EXCEPT !.ok = Authentic(cmac.tag), !.tag1 = cmac.tag]
        /\ drv' = [drv EXCEPT !.start = TRUE]
        /\ ctl' = To(ctl, "S_AUTH2")
    BY <1>11, NoFault DEF AuthDone, Go
  <2>2. CtlOK' /\ ctl'.state = "S_AUTH2"
    BY <1>1, <2>1, CtlMove, GoodStates
  <2>3. /\ auth' = [ok |-> auth'.ok, code |-> auth'.code, addr_ok |-> auth'.addr_ok,
                    tag1 |-> auth'.tag1]
        /\ auth'.ok = Authentic(cmac.tag) /\ auth'.code = auth.code
        /\ auth'.addr_ok = auth.addr_ok /\ auth'.tag1 = cmac.tag
    BY <1>1, <2>1 DEF AuthOK
  <2>4. AuthOK'
    BY <1>1, <1>9, <2>3 DEF AuthOK
  <2>5. /\ drv' = [start |-> drv'.start, key |-> drv'.key, msg |-> drv'.msg]
        /\ drv'.start = TRUE /\ drv'.key = drv.key /\ drv'.msg = drv.msg
    BY <1>1, <2>1 DEF DrvOK
  <2>6. DrvOK'
    BY <1>4, <2>2, <2>5 DEF DrvOK
  <2>7. InAuth2'
    <3>1. Authenticating'
      BY <1>2, <1>5, <1>6, <1>8, <1>10, <2>3, <2>5 DEF InAuth, Authenticating
    <3>2. auth'.tag1 = Mac(drv'.key, drv'.msg)
      BY <1>2, <1>3, <2>3, <2>5 DEF InAuth, Authenticating
    <3>3. QED
      BY <3>1, <3>2, <1>7, <1>11 DEF InAuth2
  <2>8. InFlight'
    BY <1>2, <1>5, <1>6, <1>7, <2>2, <2>3, <2>7 DEF InFlight, At
  <2>9. QED
    BY <1>6, <2>2, <2>4, <2>6, <2>8 DEF ControlOK
<1>12. CASE ~FaultHarden
  <2>1. /\ auth' = [auth EXCEPT !.ok = Authentic(cmac.tag)]
        /\ drv' = [drv EXCEPT !.start = FALSE]
        /\ ctl' = To(ctl, "S_GUARD")
    BY <1>12, NoFault DEF AuthDone, Go, Quiet
  <2>2. CtlOK' /\ ctl'.state = "S_GUARD"
    BY <1>1, <2>1, CtlMove, GoodStates
  <2>3. /\ auth' = [ok |-> auth'.ok, code |-> auth'.code, addr_ok |-> auth'.addr_ok,
                    tag1 |-> auth'.tag1]
        /\ auth'.ok = Authentic(cmac.tag) /\ auth'.code = auth.code
        /\ auth'.addr_ok = auth.addr_ok
    BY <1>1, <2>1 DEF AuthOK
  <2>4. AuthOK' /\ DrvOK'
    BY <1>1, <1>9, <2>1, <2>3 DEF AuthOK, DrvOK
  <2>5. InGuard'
    BY <1>2, <1>7, <1>8, <1>12, <1>10, <2>3 DEF InGuard, InAuth, Authenticating
  <2>6. InFlight'
    BY <1>2, <1>5, <1>6, <1>7, <2>2, <2>3, <2>5 DEF InFlight, At
  <2>7. QED
    BY <1>6, <2>2, <2>4, <2>6 DEF ControlOK
<1>13. QED
  BY <1>11, <1>12

\* The second tag is there: it is the first one.
LEMMA Auth2DoneInv ==
    ASSUME Clean, NEW e, InputOK(e), Edge(e), Auth2Done
    PROVE  ControlOK' /\ ~rsp'.valid
<1> DEFINE pass == Authentic(cmac.tag)
<1>1. CtlOK /\ AuthOK /\ DrvOK /\ CmacOK /\ InFlight /\ ctl.state = "S_AUTH2" /\ cmac.done
  BY DEF Clean, ControlOK, Auth2Done, At
<1>2. InAuth2 /\ auth.addr_ok = (r.addr \in Addrs)
  BY <1>1 DEF InFlight, At
<1>3. ~drv.start
  BY <1>1 DEF DrvOK
<1>4. cmac.tag = auth.tag1
  BY <1>2, <1>3 DEF InAuth2, Authenticating
<1>5. r' = r /\ Silent /\ drv' = [drv EXCEPT !.start = FALSE]
  BY DEF Auth2Done, Quiet
<1>6. /\ ReqOK' /\ RspOK' /\ ~rsp'.valid
      /\ pending' = r' /\ pending' # NoRequest
      /\ Signed(r) => Signed(r)'
  BY <1>1, <1>5, Within DEF At
<1>7. effect' = "none"
  BY <1>1, <1>2, History DEF At, InAuth2
<1>8. pass => Signed(r)'
  BY <1>2, <1>3, <1>6, TagMatches DEF InAuth2
<1>9. ~Guard!locked' /\ WellTagged(r)' => pass
  BY <1>1, <1>2, <1>3, <1>5, StillAuthenticating, Recognised DEF At, InAuth2
<1>10. pass \in BOOLEAN
  BY DEF Authentic
<1>11. /\ auth' = [auth EXCEPT !.ok = pass, !.code = IF pass THEN "AUTH_PASS" ELSE "AUTH_FAIL"]
       /\ ctl' = To(ctl, "S_GUARD")
  BY <1>4, NoFault DEF Auth2Done, Go
<1>12. CtlOK' /\ ctl'.state = "S_GUARD"
  BY <1>1, <1>11, CtlMove, GoodStates
<1>13. /\ auth' = [ok |-> auth'.ok, code |-> auth'.code, addr_ok |-> auth'.addr_ok,
                    tag1 |-> auth'.tag1]
       /\ auth'.ok = pass /\ auth'.code = (IF pass THEN "AUTH_PASS" ELSE "AUTH_FAIL")
       /\ auth'.addr_ok = auth.addr_ok
  BY <1>1, <1>11 DEF AuthOK
<1>14. AuthOK' /\ DrvOK' /\ drv'.msg = drv.msg
  BY <1>1, <1>5, <1>10, <1>13 DEF AuthOK, DrvOK
<1>15. InGuard'
  <2>1. drv'.msg = req_msg(r')
    BY <1>2, <1>5, <1>14 DEF InAuth2, Authenticating
  <2>2. QED
    BY <1>2, <1>7, <1>8, <1>9, <1>13, <2>1 DEF InGuard, InAuth2
<1>16. InFlight'
  BY <1>2, <1>5, <1>6, <1>7, <1>12, <1>13, <1>15 DEF InFlight, At
<1>17. QED
  BY <1>6, <1>12, <1>14, <1>16 DEF ControlOK

\* No tag yet: the unit goes on, or its start is dropped with the keys.
LEMMA AuthWaitInv ==
    ASSUME Clean, NEW e, InputOK(e), Edge(e), AuthWait(e)
    PROVE  ControlOK' /\ ~rsp'.valid
<1>1. CtlOK /\ AuthOK /\ DrvOK /\ InFlight /\ ctl.state \in {"S_AUTH", "S_AUTH2"}
  BY DEF Clean, ControlOK, AuthWait, At
<1>2. Authenticating /\ effect = "none" /\ auth.addr_ok = (r.addr \in Addrs)
  BY <1>1 DEF InFlight, At, InAuth, InAuth2
<1>3. /\ r' = r /\ auth' = auth /\ Silent /\ drv' = [drv EXCEPT !.start = FALSE]
      /\ ctl' = IF zeroize(e) THEN To(ctl, "S_GUARD") ELSE ctl
  BY NoFault DEF AuthWait, Quiet, Go
<1>4. /\ ReqOK' /\ RspOK' /\ ~rsp'.valid
      /\ pending' = r' /\ pending' # NoRequest
      /\ active_epoch' = active_epoch
      /\ Signed(r) => Signed(r)'
  BY <1>1, <1>3, Within DEF At
<1>5. effect' = "none"
  BY <1>1, <1>2, History DEF At
<1>6. /\ DrvOK' /\ AuthOK'
      /\ drv'.start = FALSE /\ drv'.key = drv.key /\ drv'.msg = drv.msg
  BY <1>1, <1>3 DEF DrvOK, AuthOK
<1>7. CASE zeroize(e)
  <2>1. CtlOK' /\ ctl'.state = "S_GUARD"
    BY <1>1, <1>3, <1>7, CtlMove, GoodStates
  <2>2. InGuard'
    BY <1>2, <1>3, <1>4, <1>5, <1>7, StaysOpen DEF InGuard, Authenticating
  <2>3. InFlight'
    BY <1>2, <1>3, <1>4, <1>5, <2>1, <2>2 DEF InFlight, At
  <2>4. QED
    BY <1>4, <1>6, <2>1, <2>3 DEF ControlOK
<1>8. CASE ~zeroize(e)
  <2>1. CtlOK' /\ ctl' = ctl
    BY <1>1, <1>3, <1>8 DEF CtlOK
  <2>2. cmac'.tag = Mac(drv.key, drv.msg)
    BY <1>2, <1>8, CmacEdgeOK DEF Authenticating
  <2>3. Authenticating'
    <3>1. ~Guard!locked' => phase' # "EMPTY" /\
             (r.requester \in Requesters => drv.key = req_key(r.requester, root', taken_in'))
      BY <1>1, <1>2, <1>3, StillAuthenticating DEF At
    <3>2. QED
      BY <1>2, <1>3, <1>4, <1>6, <2>2, <3>1 DEF Authenticating
  <2>4. (At("S_AUTH") => InAuth') /\ (At("S_AUTH2") => InAuth2')
    BY <1>1, <1>3, <1>5, <1>6, <2>3 DEF InFlight, InAuth, InAuth2
  <2>5. InFlight'
    BY <1>1, <1>2, <1>3, <1>4, <1>5, <2>1, <2>4 DEF InFlight, At
  <2>6. QED
    BY <1>4, <1>6, <2>1, <2>5 DEF ControlOK
<1>9. QED
  BY <1>7, <1>8

\* The guard decides: the request goes to the memory or is denied with a reason.
LEMMA GuardStepInv ==
    ASSUME Clean, NEW e, InputOK(e), Edge(e), GuardStep(e)
    PROVE  ControlOK' /\ ~rsp'.valid
<1> DEFINE served == allow(e) /\ addr_ok
           reason == IF allow(e) /\ ~addr_ok THEN "POLICY" ELSE Guard!deny_reason_o(GuardIn(e))
<1>1. CtlOK /\ AuthOK /\ DrvOK /\ InFlight /\ ctl.state = "S_GUARD" /\ At("S_GUARD")
  BY DEF Clean, ControlOK, GuardStep, At
<1>2. InGuard /\ auth.addr_ok = (r.addr \in Addrs)
  BY <1>1 DEF InFlight, At
<1>3. /\ r' = r /\ auth' = auth /\ Silent /\ drv' = [drv EXCEPT !.start = FALSE]
      /\ ctl' = To(Put(ctl, 0, 0, reason), IF served THEN "S_MEM" ELSE "S_SIGN")
  BY NoFault DEF GuardStep, Quiet, Go
<1>4. /\ ReqOK' /\ RspOK' /\ ~rsp'.valid
      /\ pending' = r' /\ pending' # NoRequest
  BY <1>1, <1>3, Within DEF At
<1>5. reason \in Guard!DenyReasons
  BY DEF Guard!deny_reason_o, Guard!DenyReasons
<1>6. CtlOK' /\ ctl'.state = (IF served THEN "S_MEM" ELSE "S_SIGN") /\ ctl'.status = 0
  <2>1. (IF served THEN "S_MEM" ELSE "S_SIGN") \in States \ {"S_BAD"}
    BY GoodStates
  <2>2. 0 \in Words /\ 0 \in {0, 1}
    BY SystemAssumption
  <2>3. QED
    BY <1>1, <1>3, <1>5, <2>1, <2>2, CtlWrite
<1>7. /\ DrvOK' /\ AuthOK' /\ drv'.msg = drv.msg
  BY <1>1, <1>3 DEF DrvOK, AuthOK
<1>8. effect' \in {"none", "done", "refused"}
  BY <1>1, <1>2, History DEF InGuard
<1>9. ASSUME served PROVE InMem'
  <2>1. mem_strobe(e) /\ Guard!consume_sequence(GuardIn(e))
    BY <1>1, <1>9, Strobed
  <2>2. /\ mem_q'.ready
        /\ mem_q'.denied = ~e.access
        /\ Cell(r) \in Layers \X Addrs
        /\ e.access => mem'[Cell(r)] = IF r.write THEN r.data ELSE mem_q'.rdata
    BY <2>1, MemEdgeOK
  <2>3. e.access => effect' = "done"
    BY <1>1, <2>1, History
  <2>4. FaultHarden => drv'.msg = req_msg(r')
    BY <1>3, <1>7, <2>1, Consumed
  <2>5. Cell(r') = Cell(r)
    BY <1>3
  <2>6. ~mem_q'.denied => e.access
    BY <2>2
  <2>7. QED
    BY <1>3, <2>2, <2>3, <2>4, <2>5, <2>6 DEF InMem, Cell
<1>10. At("S_MEM")' => InMem'
  BY <1>6, <1>9 DEF At
<1>11. Truthful'
  BY <1>6 DEF Truthful
<1>12. InFlight'
  BY <1>2, <1>3, <1>4, <1>6, <1>8, <1>10, <1>11 DEF InFlight, At
<1>13. QED
  BY <1>4, <1>6, <1>7, <1>12 DEF ControlOK

\* The memory answers: a word that was read or written goes into the response.
LEMMA MemStepInv ==
    ASSUME Clean, NEW e, InputOK(e), Edge(e), MemStep
    PROVE  ControlOK' /\ ~rsp'.valid
<1> DEFINE status == IF mem_q.denied THEN 0 ELSE 1
           data == IF mem_q.denied THEN 0 ELSE IF r.write THEN r.data ELSE mem_q.rdata
<1>1. CtlOK /\ AuthOK /\ DrvOK /\ MemOK /\ ReqOK /\ InFlight /\ ctl.state = "S_MEM"
  BY DEF Clean, ControlOK, MemStep, At
<1>2. InMem /\ auth.addr_ok = (r.addr \in Addrs)
  BY <1>1 DEF InFlight, At
<1>3. r' = r /\ auth' = auth /\ Silent /\ drv' = [drv EXCEPT !.start = FALSE]
  BY DEF MemStep, Quiet
<1>4. ctl' = To(Put(ctl, status, data, ctl.reason), "S_SIGN")
  BY <1>2, NoFault DEF MemStep, Go, InMem, fields_ok
<1>5. /\ ReqOK' /\ RspOK' /\ ~rsp'.valid
      /\ pending' = r' /\ pending' # NoRequest
  BY <1>1, <1>3, Within DEF At
<1>6. /\ CtlOK' /\ ctl'.state = "S_SIGN"
      /\ ctl'.status = status /\ ctl'.rdata = data
  <2>1. data \in Words /\ status \in {0, 1} /\ ctl.reason \in Guard!DenyReasons
    BY <1>1, SystemAssumption DEF MemOK, ReqOK, CtlOK
  <2>2. QED
    BY <1>1, <1>4, <2>1, CtlWrite, GoodStates
<1>7. DrvOK' /\ AuthOK'
  BY <1>1, <1>3 DEF DrvOK, AuthOK
<1>8. effect' = effect /\ mem' = mem
  BY <1>1, History DEF At
<1>9. Truthful'
  BY <1>2, <1>3, <1>6, <1>8 DEF Truthful, InMem, Cell
<1>10. InFlight'
  BY <1>1, <1>2, <1>3, <1>5, <1>6, <1>8, <1>9 DEF InFlight, At
<1>11. QED
  BY <1>5, <1>6, <1>7, <1>10 DEF ControlOK

\* The response is given to the CMAC unit, sent unsigned, or has to wait.
LEMMA SignStepInv ==
    ASSUME Clean, NEW e, InputOK(e), Edge(e), SignStep(e)
    PROVE  /\ ControlOK'
           /\ rsp'.valid => rsp'.msg = rsp_msg(r, ctl.status, ctl.rdata) /\ Truthful
<1>1. CtlOK /\ AuthOK /\ DrvOK /\ CmacOK /\ ReqOK /\ RspOK /\ InFlight /\ ctl.state = "S_SIGN"
  BY DEF Clean, ControlOK, SignStep, At
<1>2. Truthful /\ auth.addr_ok = (r.addr \in Addrs)
  BY <1>1 DEF InFlight, At
<1>3. r' = r /\ auth' = auth
  BY DEF SignStep
<1>4. effect' = effect /\ mem' = mem
  BY <1>1, History DEF At
<1>5. AuthOK' /\ ReqOK'
  BY <1>1, <1>3 DEF AuthOK, ReqOK
<1>6. ~drv.start
  BY <1>1 DEF DrvOK
<1>7. CASE /\ ~cmac_busy
           /\ StartCmac(ResponseKey, rsp_msg(r, ctl.status, ctl.rdata))
           /\ Go(To(ctl, "S_RESP"))
           /\ Silent
  <2>1. ctl' = To(ctl, "S_RESP")
        /\ drv' = [start |-> TRUE, key |-> ResponseKey, msg |-> rsp_msg(r, ctl.status, ctl.rdata)]
    BY <1>7, NoFault DEF Go, StartCmac
  <2>2. /\ CtlOK' /\ ctl'.state = "S_RESP"
        /\ ctl'.status = ctl.status /\ ctl'.rdata = ctl.rdata
    BY <1>1, <2>1, CtlMove, GoodStates
  <2>3. cmac.left = 0
    BY <1>1, <1>7 DEF CmacOK, cmac_busy, Cmac!busy_o
  <2>4. cmac'.left = 0 /\ ~cmac'.done
    BY <1>6, <2>3, CmacEdgeOK
  <2>5. /\ drv' = [start |-> drv'.start, key |-> drv'.key, msg |-> drv'.msg]
        /\ drv'.start = TRUE
        /\ drv'.msg = rsp_msg(r, ctl.status, ctl.rdata)
    BY <2>1
  <2>6. DrvOK'
    BY <2>2, <2>4, <2>5 DEF DrvOK
  <2>7. InResp'
    BY <1>2, <1>3, <1>4, <2>2, <2>5 DEF InResp, Truthful, Cell
  <2>8. RspOK' /\ ~rsp'.valid /\ pending' = r' /\ pending' # NoRequest
    BY <1>1, <1>3, <1>7, Within DEF At
  <2>9. InFlight'
    BY <1>1, <1>2, <1>3, <1>4, <2>2, <2>7, <2>8 DEF InFlight, At
  <2>10. QED
    BY <1>5, <2>2, <2>6, <2>8, <2>9 DEF ControlOK
<1>8. CASE /\ Respond(rsp_msg(r, ctl.status, ctl.rdata), Zero)
           /\ Go(To(ctl, "S_IDLE"))
           /\ Quiet
  <2>1. /\ ctl' = To(ctl, "S_IDLE")
        /\ drv' = [drv EXCEPT !.start = FALSE]
        /\ rsp' = [valid |-> TRUE, msg |-> rsp_msg(r, ctl.status, ctl.rdata), tag |-> Zero]
    BY <1>8, NoFault DEF Go, Quiet, Respond
  <2>2. CtlOK' /\ ctl'.state = "S_IDLE"
    BY <1>1, <2>1, CtlMove, GoodStates
  <2>3. DrvOK' /\ RspOK' /\ rsp'.valid /\ rsp'.msg = rsp_msg(r, ctl.status, ctl.rdata)
    BY <1>1, <2>1 DEF DrvOK, RspOK
  <2>4. pending' = NoRequest
    BY <1>1, <2>3, History DEF At
  <2>5. InFlight'
    BY <1>1, <1>4, <2>2, <2>4 DEF InFlight, At
  <2>6. QED
    BY <1>2, <1>5, <2>2, <2>3, <2>5 DEF ControlOK
<1>9. CASE Go(ctl) /\ Quiet /\ Silent
  <2>1. ctl' = ctl /\ drv' = [drv EXCEPT !.start = FALSE]
    BY <1>9, NoFault DEF Go, Quiet
  <2>2. CtlOK' /\ DrvOK'
    BY <1>1, <2>1 DEF CtlOK, DrvOK
  <2>3. RspOK' /\ ~rsp'.valid /\ pending' = r' /\ pending' # NoRequest
    BY <1>1, <1>3, <1>9, Within DEF At
  <2>4. Truthful'
    BY <1>2, <1>3, <1>4, <2>1 DEF Truthful, Cell
  <2>5. InFlight'
    BY <1>1, <1>2, <1>3, <1>4, <2>1, <2>3, <2>4 DEF InFlight, At
  <2>6. QED
    BY <1>5, <2>2, <2>3, <2>5 DEF ControlOK
<1>10. QED
  BY <1>7, <1>8, <1>9, NoFault DEF SignStep

\* The response is signed and sent, or its tag was aborted with the keys.
LEMMA RespStepInv ==
    ASSUME Clean, NEW e, InputOK(e), Edge(e), RespStep(e)
    PROVE  /\ ControlOK'
           /\ rsp'.valid => rsp'.msg = rsp_msg(r, ctl.status, ctl.rdata) /\ Truthful
<1>1. CtlOK /\ AuthOK /\ DrvOK /\ ReqOK /\ RspOK /\ InFlight /\ ctl.state = "S_RESP"
  BY DEF Clean, ControlOK, RespStep, At
<1>2. InResp /\ auth.addr_ok = (r.addr \in Addrs)
  BY <1>1 DEF InFlight, At
<1>3. r' = r /\ auth' = auth /\ drv' = [drv EXCEPT !.start = FALSE]
  BY DEF RespStep, Quiet
<1>4. effect' = effect /\ mem' = mem
  BY <1>1, History DEF At
<1>5. AuthOK' /\ ReqOK' /\ DrvOK' /\ drv'.msg = drv.msg
  BY <1>1, <1>3 DEF AuthOK, ReqOK, DrvOK
<1>6. drv.msg = rsp_msg(r, ctl.status, ctl.rdata) /\ Truthful
  BY <1>2 DEF InResp
<1>7. CASE Respond(drv.msg, cmac.tag) /\ Go(To(ctl, "S_IDLE"))
  <2>1. ctl' = To(ctl, "S_IDLE") /\ rsp' = [valid |-> TRUE, msg |-> drv.msg, tag |-> cmac.tag]
    BY <1>7, NoFault DEF Go, Respond
  <2>2. CtlOK' /\ ctl'.state = "S_IDLE"
    BY <1>1, <2>1, CtlMove, GoodStates
  <2>3. RspOK' /\ rsp'.valid /\ rsp'.msg = rsp_msg(r, ctl.status, ctl.rdata)
    BY <1>6, <2>1 DEF RspOK
  <2>4. pending' = NoRequest
    BY <1>1, <2>3, History DEF At
  <2>5. InFlight'
    BY <1>1, <1>4, <2>2, <2>4 DEF InFlight, At
  <2>6. QED
    BY <1>5, <1>6, <2>2, <2>3, <2>5 DEF ControlOK
<1>8. CASE Go(IF zeroize(e) THEN To(ctl, "S_SIGN") ELSE ctl) /\ Silent
  <2>1. ctl' = IF zeroize(e) THEN To(ctl, "S_SIGN") ELSE ctl
    BY <1>8, NoFault DEF Go
  <2>2. /\ CtlOK' /\ ctl'.state \in {"S_SIGN", "S_RESP"}
        /\ ctl'.status = ctl.status /\ ctl'.rdata = ctl.rdata
    <3>1. CASE zeroize(e)
      BY <3>1, <1>1, <2>1, CtlMove, GoodStates
    <3>2. CASE ~zeroize(e)
      BY <3>2, <1>1, <2>1 DEF CtlOK
    <3>3. QED
      BY <3>1, <3>2
  <2>3. RspOK' /\ ~rsp'.valid /\ pending' = r' /\ pending' # NoRequest
    BY <1>1, <1>3, <1>8, Within DEF At
  <2>4. Truthful' /\ InResp'
    BY <1>3, <1>4, <1>5, <1>6, <2>2 DEF InResp, Truthful, Cell
  <2>5. InFlight'
    BY <1>1, <1>2, <1>3, <1>4, <2>2, <2>3, <2>4 DEF InFlight, At
  <2>6. QED
    BY <1>5, <2>2, <2>3, <2>5 DEF ControlOK
<1>9. QED
  BY <1>6, <1>7, <1>8 DEF RespStep

-----------------------------------------------------------------------------
(* The invariant.                                                            *)

\* An edge of a clean system leaves it clean.
LEMMA EdgeInv ==
    ASSUME Clean, NEW e, InputOK(e), Edge(e)
    PROVE  Clean'
<1>1. ControlOK'
  <2>1. ~BadState
    BY DEF BadState, Clean, ControlOK, CtlOK, At
  <2>2. QED
    BY <2>1, IdleInv, AcceptInv, AuthDoneInv, Auth2DoneInv, AuthWaitInv, GuardStepInv,
       MemStepInv, SignStepInv, RespStepInv
       DEF Edge, Control
<1>2. MemOK'
  BY MemEdgeOK DEF MemOK
<1>3. QED
  BY <1>1, <1>2, GuardEdge, KeysEdgeOK, CmacEdgeOK DEF Clean

\* The inputs of an edge have the types the lemmas ask for.
LEMMA InputsOK == \A e \in Inputs : InputOK(e)
<1> SUFFICES ASSUME NEW e \in Inputs PROVE InputOK(e)
  OBVIOUS
<1>1. /\ e.request \in {NoRequest} \union Requests
      /\ e.access \in BOOLEAN
      /\ e.load \in {NoRoot} \union Roots
  BY DEF Inputs
<1>2. QED
  BY <1>1, SystemAssumption DEF InputOK

\* Reset leaves a clean system.
LEMMA InitInv == Init => IInv
<1> SUFFICES ASSUME Init PROVE IInv
  OBVIOUS
<1>1. KeysOK
  BY DEF Init, Keys!Init, KeysOK
<1>2. GuardOK
  <2>1. 0 \in Guard!Seqs
    BY SystemAssumption DEF Guard!Seqs
  <2>2. /\ lockdown_q = FALSE /\ lockdown_n_q = TRUE
        /\ last_sequence = [q \in Requesters |-> 0]
        /\ seq_par_q = [q \in Requesters |-> 0]
        /\ last = [q \in Requesters |-> 0]
    BY DEF Init, Guard!ResetState
  <2>3. \A q \in Requesters : Guard!BitParity(last_sequence[q]) = 0
    BY <2>2, ParityOfZeroWord
  <2>4. QED
    BY <2>1, <2>2, <2>3 DEF GuardOK
<1>3. CtlOK
  <2>1. 0 \in Words /\ "NONE" \in Guard!DenyReasons /\ "S_IDLE" \in States
    BY SystemAssumption DEF Guard!DenyReasons, States
  <2>2. QED
    BY <2>1 DEF Init, CtlOK
<1>4. ReqOK /\ AuthOK /\ DrvOK /\ RspOK
  BY SystemAssumption DEF Init, ReqOK, AuthOK, DrvOK, RspOK
<1>5. CmacOK
  BY SystemAssumption DEF Init, Cmac!ResetUnit, CmacOK
<1>6. MemOK
  BY SystemAssumption DEF Init, MemOK
<1>7. InFlight
  BY DEF Init, InFlight, At
<1>8. upsets = 0
  BY DEF Init
<1>9. upsets \in 0 .. MaxUpsets /\ pending = NoRequest
  BY <1>8, SystemAssumption DEF Init
<1>10. QED
  BY <1>1, <1>2, <1>3, <1>4, <1>5, <1>6, <1>7, <1>9 DEF IInv, Clean, ControlOK

\* The epoch input moves: keys of earlier epochs stay keys of earlier epochs.
LEMMA AdvanceEpochInv ==
    ASSUME Clean, AdvanceEpoch
    PROVE  Clean'
<1>1. /\ active_epoch' = active_epoch + 1
      /\ UNCHANGED <<phase, root, epoch, spoiled>>
      /\ UNCHANGED <<ctl, r, auth, drv, rsp>>
      /\ UNCHANGED <<cmac, mem, mem_q>>
      /\ UNCHANGED <<lockdown_q, lockdown_n_q, last_sequence, seq_par_q>>
      /\ UNCHANGED <<pending, effect, last, taken_in>>
  BY DEF AdvanceEpoch, Keys!AdvanceEpoch, controlVars, guardVars, ghostVars
<1>2. KeysOK'
  BY <1>1 DEF Clean, KeysOK
<1>3. GuardOK' /\ CmacOK' /\ MemOK'
  BY <1>1 DEF Clean, GuardOK, CmacOK, MemOK
<1>4. CtlOK' /\ ReqOK' /\ AuthOK' /\ DrvOK' /\ RspOK'
  BY <1>1 DEF Clean, ControlOK, CtlOK, ReqOK, AuthOK, DrvOK, RspOK
<1>5. \A k : k \in 0 .. active_epoch => k \in 0 .. active_epoch'
  BY <1>1 DEF Clean, KeysOK
<1>6. Signed(r) => Signed(r)'
  BY <1>1, <1>5 DEF Signed
<1>7. Guard!locked' = Guard!locked /\ WellTagged(r)' = WellTagged(r)
  BY <1>1 DEF Guard!locked, WellTagged
<1>8. Authenticating => Authenticating'
  BY <1>1, <1>5, <1>6, <1>7 DEF Authenticating
<1>9. (InAuth => InAuth') /\ (InAuth2 => InAuth2') /\ (InGuard => InGuard')
  BY <1>1, <1>6, <1>8, <1>7 DEF InAuth, InAuth2, InGuard
<1>10. (InMem => InMem') /\ (Truthful => Truthful') /\ (InResp => InResp')
  BY <1>1 DEF InMem, Truthful, InResp, Cell
<1>11. InFlight'
  BY <1>1, <1>9, <1>10 DEF Clean, ControlOK, InFlight, At
<1>12. QED
  BY <1>2, <1>3, <1>4, <1>11 DEF Clean, ControlOK

\* A stuttering step changes nothing.
LEMMA CleanUnchanged ==
    ASSUME Clean, UNCHANGED vars
    PROVE  Clean'
<1>1. /\ UNCHANGED <<ctl, r, auth, drv, rsp>>
      /\ UNCHANGED <<cmac, mem, mem_q, sentinel_fault>>
      /\ UNCHANGED <<lockdown_q, lockdown_n_q, last_sequence, seq_par_q>>
      /\ UNCHANGED <<phase, root, epoch, active_epoch, spoiled>>
      /\ UNCHANGED <<pending, effect, last, taken_in>>
  BY DEF vars, controlVars, guardVars, keyStoreVars, ghostVars
<1>2. KeysOK' = KeysOK /\ GuardOK' = GuardOK /\ CmacOK' = CmacOK /\ MemOK' = MemOK
  BY <1>1 DEF KeysOK, GuardOK, CmacOK, MemOK
<1>3. /\ CtlOK' = CtlOK /\ ReqOK' = ReqOK /\ AuthOK' = AuthOK /\ DrvOK' = DrvOK
      /\ RspOK' = RspOK
  BY <1>1 DEF CtlOK, ReqOK, AuthOK, DrvOK, RspOK
<1>4. InFlight' = InFlight
  BY <1>1 DEF InFlight, At, InAuth, InAuth2, InGuard, InMem, InResp, Truthful,
              Authenticating, WellTagged, Guard!locked, Signed, Cell
<1>5. QED
  BY <1>2, <1>3, <1>4 DEF Clean, ControlOK

\* Every step preserves the invariant; after an upset there is nothing to preserve.
LEMMA StepInv == IInv /\ [Next]_vars => IInv'
<1> SUFFICES ASSUME IInv, [Next]_vars PROVE IInv'
  OBVIOUS
<1>1. CASE ClockEdge
  <2>1. PICK e \in Inputs : Edge(e)
    BY <1>1 DEF ClockEdge
  <2>2. upsets' = upsets
    BY <2>1 DEF Edge
  <2>3. InputOK(e)
    BY InputsOK
  <2>4. e.request \in Requests \union {NoRequest}
    BY DEF Inputs
  <2>5. pending' \in {e.request, pending, NoRequest}
    BY <2>1 DEF Edge, Observe
  <2>6. QED
    BY <2>1, <2>2, <2>3, <2>4, <2>5, EdgeInv DEF IInv
<1>2. CASE AdvanceEpoch
  <2>1. upsets' = upsets /\ pending' = pending
    BY <1>2 DEF AdvanceEpoch, ghostVars
  <2>2. QED
    BY <1>2, <2>1, AdvanceEpochInv DEF IInv
<1>3. CASE Upset
  <2>1. upsets < MaxUpsets /\ upsets' = upsets + 1 /\ pending' = pending
    BY <1>3 DEF Upset
  <2>2. upsets' \in 0 .. MaxUpsets /\ upsets' # 0
    BY <2>1, SystemAssumption DEF IInv
  <2>3. QED
    BY <2>1, <2>2 DEF IInv
<1>4. CASE UNCHANGED vars
  BY <1>4, CleanUnchanged DEF IInv, vars, ghostVars
<1>5. QED
  BY <1>1, <1>2, <1>3, <1>4 DEF Next

\* The inductive invariant holds in every reachable state.
THEOREM Invariant == Spec => []IInv
BY InitInv, StepInv, PTL DEF Spec

\* For every configuration, hardened or not: a fault alarm is never raised before a
\* register was upset.
THEOREM NoFalseAlarms == Spec => []NoFalseAlarm
<1>1. IInv => NoFalseAlarm
  BY DEF IInv, Clean, ControlOK, CtlOK, NoFalseAlarm
<1>2. QED
  BY <1>1, Invariant, PTL

\* What makes an open fabric lock: an event, a sentinel, or a request that is not rightful.
LEMMA LockCause ==
    ASSUME Clean, NEW e \in Inputs, Edge(e), e.event \notin {"physical", "thermal"},
           ~sentinel_fault, ~Guard!locked, Guard!locked'
    PROVE  At("S_GUARD") /\ ~Rightful(pending)
<1>1. GuardOK /\ CtlOK /\ InFlight
  BY DEF Clean, ControlOK
<1>2. lockdown_o(e)
  BY InputsOK, StaysOpen
<1>3. Guard!severe_event_o(GuardIn(e))
  BY <1>2 DEF lockdown_o, Guard!lockdown_o
<1>4. ~Guard!environment_severe(GuardIn(e))
  <2>1. ~GuardIn(e).physical_fault /\ ~GuardIn(e).sentinel_fault
    BY <1>1 DEF GuardIn, CtlOK
  <2>2. \A l \in Layers : GuardIn(e).temperature_mc[l] = MaxTempMc
    BY DEF GuardIn
  <2>3. ~Guard!thermal_alarm(GuardIn(e))
    BY <2>2 DEF Guard!thermal_alarm, MaxTempMc
  <2>4. QED
    BY <1>1, <2>1, <2>3, GuardHealthy DEF Guard!environment_severe
<1>5. Guard!examined(GuardIn(e)) /\ ~Guard!consume_sequence(GuardIn(e))
  BY <1>3, <1>4 DEF Guard!severe_event_o, Guard!request_severe
<1>6. At("S_GUARD")
  BY <1>5 DEF Guard!examined, GuardIn
<1>7. InGuard /\ pending = r
  BY <1>1, <1>6 DEF InFlight, At
<1>8. ASSUME Rightful(r) PROVE FALSE
  <2>1. r_layer_ok /\ guard_layer = r.layer /\ WellTagged(r)
    BY <1>8 DEF Rightful, WellTagged, r_layer_ok, guard_layer
  <2>2. auth_pass
    BY <1>7, <2>1 DEF InGuard, auth_pass, fields_ok
  <2>3. Guard!well_formed(GuardIn(e)) /\ Guard!epoch_current(GuardIn(e))
    BY <1>8, <2>1 DEF Rightful, Guard!well_formed, Guard!requester_ok, Guard!layer_ok,
                      Guard!epoch_current, GuardIn
  <2>4. Guard!sequence_next(GuardIn(e))
    BY <1>1, <1>8 DEF Rightful, GuardOK, Guard!sequence_next, GuardIn
  <2>5. GuardIn(e).auth_ok
    BY <2>1, <2>2 DEF GuardIn
  <2>6. QED
    BY <1>5, <2>3, <2>4, <2>5 DEF Guard!consume_sequence
<1>9. QED
  BY <1>6, <1>7, <1>8

\* For every configuration, hardened or not: before a register was upset, the fabric
\* locks of itself only over a request that is not rightful.
THEOREM LockedForCause == Spec => LocksForCause
<1>1. IInv => LockHasCause
  BY LockCause DEF IInv, LockHasCause
<1>2. QED
  BY <1>1, Invariant, PTL DEF LocksForCause

\* A system that is never upset keeps the types of its registers.
THEOREM TypeCorrect == ASSUME MaxUpsets = 0 PROVE Spec => []TypeOK
<1>1. ASSUME IInv PROVE TypeOK
  <2>1. Clean /\ pending \in Requests \union {NoRequest}
    BY <1>1 DEF IInv
  <2>2. CtlOK /\ AuthOK /\ CmacOK /\ MemOK /\ GuardOK /\ InFlight
    BY <2>1 DEF Clean, ControlOK
  <2>3. /\ ctl.state \in States /\ ctl.state_n \in States
        /\ ctl.status \in 0 .. 2 /\ ctl.rdata \in Words /\ ctl.reason \in Guard!DenyReasons
    BY <2>2 DEF CtlOK
  <2>4. /\ auth.code \in AuthCodes
        /\ cmac.left \in 0 .. CmacCycles /\ (cmac.live => cmac.left > 0)
        /\ mem \in [Layers \X Addrs -> Words]
        /\ last_sequence \in [Requesters -> Guard!Seqs]
        /\ effect \in {"none", "done", "refused"}
        /\ spoiled \subseteq KeyRegisters
    BY <2>1, <2>2 DEF Clean, KeysOK, AuthOK, AuthCodes, CmacOK, MemOK, GuardOK, InFlight
  <2>5. QED
    BY <2>1, <2>3, <2>4 DEF TypeOK
<1>2. QED
  BY <1>1, Invariant, PTL

-----------------------------------------------------------------------------
(* Refinement.                                                               *)

\* The initial states are initial states of the trusted memory.
LEMMA InitRefines == Init => Fabric!Init
BY DEF Init, Guard!ResetState, Guard!locked, Keys!Init, Fabric!Init

\* What a requester accepts is its own request, executed, with the word in memory.
LEMMA Answered ==
    ASSUME Clean, NEW e, InputOK(e), Edge(e), ~At("S_IDLE"), ~At("S_GUARD"), rsp'.valid,
           rsp'.msg = rsp_msg(r, ctl.status, ctl.rdata), Truthful
    PROVE  Fabric!Answer
<1>1. InFlight
  BY DEF Clean, ControlOK
<1>2. pending = r /\ pending # NoRequest
  BY <1>1 DEF InFlight
<1>3. pending' = NoRequest /\ effect' = effect /\ mem' = mem /\ last' = last
  BY History
<1>4. active_epoch' = active_epoch
  BY KeysEdgeOK
<1>5. Guard!locked' \in BOOLEAN /\ (Guard!locked => Guard!locked')
  BY GuardEdge
<1>6. reply' = reply \/ (/\ effect = "done"
                        /\ reply' = [request |-> pending, data |-> mem[<<r.layer, r.addr>>]])
  <2>1. CASE ~Believed(pending, rsp')
    BY <2>1 DEF Edge, Observe
  <2>2. CASE Believed(pending, rsp')
    <3>1. PICK d \in Words : rsp'.msg = rsp_msg(pending, 1, d)
      BY <2>2 DEF Believed
    <3>2. ctl.status = 1 /\ rsp'.msg[4] = ctl.rdata
      BY <3>1 DEF rsp_msg
    <3>3. reply' = [request |-> pending, data |-> rsp'.msg[4]]
      BY <1>2, <2>2 DEF Edge, Observe
    <3>4. QED
      BY <3>2, <3>3 DEF Truthful, Cell
  <2>3. QED
    BY <2>1, <2>2
<1>7. QED
  BY <1>2, <1>3, <1>4, <1>5, <1>6 DEF Fabric!Answer, Fabric!MayTrip, Fabric!Cell

\* An edge without a response changes no reply, and the fabric may trip.
LEMMA NoReply ==
    ASSUME Clean, NEW e, InputOK(e), Edge(e), ~rsp'.valid
    PROVE  /\ reply' = reply /\ active_epoch' = active_epoch
           /\ Guard!locked' \in BOOLEAN /\ (Guard!locked => Guard!locked')
           /\ mem' = mem /\ last' = last /\ pending' = pending /\ effect' = effect =>
                 Fabric!Trip \/ UNCHANGED Fabric!trustedVars
<1>1. ~Believed(pending, rsp')
  BY DEF Believed
<1>2. reply' = reply
  BY <1>1 DEF Edge, Observe
<1>3. Guard!locked' \in BOOLEAN /\ (Guard!locked => Guard!locked')
  BY GuardEdge
<1>4. Guard!locked \in BOOLEAN
  BY GuardHealthy, Zenon DEF Clean, GuardOK
<1>5. Guard!locked' = TRUE \/ Guard!locked' = Guard!locked
  BY <1>3, <1>4, Zenon
<1>6. active_epoch' = active_epoch
  BY KeysEdgeOK
<1>7. QED
  BY <1>2, <1>3, <1>5, <1>6 DEF Fabric!Trip, Fabric!trustedVars

\* A request that is taken is submitted.
LEMMA Submitted ==
    ASSUME Clean, NEW e, InputOK(e), e.request \in Requests \union {NoRequest}, Edge(e), Accept(e)
    PROVE  Fabric!Next
<1>1. pending' = e.request /\ effect' = "none" /\ ~rsp'.valid
  BY AcceptInv
<1>2. e.request \in Requests /\ At("S_IDLE") /\ pending = NoRequest
  BY DEF Accept, Clean, ControlOK, InFlight
<1>3. mem' = mem /\ last' = last
  BY <1>2, History DEF At
<1>4. /\ reply' = reply /\ active_epoch' = active_epoch
      /\ Guard!locked' \in BOOLEAN /\ (Guard!locked => Guard!locked')
  BY <1>1, NoReply
<1>5. Fabric!Submit(e.request)
  BY <1>1, <1>2, <1>3, <1>4 DEF Fabric!Submit, Fabric!MayTrip
<1>6. QED
  BY <1>2, <1>5 DEF Fabric!Next

\* What the policy of the guard allows, the requesters read as permitted.
LEMMA Permitted ==
    ASSUME NEW e, r.layer \in Layers, guard_layer = r.layer, r.addr \in Addrs,
           Guard!policy_ok(GuardIn(e))
    PROVE  PermittedRequest(r)
<1>1. /\ GuardIn(e).requester = r.requester /\ GuardIn(e).op_write = r.write
      /\ GuardIn(e).layer = r.layer /\ ~GuardIn(e).debug_unlocked
  BY DEF GuardIn
<1>2. QED
  BY <1>1 DEF Guard!policy_ok, PermittedRequest

\* The decision of the guard executes the request, refuses it, trips or does nothing.
LEMMA Decided ==
    ASSUME Clean, NEW e, InputOK(e), Edge(e), GuardStep(e)
    PROVE  Fabric!Next \/ UNCHANGED Fabric!trustedVars
<1>1. At("S_GUARD") /\ ~At("S_IDLE") /\ r' = r /\ Silent
  BY DEF GuardStep, At
<1>2. ~rsp'.valid /\ pending' = pending /\ pending' = r' /\ pending' # NoRequest
  BY <1>1, Within
<1>3. effect = "none"
  BY <1>1 DEF Clean, ControlOK, InFlight, InGuard
<1>4. effect' = IF mem_strobe(e) /\ e.access THEN "done"
                ELSE IF Guard!consume_sequence(GuardIn(e)) THEN "refused"
                ELSE effect
  BY <1>1, History
<1>5. /\ mem_strobe(e) => /\ Guard!consume_sequence(GuardIn(e))
                           /\ Guard!policy_ok(GuardIn(e)) /\ r.addr \in Addrs
  BY Strobed
<1>6. reply' = reply /\ active_epoch' = active_epoch
  BY <1>2, NoReply
<1>7. CASE Guard!consume_sequence(GuardIn(e))
  <2>1. /\ r.layer \in Layers /\ guard_layer = r.layer
        /\ r.epoch = active_epoch
        /\ r.seq = (last_sequence[r.requester] + 1) % SeqMod
        /\ Signed(r)
        /\ ~Guard!locked
    BY <1>7, Consumed
  <2>2. AuthenticRequest(r)
    BY <2>1 DEF Signed, AuthenticRequest
  <2>3. last' = [last EXCEPT ![r.requester] = r.seq] /\ last = last_sequence
    BY <1>7 DEF Edge, Observe, Clean, GuardOK
  <2>4. Guard!locked' = Guard!locked
    BY <1>7, GuardEdge
  <2>5. Fabric!Consume
    BY <1>1, <1>2, <1>3, <1>6, <2>1, <2>2, <2>3, <2>4 DEF Fabric!Consume, Fabric!Valid
  <2>6. CASE mem_strobe(e) /\ e.access
    <3>1. mem' = IF r.write THEN [mem EXCEPT ![Cell(r)] = r.data] ELSE mem
      BY <2>6, MemEdgeOK
    <3>2. PermittedRequest(r)
      BY <1>5, <2>1, <2>6, Permitted
    <3>3. Fabric!Execute
      BY <1>1, <1>2, <1>4, <2>5, <2>6, <3>1, <3>2 DEF Fabric!Execute, Fabric!Cell, Cell
    <3>4. QED
      BY <3>3 DEF Fabric!Next
  <2>7. CASE ~(mem_strobe(e) /\ e.access)
    <3>1. mem' = mem
      BY <2>7, MemEdgeOK
    <3>2. Fabric!Refuse
      BY <1>4, <1>7, <2>5, <2>7, <3>1 DEF Fabric!Refuse
    <3>3. QED
      BY <3>2 DEF Fabric!Next
  <2>8. QED
    BY <2>6, <2>7
<1>8. CASE ~Guard!consume_sequence(GuardIn(e))
  <2>1. ~mem_strobe(e)
    BY <1>5, <1>8
  <2>2. mem' = mem
    BY <2>1, MemEdgeOK
  <2>3. last' = last /\ effect' = effect
    BY <1>4, <1>8, <2>1 DEF Edge, Observe
  <2>4. QED
    BY <1>2, <2>2, <2>3, NoReply DEF Fabric!Next
<1>9. QED
  BY <1>7, <1>8

\* Every edge is a step of the trusted memory or a stutter.
LEMMA EdgeRefines ==
    ASSUME Clean, NEW e, InputOK(e), e.request \in Requests \union {NoRequest}, Edge(e)
    PROVE  Fabric!Next \/ UNCHANGED Fabric!trustedVars
<1>1. CASE Idle(e)
  <2>1. At("S_IDLE") /\ ~At("S_GUARD") /\ ~(e.request # NoRequest /\ req_ready_o(e)) /\ Silent
    BY <1>1 DEF Idle, At
  <2>2. ~rsp'.valid
    BY <2>1 DEF Silent, Clean, ControlOK, RspOK
  <2>3. mem' = mem /\ last' = last
    BY <2>1, History
  <2>4. ~Guard!consume_sequence(GuardIn(e)) /\ ~mem_strobe(e)
    BY <2>1, Consumed DEF mem_strobe
  <2>5. pending' = pending /\ effect' = effect
    BY <2>1, <2>2, <2>4 DEF Edge, Observe
  <2>6. QED
    BY <2>2, <2>3, <2>5, NoReply DEF Fabric!Next
<1>2. CASE Accept(e)
  BY <1>2, Submitted
<1>3. CASE AuthDone \/ Auth2Done \/ AuthWait(e) \/ MemStep
  <2>1. ~At("S_IDLE") /\ ~At("S_GUARD") /\ r' = r /\ Silent
    BY <1>3 DEF AuthDone, Auth2Done, AuthWait, MemStep, At
  <2>2. ~rsp'.valid /\ pending' = pending
    BY <2>1, Within
  <2>3. mem' = mem /\ last' = last /\ effect' = effect
    BY <2>1, History
  <2>4. QED
    BY <2>2, <2>3, NoReply DEF Fabric!Next
<1>4. CASE GuardStep(e)
  BY <1>4, Decided
<1>5. CASE SignStep(e) \/ RespStep(e)
  <2>1. ~At("S_IDLE") /\ ~At("S_GUARD") /\ r' = r
    BY <1>5 DEF SignStep, RespStep, At
  <2>2. rsp'.valid => rsp'.msg = rsp_msg(r, ctl.status, ctl.rdata) /\ Truthful
    BY <1>5, SignStepInv, RespStepInv
  <2>3. CASE rsp'.valid
    BY <2>1, <2>2, <2>3, Answered DEF Fabric!Next
  <2>4. CASE ~rsp'.valid
    <3>1. mem' = mem /\ last' = last /\ effect' = effect /\ pending' = pending
      BY <2>1, <2>4, History
    <3>2. QED
      BY <2>4, <3>1, NoReply DEF Fabric!Next
  <2>5. QED
    BY <2>3, <2>4
<1>6. CASE BadState
  BY <1>6 DEF BadState, Clean, ControlOK, CtlOK, At
<1>7. QED
  BY <1>1, <1>2, <1>3, <1>4, <1>5, <1>6 DEF Edge, Control

\* A system that is never upset implements the trusted memory, for every stack,
\* policy, request set, key set, tag latency and sequence width, hardened or not.
THEOREM Refinement == ASSUME MaxUpsets = 0 PROVE Spec => ImplementsTrustedMemory
<1>1. Init => Fabric!Init
  BY InitRefines
<1>2. IInv /\ [Next]_vars => [Fabric!Next]_(Fabric!trustedVars)
  <2> SUFFICES ASSUME IInv, [Next]_vars
               PROVE  Fabric!Next \/ UNCHANGED Fabric!trustedVars
    OBVIOUS
  <2>1. Clean /\ upsets = 0
    BY DEF IInv
  <2>2. CASE ClockEdge
    <3>1. PICK e \in Inputs : Edge(e)
      BY <2>2 DEF ClockEdge
    <3>2. InputOK(e) /\ e.request \in Requests \union {NoRequest}
      BY InputsOK DEF Inputs
    <3>3. QED
      BY <2>1, <3>1, <3>2, EdgeRefines
  <2>3. CASE AdvanceEpoch
    <3>1. /\ active_epoch' = active_epoch + 1
          /\ UNCHANGED <<mem, lockdown_q, lockdown_n_q, pending, effect, last, reply>>
      BY <2>3 DEF AdvanceEpoch, Keys!AdvanceEpoch, guardVars, ghostVars
    <3>2. Guard!locked' = Guard!locked
      BY <3>1 DEF Guard!locked
    <3>3. QED
      BY <3>1, <3>2 DEF Fabric!AdvanceEpoch, Fabric!Next
  <2>4. CASE Upset
    BY <2>1, <2>4 DEF Upset
  <2>5. CASE UNCHANGED vars
    <3>1. UNCHANGED <<mem, last, active_epoch, lockdown_q, lockdown_n_q, pending, effect, reply>>
      BY <2>5 DEF vars, guardVars, keyStoreVars, ghostVars
    <3>2. Guard!locked' = Guard!locked
      BY <3>1 DEF Guard!locked
    <3>3. QED
      BY <3>1, <3>2 DEF Fabric!trustedVars
  <2>6. QED
    BY <2>2, <2>3, <2>4, <2>5 DEF Next
<1>3. QED
  BY <1>1, <1>2, Invariant, PTL DEF Spec, ImplementsTrustedMemory, Fabric!Spec

=============================================================================
