--------------------------- MODULE KeyScheduleProofs ---------------------------
(***************************************************************************)
(* Proofs about the VTF key schedule, for every number of requesters, every *)
(* number of AES rounds and every set of roots.                             *)
(*                                                                          *)
(* The strengthening says, for every state of the schedule, where the AES   *)
(* core is with the block it was given (CoreInStep), what that block is and *)
(* which of the keys are already those of the root (Progress).              *)
(***************************************************************************)
EXTENDS VtfKeySchedule, TLAPS

Deriving == {"K_BASE_REQ", "K_BASE_RSP", "K_DERIVE", "K_SUBKEY"}

\* A block was handed over and not taken yet, is in the datapath, or is done.
CoreInStep ==
    \/ aes_start /\ ~aes_busy /\ ~aes_done
    \/ ~aes_start /\ aes_busy /\ ~aes_done /\ aes_work = <<aes_key, aes_in>>
    \/ ~aes_start /\ ~aes_busy /\ aes_done /\ aes_out = Aes!Encrypt(aes_key, aes_in)

\* In an empty schedule the core may still be at work on a block from before a zeroize.
CoreState ==
    /\ aes_round \in 0 .. Rounds
    /\ aes_busy <=> aes_round # 0
    /\ aes_busy => ~aes_done
    /\ kstate_q = "K_EMPTY" => ~aes_start
    /\ kstate_q = "K_READY" => ~aes_start /\ ~aes_busy
    /\ kstate_q \in Deriving => CoreInStep

RootTerm == <<"root", root>>
BaseReqRight == base_req_q = Aes!Encrypt(RootTerm, REQ_DOMAIN)
BaseRspRight == base_rsp_q = Aes!Encrypt(RootTerm, RSP_DOMAIN)
KeyRight(i) == key_q[i] = WorkingKey(root, i, derived_epoch_q)
SubkeyRight(i) == k1_q[i] = Subkey(key_q[i])

AtBaseReq == aes_key = RootTerm /\ aes_in = REQ_DOMAIN

AtBaseRsp == aes_key = RootTerm /\ aes_in = RSP_DOMAIN /\ BaseReqRight

AtDerive ==
    /\ epoch_keys
    /\ BaseReqRight /\ BaseRspRight
    /\ aes_key = (IF idx_q < NumRequesters THEN base_req_q ELSE base_rsp_q)
    /\ aes_in = kdf_block(idx_q, derived_epoch_q)
    /\ \A i \in KeyIdx : i < idx_q => KeyRight(i) /\ SubkeyRight(i)

AtSubkey ==
    /\ BaseReqRight /\ BaseRspRight
    /\ aes_in = Zero
    /\ epoch_keys => /\ aes_key = key_q[idx_q]
                     /\ \A i \in KeyIdx : /\ i <= idx_q => KeyRight(i)
                                          /\ i < idx_q => SubkeyRight(i)
    /\ ~epoch_keys => /\ idx_q \in {0, 1}
                      /\ aes_key = (IF idx_q = 0 THEN base_req_q ELSE base_rsp_q)
                      /\ \A i \in KeyIdx : /\ KeyRight(i)
                                           /\ idx_q = 1 /\ i < NumRequesters => SubkeyRight(i)

AtReady ==
    /\ BaseReqRight /\ BaseRspRight
    /\ \A i \in KeyIdx : KeyRight(i) /\ SubkeyRight(i)

Progress ==
    /\ kstate_q = "K_EMPTY" <=> root = NoRoot
    /\ kstate_q = "K_BASE_REQ" => AtBaseReq
    /\ kstate_q = "K_BASE_RSP" => AtBaseRsp
    /\ kstate_q = "K_DERIVE" => AtDerive
    /\ kstate_q = "K_SUBKEY" => AtSubkey
    /\ kstate_q = "K_READY" => AtReady

IInv == TypeOK /\ CoreState /\ Progress /\ ZeroizeLeavesNothing

-----------------------------------------------------------------------------
\* What a clock edge does to the core, by what it was doing: it takes a start when
\* idle, works through its rounds, and pulses done with the result of its block.
LEMMA CoreEdge ==
    ASSUME TypeOK, CoreState, Aes!Edge(aes_start, aes_key, aes_in)
    PROVE  /\ aes_busy' \in BOOLEAN /\ aes_done' \in BOOLEAN
           /\ aes_round' \in 0 .. Rounds
           /\ aes_busy' <=> aes_round' # 0
           /\ aes_busy' => ~aes_done'
           /\ ~aes_busy /\ ~aes_start => ~aes_busy' /\ ~aes_done'
           /\ ~aes_busy /\ aes_start => aes_busy' /\ ~aes_done' /\ aes_work' = <<aes_key, aes_in>>
           /\ aes_busy => \/ aes_busy' /\ ~aes_done' /\ aes_work' = aes_work
                          \/ ~aes_busy' /\ aes_done' /\ aes_out' = Aes!Encrypt(aes_work[1], aes_work[2])
<1>0. /\ aes_busy \in BOOLEAN /\ aes_done \in BOOLEAN
      /\ aes_round \in 0 .. Rounds /\ (aes_busy <=> aes_round # 0) /\ Rounds \in Nat \ {0}
  BY ScheduleAssumption DEF TypeOK, CoreState
<1>1. CASE aes_start /\ Aes!StartRound(aes_key, aes_in)
  <2>1. aes_round' \in 0 .. Rounds /\ aes_round' # 0
    BY <1>0, <1>1 DEF Aes!StartRound
  <2>2. QED
    BY <1>1, <2>1, Zenon DEF Aes!StartRound
<1>2. CASE ~aes_start /\ Aes!IdleCore
  BY <1>0, <1>2 DEF Aes!IdleCore
<1>3. CASE Aes!NextRound
  <2>1. aes_round' \in 0 .. Rounds /\ aes_round' # 0
    BY <1>0, <1>3 DEF Aes!NextRound
  <2>2. QED
    BY <1>0, <1>3, <2>1, Zenon DEF Aes!NextRound
<1>4. CASE Aes!LastRound
  <2>1. aes_round' \in 0 .. Rounds /\ ~(aes_round' # 0)
    BY <1>0, <1>4 DEF Aes!LastRound
  <2>2. QED
    BY <1>4, <2>1, Zenon DEF Aes!LastRound
<1>5. QED
  BY <1>1, <1>2, <1>3, <1>4 DEF Aes!Edge

\* Initial states satisfy the inductive invariant.
LEMMA InitInv == Init => IInv
<1> SUFFICES ASSUME Init PROVE IInv
  OBVIOUS
<1> USE ScheduleAssumption DEF Init, Aes!ResetCore
<1>1. TypeOK
  <2>1. /\ aes_start \in BOOLEAN /\ aes_busy \in BOOLEAN /\ aes_done \in BOOLEAN
        /\ epoch_keys \in BOOLEAN
    BY Zenon
  <2>2. /\ kstate_q \in KStates /\ idx_q \in KeyIdx /\ aes_round \in 0 .. Rounds
        /\ derived_epoch_q \in 0 .. MaxEpoch /\ active_epoch \in 0 .. MaxEpoch
        /\ zeroizes \in 0 .. MaxZeroizes
    BY DEF KStates, KeyIdx
  <2>3. DOMAIN key_q = KeyIdx /\ DOMAIN k1_q = KeyIdx /\ root \in Roots \union {NoRoot}
    OBVIOUS
  <2>4. QED
    BY <2>1, <2>2, <2>3 DEF TypeOK
<1>2. CoreState
  BY DEF CoreState, Deriving
<1>3. Progress
  BY DEF Progress
<1>4. ZeroizeLeavesNothing
  BY DEF ZeroizeLeavesNothing
<1>5. QED
  BY <1>1, <1>2, <1>3, <1>4 DEF IInv

-----------------------------------------------------------------------------
(* One step of the schedule.                                                 *)

\* A result that the schedule takes is that of the block it handed over; the core is
\* idle then and takes the next block.
LEMMA TakeResult ==
    ASSUME TypeOK, CoreState, kstate_q \in Deriving, aes_done,
           Aes!Edge(aes_start, aes_key, aes_in)
    PROVE  /\ aes_out = Aes!Encrypt(aes_key, aes_in)
           /\ ~aes_busy' /\ ~aes_done'
           /\ kstate_q' \in Deriving /\ aes_start' = TRUE => CoreState'
           /\ kstate_q' = "K_READY" /\ aes_start' = FALSE => CoreState'
<1>1. /\ ~aes_start /\ ~aes_busy
      /\ aes_out = Aes!Encrypt(aes_key, aes_in)
  BY DEF CoreState, CoreInStep
<1>2. /\ ~aes_busy' /\ ~aes_done'
      /\ aes_round' \in 0 .. Rounds
      /\ aes_busy' <=> aes_round' # 0
  BY <1>1, CoreEdge
<1>3. ASSUME kstate_q' \in Deriving, aes_start' = TRUE
      PROVE  CoreState'
  BY <1>2, <1>3 DEF CoreState, CoreInStep, Deriving
<1>4. ASSUME kstate_q' = "K_READY", aes_start' = FALSE
      PROVE  CoreState'
  BY <1>2, <1>4 DEF CoreState, Deriving
<1>5. QED
  BY <1>1, <1>2, <1>3, <1>4

\* The reference keys by base key.
LEMMA WorkingKeys ==
    ASSUME NEW rt, NEW e, NEW i \in KeyIdx
    PROVE  /\ i < NumRequesters => BaseKey(rt, i) = Aes!Encrypt(<<"root", rt>>, REQ_DOMAIN)
           /\ ~(i < NumRequesters) => BaseKey(rt, i) = Aes!Encrypt(<<"root", rt>>, RSP_DOMAIN)
           /\ epoch_keys => WorkingKey(rt, i, e) = Aes!Encrypt(BaseKey(rt, i), kdf_block(i, e))
           /\ ~epoch_keys => WorkingKey(rt, i, e) = BaseKey(rt, i)
BY DEF BaseKey, WorkingKey

\* A root is taken by an empty schedule only, while the core is idle.
LEMMA LoadRootInv ==
    ASSUME IInv, NEW rt \in Roots, LoadRoot(rt), UNCHANGED <<zeroizes, active_epoch, epoch_keys>>,
           Aes!Edge(aes_start, aes_key, aes_in)
    PROVE  IInv'
<1> USE DEF IInv
<1>1. /\ ~aes_busy' /\ ~aes_done'
      /\ aes_round' \in 0 .. Rounds
      /\ aes_busy' <=> aes_round' # 0
      /\ aes_busy' \in BOOLEAN /\ aes_done' \in BOOLEAN
  BY CoreEdge DEF LoadRoot, CoreState
<1>2. /\ aes_start' = TRUE /\ aes_key' = <<"root", rt>> /\ aes_in' = REQ_DOMAIN
      /\ kstate_q' = "K_BASE_REQ" /\ root' = rt
      /\ UNCHANGED <<base_req_q, base_rsp_q, key_q, k1_q, derived_epoch_q, idx_q>>
  BY DEF LoadRoot, StartAes
<1>3. rt # NoRoot
  BY ScheduleAssumption
<1>4. TypeOK'
  BY <1>1, <1>2 DEF TypeOK, KStates
<1>5. CoreState'
  BY <1>1, <1>2 DEF CoreState, CoreInStep, Deriving
<1>6. Progress'
  BY <1>2, <1>3 DEF Progress, AtBaseReq, RootTerm
<1>7. ZeroizeLeavesNothing'
  BY <1>2, <1>3 DEF ZeroizeLeavesNothing
<1>8. QED
  BY <1>4, <1>5, <1>6, <1>7

\* The request base key is there.
LEMMA BaseReqInv ==
    ASSUME IInv, BaseReq, UNCHANGED <<zeroizes, active_epoch, epoch_keys>>,
           Aes!Edge(aes_start, aes_key, aes_in)
    PROVE  IInv'
<1> USE DEF IInv
<1>1. kstate_q \in Deriving /\ aes_done /\ kstate_q = "K_BASE_REQ"
  BY DEF BaseReq, Deriving
<1>2. /\ base_req_q' = aes_out /\ aes_start' = TRUE /\ aes_key' = aes_key /\ aes_in' = RSP_DOMAIN
      /\ kstate_q' = "K_BASE_RSP"
      /\ UNCHANGED <<base_rsp_q, key_q, k1_q, derived_epoch_q, idx_q, root>>
  BY DEF BaseReq, StartAes
<1>3. /\ aes_out = Aes!Encrypt(aes_key, aes_in)
      /\ CoreState'
  BY <1>1, <1>2, TakeResult DEF Deriving
<1>4. TypeOK'
  BY <1>2, CoreEdge DEF TypeOK, KStates
<1>5. root # NoRoot /\ AtBaseReq
  BY <1>1 DEF Progress
<1>6. Progress'
  BY <1>2, <1>3, <1>5 DEF Progress, AtBaseReq, AtBaseRsp, RootTerm, BaseReqRight
<1>7. ZeroizeLeavesNothing'
  BY <1>2, <1>5 DEF ZeroizeLeavesNothing
<1>8. QED
  BY <1>3, <1>4, <1>6, <1>7

\* The response base key is there: with epochs the first working key is next, without
\* them the base keys are the working keys.
LEMMA BaseRspInv ==
    ASSUME IInv, BaseRsp, UNCHANGED <<zeroizes, active_epoch, epoch_keys>>,
           Aes!Edge(aes_start, aes_key, aes_in)
    PROVE  IInv'
<1> USE DEF IInv
<1>1. kstate_q \in Deriving /\ aes_done /\ kstate_q = "K_BASE_RSP"
  BY DEF BaseRsp, Deriving
<1>2. /\ base_rsp_q' = aes_out /\ derived_epoch_q' = active_epoch /\ idx_q' = 0
      /\ aes_start' = TRUE /\ kstate_q' \in {"K_DERIVE", "K_SUBKEY"}
      /\ UNCHANGED <<base_req_q, k1_q, root>>
  BY DEF BaseRsp, StartFirstKey, StartAes
<1>3. /\ aes_out = Aes!Encrypt(aes_key, aes_in)
      /\ CoreState'
  BY <1>1, <1>2, TakeResult DEF Deriving
<1>4. root # NoRoot /\ AtBaseRsp
  BY <1>1 DEF Progress
<1>5. BaseReqRight' /\ BaseRspRight'
  BY <1>2, <1>3, <1>4 DEF AtBaseRsp, BaseReqRight, BaseRspRight, RootTerm
<1>6. 0 \in KeyIdx /\ 0 < NumRequesters /\ NumRequesters \in KeyIdx
  BY ScheduleAssumption DEF KeyIdx
<1>7. ZeroizeLeavesNothing'
  BY <1>2, <1>4 DEF ZeroizeLeavesNothing
<1>8. CASE epoch_keys
  <2>1. /\ aes_key' = base_req_q /\ aes_in' = kdf_block(0, active_epoch)
        /\ kstate_q' = "K_DERIVE" /\ UNCHANGED key_q
    BY <1>8 DEF BaseRsp, StartFirstKey, StartAes
  <2>2. TypeOK'
    BY <1>2, <1>6, <2>1, CoreEdge DEF TypeOK, KStates
  <2>3. \A i \in KeyIdx : ~(i < 0)
    BY ScheduleAssumption DEF KeyIdx
  <2>4. AtDerive'
    BY <1>2, <1>5, <1>6, <1>8, <2>1, <2>3 DEF AtDerive
  <2>5. Progress'
    BY <1>2, <1>4, <2>1, <2>4 DEF Progress
  <2>6. QED
    BY <1>3, <1>7, <2>2, <2>5
<1>9. CASE ~epoch_keys
  <2>1. /\ key_q' = [i \in KeyIdx |-> IF i < NumRequesters THEN base_req_q ELSE aes_out]
        /\ aes_key' = base_req_q /\ aes_in' = Zero /\ kstate_q' = "K_SUBKEY"
    BY <1>9 DEF BaseRsp, SharedKeys, StartAes
  <2>2. TypeOK'
    BY <1>2, <1>6, <2>1, CoreEdge DEF TypeOK, KStates
  <2>3. ASSUME NEW i \in KeyIdx
        PROVE  KeyRight(i)'
    <3>1. /\ i < NumRequesters => BaseKey(root, i) = base_req_q
          /\ ~(i < NumRequesters) => BaseKey(root, i) = aes_out
          /\ WorkingKey(root, i, active_epoch) = BaseKey(root, i)
      BY <1>3, <1>4, <1>9, WorkingKeys DEF AtBaseRsp, BaseReqRight, RootTerm
    <3>2. WorkingKey(root, i, derived_epoch_q)' = WorkingKey(root, i, active_epoch)
      BY <1>2 DEF WorkingKey, BaseKey
    <3>3. QED
      BY <2>1, <3>1, <3>2 DEF KeyRight
  <2>4. AtSubkey'
    BY <1>2, <1>5, <1>9, <2>1, <2>3 DEF AtSubkey
  <2>5. Progress'
    BY <1>2, <1>4, <2>1, <2>4 DEF Progress
  <2>6. QED
    BY <1>3, <1>7, <2>2, <2>5
<1>10. QED
  BY <1>8, <1>9

\* A working key is there; its subkey is next.
LEMMA DeriveInv ==
    ASSUME IInv, Derive, UNCHANGED <<zeroizes, active_epoch, epoch_keys>>,
           Aes!Edge(aes_start, aes_key, aes_in)
    PROVE  IInv'
<1> USE DEF IInv
<1>1. kstate_q \in Deriving /\ aes_done /\ kstate_q = "K_DERIVE"
  BY DEF Derive, Deriving
<1>2. /\ key_q' = [key_q EXCEPT ![idx_q] = aes_out]
      /\ aes_start' = TRUE /\ aes_key' = aes_out /\ aes_in' = Zero
      /\ kstate_q' = "K_SUBKEY"
      /\ UNCHANGED <<base_req_q, base_rsp_q, k1_q, derived_epoch_q, idx_q, root>>
  BY DEF Derive, StartAes
<1>3. /\ aes_out = Aes!Encrypt(aes_key, aes_in)
      /\ CoreState'
  BY <1>1, <1>2, TakeResult DEF Deriving
<1>4. root # NoRoot /\ AtDerive
  BY <1>1 DEF Progress
<1>5. /\ idx_q \in KeyIdx /\ DOMAIN key_q = KeyIdx
      /\ \A i \in KeyIdx : i \in Int
  BY ScheduleAssumption DEF TypeOK, KeyIdx
<1>6. TypeOK'
  BY <1>2, CoreEdge DEF TypeOK, KStates
<1>7. aes_out = WorkingKey(root, idx_q, derived_epoch_q)
  BY <1>3, <1>4, <1>5, WorkingKeys DEF AtDerive, BaseReqRight, BaseRspRight, RootTerm
<1>8. ASSUME NEW i \in KeyIdx
      PROVE  /\ i <= idx_q => KeyRight(i)'
             /\ i < idx_q => SubkeyRight(i)'
  <2>1. WorkingKey(root, i, derived_epoch_q)' = WorkingKey(root, i, derived_epoch_q)
    BY <1>2 DEF WorkingKey, BaseKey
  <2>2. i = idx_q => KeyRight(i)'
    BY <1>2, <1>5, <1>7, <2>1 DEF KeyRight
  <2>3. i < idx_q => KeyRight(i)' /\ SubkeyRight(i)'
    BY <1>2, <1>4, <1>5, <2>1 DEF AtDerive, KeyRight, SubkeyRight
  <2>4. QED
    BY <1>5, <2>2, <2>3
<1>9. aes_key' = key_q'[idx_q]
  BY <1>2, <1>5
<1>10. AtSubkey'
  BY <1>2, <1>4, <1>8, <1>9 DEF AtSubkey, AtDerive, BaseReqRight, BaseRspRight, RootTerm
<1>11. Progress'
  BY <1>2, <1>4, <1>10 DEF Progress
<1>12. ZeroizeLeavesNothing'
  BY <1>2, <1>4 DEF ZeroizeLeavesNothing
<1>13. QED
  BY <1>3, <1>6, <1>11, <1>12

\* The last subkey is there: the keys are ready.
LEMMA LastSubkeyInv ==
    ASSUME IInv, LastSubkey, UNCHANGED <<zeroizes, active_epoch, epoch_keys>>,
           Aes!Edge(aes_start, aes_key, aes_in)
    PROVE  IInv'
<1> USE DEF IInv
<1>1. kstate_q \in Deriving /\ aes_done /\ kstate_q = "K_SUBKEY" /\ idx_q = LastIdx
  BY DEF LastSubkey, Deriving
<1>2. /\ k1_q' = [k1_q EXCEPT ![NumRequesters] = dbl(aes_out)]
      /\ kstate_q' = "K_READY" /\ aes_start' = FALSE
      /\ UNCHANGED <<base_req_q, base_rsp_q, key_q, derived_epoch_q, idx_q, aes_key, aes_in, root>>
  BY DEF LastSubkey
<1>3. /\ aes_out = Aes!Encrypt(aes_key, aes_in)
      /\ CoreState'
  BY <1>1, <1>2, TakeResult
<1>4. root # NoRoot /\ AtSubkey
  BY <1>1 DEF Progress
<1>5. /\ NumRequesters \in KeyIdx /\ DOMAIN k1_q = KeyIdx
      /\ \A i \in KeyIdx : i \in Int /\ i <= NumRequesters
      /\ NumRequesters \in Nat
  BY ScheduleAssumption DEF TypeOK, KeyIdx
<1>6. TypeOK'
  BY <1>2, CoreEdge DEF TypeOK, KStates
<1>7. aes_key = key_q[NumRequesters]
  <2>1. CASE epoch_keys
    BY <1>1, <1>4, <2>1 DEF AtSubkey, LastIdx
  <2>2. CASE ~epoch_keys
    <3>1. idx_q = 1 /\ aes_key = base_rsp_q /\ KeyRight(NumRequesters)
      BY <1>1, <1>4, <1>5, <2>2 DEF AtSubkey, LastIdx
    <3>2. QED
      BY <1>4, <1>5, <2>2, <3>1, WorkingKeys DEF AtSubkey, KeyRight, BaseRspRight, RootTerm
  <2>3. QED
    BY <2>1, <2>2
<1>8. ASSUME NEW i \in KeyIdx
      PROVE  KeyRight(i)' /\ SubkeyRight(i)'
  <2>1. WorkingKey(root, i, derived_epoch_q)' = WorkingKey(root, i, derived_epoch_q)
    BY <1>2 DEF WorkingKey, BaseKey
  <2>2. KeyRight(i) /\ (i < NumRequesters => SubkeyRight(i))
    BY <1>1, <1>4, <1>5 DEF AtSubkey, LastIdx
  <2>3. KeyRight(i)'
    BY <1>2, <2>1, <2>2 DEF KeyRight
  <2>4. i < NumRequesters => SubkeyRight(i)'
    BY <1>2, <1>5, <2>2 DEF SubkeyRight
  <2>5. i = NumRequesters => SubkeyRight(i)'
    BY <1>2, <1>3, <1>4, <1>5, <1>7 DEF SubkeyRight, Subkey, AtSubkey
  <2>6. QED
    BY <1>5, <2>3, <2>4, <2>5
<1>9. Progress'
  BY <1>2, <1>4, <1>8 DEF Progress, AtReady, AtSubkey, BaseReqRight, BaseRspRight, RootTerm
<1>10. ZeroizeLeavesNothing'
  BY <1>2, <1>4 DEF ZeroizeLeavesNothing
<1>11. QED
  BY <1>3, <1>6, <1>9, <1>10

\* A subkey is there: the next working key follows or, without epochs, the subkey of
\* the responses.
LEMMA NextSubkeyInv ==
    ASSUME IInv, NextSubkey, UNCHANGED <<zeroizes, active_epoch, epoch_keys>>,
           Aes!Edge(aes_start, aes_key, aes_in)
    PROVE  IInv'
<1> USE DEF IInv
<1>1. kstate_q \in Deriving /\ aes_done /\ kstate_q = "K_SUBKEY" /\ idx_q # LastIdx
  BY DEF NextSubkey, Deriving
<1>2. /\ idx_q' = idx_q + 1 /\ aes_start' = TRUE
      /\ kstate_q' \in {"K_DERIVE", "K_SUBKEY"}
      /\ UNCHANGED <<base_req_q, base_rsp_q, key_q, derived_epoch_q, root>>
  BY <1>1 DEF NextSubkey, StartNextKey, StartResponseSubkey, StartAes
<1>3. /\ aes_out = Aes!Encrypt(aes_key, aes_in)
      /\ CoreState'
  BY <1>1, <1>2, TakeResult DEF Deriving
<1>4. root # NoRoot /\ AtSubkey
  BY <1>1 DEF Progress
<1>5. /\ idx_q \in KeyIdx /\ DOMAIN k1_q = KeyIdx
      /\ \A i \in KeyIdx : i \in Int /\ 0 <= i /\ i <= NumRequesters
      /\ NumRequesters \in Nat \ {0}
  BY ScheduleAssumption DEF TypeOK, KeyIdx
<1>6. idx_q + 1 \in KeyIdx
  <2>1. CASE epoch_keys
    BY <1>1, <1>5, <2>1 DEF LastIdx, KeyIdx
  <2>2. CASE ~epoch_keys
    BY <1>1, <1>4, <1>5, <2>2 DEF LastIdx, KeyIdx, AtSubkey
  <2>3. QED
    BY <2>1, <2>2
<1>7. ZeroizeLeavesNothing'
  BY <1>2, <1>4 DEF ZeroizeLeavesNothing
<1>8. BaseReqRight' /\ BaseRspRight'
  BY <1>2, <1>4 DEF AtSubkey, BaseReqRight, BaseRspRight, RootTerm
<1>9. ASSUME NEW i \in KeyIdx
      PROVE  WorkingKey(root, i, derived_epoch_q)' = WorkingKey(root, i, derived_epoch_q)
  BY <1>2 DEF WorkingKey, BaseKey
<1>10. CASE epoch_keys
  <2>1. /\ k1_q' = [k1_q EXCEPT ![idx_q] = dbl(aes_out)]
        /\ aes_key' = IF idx_q + 1 < NumRequesters THEN base_req_q ELSE base_rsp_q
        /\ aes_in' = kdf_block(idx_q + 1, derived_epoch_q)
        /\ kstate_q' = "K_DERIVE"
    BY <1>10 DEF NextSubkey, StartNextKey, StartAes
  <2>2. TypeOK'
    BY <1>2, <1>6, <2>1, CoreEdge DEF TypeOK, KStates
  <2>3. ASSUME NEW i \in KeyIdx, i < idx_q + 1
        PROVE  KeyRight(i)' /\ SubkeyRight(i)'
    <3>1. i <= idx_q /\ KeyRight(i)
      BY <1>4, <1>5, <1>10, <2>3 DEF AtSubkey
    <3>2. KeyRight(i)'
      BY <1>2, <1>9, <3>1 DEF KeyRight
    <3>3. i = idx_q => SubkeyRight(i)'
      BY <1>2, <1>3, <1>4, <1>5, <1>10, <2>1 DEF AtSubkey, SubkeyRight, Subkey
    <3>4. i < idx_q => SubkeyRight(i)'
      BY <1>2, <1>4, <1>5, <1>10, <2>1 DEF AtSubkey, SubkeyRight
    <3>5. QED
      BY <1>5, <3>1, <3>2, <3>3, <3>4
  <2>4. AtDerive'
    BY <1>2, <1>8, <1>10, <2>1, <2>3 DEF AtDerive
  <2>5. Progress'
    BY <1>2, <1>4, <2>1, <2>4 DEF Progress
  <2>6. QED
    BY <1>3, <1>7, <2>2, <2>5
<1>11. CASE ~epoch_keys
  <2>1. /\ k1_q' = [i \in KeyIdx |-> IF i < NumRequesters THEN dbl(aes_out) ELSE k1_q[i]]
        /\ aes_key' = base_rsp_q /\ aes_in' = Zero
        /\ kstate_q' = "K_SUBKEY"
    BY <1>1, <1>11 DEF NextSubkey, StartResponseSubkey, StartAes
  <2>2. TypeOK'
    BY <1>2, <1>6, <2>1, CoreEdge DEF TypeOK, KStates
  <2>3. idx_q = 0 /\ idx_q' = 1 /\ aes_key = base_req_q /\ aes_in = Zero
    BY <1>1, <1>2, <1>4, <1>11 DEF AtSubkey, LastIdx
  <2>4. ASSUME NEW i \in KeyIdx
        PROVE  KeyRight(i)' /\ (i < NumRequesters => SubkeyRight(i)')
    <3>1. KeyRight(i)'
      BY <1>2, <1>4, <1>9, <1>11 DEF AtSubkey, KeyRight
    <3>2. i < NumRequesters => key_q[i] = base_req_q
      BY <1>4, <1>11, WorkingKeys DEF AtSubkey, KeyRight, BaseReqRight, RootTerm
    <3>3. i < NumRequesters => SubkeyRight(i)'
      BY <1>2, <1>3, <2>1, <2>3, <3>2 DEF SubkeyRight, Subkey
    <3>4. QED
      BY <3>1, <3>3
  <2>5. AtSubkey'
    BY <1>2, <1>8, <1>11, <2>1, <2>3, <2>4 DEF AtSubkey
  <2>6. Progress'
    BY <1>2, <1>4, <2>1, <2>5 DEF Progress
  <2>7. QED
    BY <1>3, <1>7, <2>2, <2>6
<1>12. QED
  BY <1>10, <1>11

\* The epoch moved: the old keys are dropped.
LEMMA RekeyInv ==
    ASSUME IInv, Rekey, UNCHANGED <<zeroizes, active_epoch, epoch_keys>>,
           Aes!Edge(aes_start, aes_key, aes_in)
    PROVE  IInv'
<1> USE DEF IInv
<1>1. kstate_q = "K_READY" /\ epoch_keys
  BY DEF Rekey
<1>2. /\ key_q' = [i \in KeyIdx |-> Zero] /\ k1_q' = [i \in KeyIdx |-> Zero]
      /\ derived_epoch_q' = active_epoch /\ idx_q' = 0
      /\ aes_start' = TRUE /\ aes_key' = base_req_q /\ aes_in' = kdf_block(0, active_epoch)
      /\ kstate_q' = "K_DERIVE"
      /\ UNCHANGED <<base_req_q, base_rsp_q, root>>
  BY DEF Rekey, StartFirstKey, StartAes
<1>3. /\ ~aes_busy' /\ ~aes_done'
      /\ aes_round' \in 0 .. Rounds
      /\ aes_busy' <=> aes_round' # 0
  BY <1>1, CoreEdge DEF CoreState
<1>4. CoreState'
  BY <1>2, <1>3 DEF CoreState, CoreInStep, Deriving
<1>5. root # NoRoot /\ AtReady
  BY <1>1 DEF Progress
<1>6. 0 \in KeyIdx /\ 0 < NumRequesters /\ \A i \in KeyIdx : ~(i < 0)
  BY ScheduleAssumption DEF KeyIdx
<1>7. TypeOK'
  BY <1>2, <1>6, CoreEdge DEF TypeOK, KStates
<1>8. AtDerive'
  BY <1>1, <1>2, <1>5, <1>6 DEF AtDerive, AtReady, BaseReqRight, BaseRspRight, RootTerm
<1>9. Progress'
  BY <1>2, <1>5, <1>8 DEF Progress
<1>10. ZeroizeLeavesNothing'
  BY <1>2, <1>5 DEF ZeroizeLeavesNothing
<1>11. QED
  BY <1>4, <1>7, <1>9, <1>10

\* What the schedule holds stays right while its registers do, whatever the epoch input
\* and the core do.
LEMMA HeldRegisters ==
    ASSUME Progress, ZeroizeLeavesNothing,
           UNCHANGED <<kstate_q, base_req_q, base_rsp_q, key_q, k1_q, derived_epoch_q, idx_q,
                       aes_key, aes_in, root, epoch_keys>>
    PROVE  Progress' /\ ZeroizeLeavesNothing'
<1>1. \A i \in KeyIdx : KeyRight(i)' = KeyRight(i) /\ SubkeyRight(i)' = SubkeyRight(i)
  BY DEF KeyRight, SubkeyRight, Subkey, WorkingKey, BaseKey
<1>2. BaseReqRight' = BaseReqRight /\ BaseRspRight' = BaseRspRight /\ RootTerm' = RootTerm
  BY DEF BaseReqRight, BaseRspRight, RootTerm
<1>3. /\ AtBaseReq => AtBaseReq'
      /\ AtBaseRsp => AtBaseRsp'
  BY <1>2 DEF AtBaseReq, AtBaseRsp
<1>4. AtDerive => AtDerive'
  BY <1>1, <1>2 DEF AtDerive
<1>5. AtSubkey => AtSubkey'
  BY <1>1, <1>2 DEF AtSubkey
<1>6. AtReady => AtReady'
  BY <1>1, <1>2 DEF AtReady
<1>7. Progress'
  BY <1>3, <1>4, <1>5, <1>6 DEF Progress
<1>8. ZeroizeLeavesNothing'
  BY DEF ZeroizeLeavesNothing
<1>9. QED
  BY <1>7, <1>8

\* A cycle in which the schedule waits.
LEMMA HoldInv ==
    ASSUME IInv, Hold, UNCHANGED <<zeroizes, active_epoch, epoch_keys>>,
           Aes!Edge(aes_start, aes_key, aes_in)
    PROVE  IInv'
<1> USE DEF IInv
<1>1. /\ aes_start' = FALSE
      /\ UNCHANGED <<kstate_q, base_req_q, base_rsp_q, key_q, k1_q, derived_epoch_q, idx_q,
                     aes_key, aes_in, root>>
  BY DEF Hold
<1>2. TypeOK'
  <2>1. aes_start' \in BOOLEAN
    BY <1>1, Zenon
  <2>2. QED
    BY <1>1, <2>1, CoreEdge DEF TypeOK
<1>3. Progress' /\ ZeroizeLeavesNothing'
  BY <1>1, HeldRegisters
<1>4. /\ aes_round' \in 0 .. Rounds
      /\ aes_busy' <=> aes_round' # 0
      /\ aes_busy' => ~aes_done'
  BY CoreEdge
<1>5. kstate_q = "K_READY" => ~aes_busy'
  BY CoreEdge DEF CoreState
<1>6. kstate_q \in Deriving => CoreInStep'
  <2> SUFFICES ASSUME kstate_q \in Deriving PROVE CoreInStep'
    OBVIOUS
  <2>1. ~aes_done
    BY DEF Hold, Deriving
  <2>2. CASE aes_start
    BY <1>1, <2>1, <2>2, CoreEdge DEF CoreState, CoreInStep
  <2>3. CASE ~aes_start
    <3>1. aes_busy /\ aes_work = <<aes_key, aes_in>>
      BY <2>1, <2>3 DEF CoreState, CoreInStep
    <3>2. aes_work[1] = aes_key /\ aes_work[2] = aes_in
      BY <3>1
    <3>3. QED
      BY <1>1, <3>1, <3>2, CoreEdge DEF CoreInStep
  <2>4. QED
    BY <2>2, <2>3
<1>7. CoreState'
  BY <1>1, <1>4, <1>5, <1>6 DEF CoreState
<1>8. QED
  BY <1>2, <1>3, <1>7

\* A zeroize, in any state of the schedule and of the core.
LEMMA ZeroizeInv ==
    ASSUME IInv, Zeroize, UNCHANGED <<active_epoch, epoch_keys>>,
           Aes!Edge(aes_start, aes_key, aes_in)
    PROVE  IInv'
<1> USE DEF IInv
<1>1. /\ zeroizes' = zeroizes + 1 /\ zeroizes < MaxZeroizes
      /\ kstate_q' = "K_EMPTY" /\ root' = NoRoot
      /\ base_req_q' = Zero /\ base_rsp_q' = Zero
      /\ key_q' = [i \in KeyIdx |-> Zero] /\ k1_q' = [i \in KeyIdx |-> Zero]
      /\ aes_start' = FALSE /\ aes_key' = Zero /\ aes_in' = Zero
      /\ UNCHANGED <<derived_epoch_q, idx_q>>
  BY DEF Zeroize, WipeKeys
<1>2. TypeOK'
  <2>1. aes_start' \in BOOLEAN
    BY <1>1, Zenon
  <2>2. zeroizes' \in 0 .. MaxZeroizes
    BY <1>1, ScheduleAssumption DEF TypeOK
  <2>3. QED
    BY <1>1, <2>1, <2>2, CoreEdge DEF TypeOK, KStates
<1>3. CoreState'
  BY <1>1, CoreEdge DEF CoreState, Deriving
<1>4. Progress' /\ ZeroizeLeavesNothing'
  BY <1>1 DEF Progress, ZeroizeLeavesNothing
<1>5. QED
  BY <1>2, <1>3, <1>4

\* Every step preserves the inductive invariant.
LEMMA StepInv == IInv /\ [Next]_vars => IInv'
<1> SUFFICES ASSUME IInv, [Next]_vars PROVE IInv'
  OBVIOUS
<1>1. CASE ClockEdge
  <2>1. Aes!Edge(aes_start, aes_key, aes_in) /\ UNCHANGED <<active_epoch, epoch_keys>>
    BY <1>1 DEF ClockEdge
  <2>2. CASE Schedule
    BY <2>1, <2>2, LoadRootInv, BaseReqInv, BaseRspInv, DeriveInv, LastSubkeyInv, NextSubkeyInv,
       RekeyInv, HoldInv DEF Schedule
  <2>3. CASE Zeroize
    BY <2>1, <2>3, ZeroizeInv
  <2>4. QED
    BY <1>1, <2>2, <2>3 DEF ClockEdge
<1>2. CASE AdvanceEpoch
  <2>1. /\ UNCHANGED <<keyVars, coreVars, epoch_keys, root, zeroizes>>
        /\ active_epoch' = active_epoch + 1 /\ active_epoch < MaxEpoch
    BY <1>2 DEF AdvanceEpoch
  <2>2. TypeOK'
    <3>1. active_epoch' \in 0 .. MaxEpoch
      BY <2>1, ScheduleAssumption DEF IInv, TypeOK
    <3>2. QED
      BY <2>1, <3>1 DEF IInv, TypeOK, keyVars, coreVars
  <2>3. CoreState'
    BY <2>1 DEF IInv, CoreState, CoreInStep, keyVars, coreVars
  <2>4. Progress' /\ ZeroizeLeavesNothing'
    BY <2>1, HeldRegisters DEF IInv, keyVars
  <2>5. QED
    BY <2>2, <2>3, <2>4 DEF IInv
<1>3. CASE UNCHANGED vars
  <2>1. UNCHANGED <<keyVars, coreVars, active_epoch, epoch_keys, root, zeroizes>>
    BY <1>3 DEF vars
  <2>2. TypeOK' /\ CoreState'
    BY <2>1 DEF IInv, TypeOK, CoreState, CoreInStep, keyVars, coreVars
  <2>3. Progress' /\ ZeroizeLeavesNothing'
    BY <2>1, HeldRegisters DEF IInv, keyVars
  <2>4. QED
    BY <2>2, <2>3 DEF IInv
<1>4. QED
  BY <1>1, <1>2, <1>3 DEF Next

-----------------------------------------------------------------------------
(* The theorems.                                                             *)

\* The inductive invariant holds in every reachable state.
THEOREM Invariant == Spec => []IInv
<1>1. QED
  BY InitInv, StepInv, PTL DEF Spec

\* The registers of the schedule stay within their ranges; the index never leaves the
\* key file (vtf_key_schedule.sv, idx_q).
THEOREM TypeCorrect == Spec => []TypeOK
<1>1. IInv => TypeOK
  BY DEF IInv
<1>2. QED
  BY <1>1, Invariant, PTL

\* Keys that are offered are all of them the keys of the root last loaded and of the
\* active epoch, with their own subkeys (vtf_key_schedule.sv, ready_o).
THEOREM OfferedKeysAreRight == Spec => []KeysMatchRootAndEpoch
<1>1. IInv => KeysMatchRootAndEpoch
  <2> SUFFICES ASSUME IInv, ready_o
               PROVE  /\ root # NoRoot
                      /\ \A i \in KeyIdx : /\ key_o(i) = WorkingKey(root, i, active_epoch)
                                           /\ k1_o(i) = Subkey(key_o(i))
    BY DEF KeysMatchRootAndEpoch
  <2>1. kstate_q = "K_READY" /\ (epoch_keys => derived_epoch_q = active_epoch)
    BY DEF ready_o
  <2>2. root # NoRoot /\ AtReady
    BY <2>1 DEF IInv, Progress
  <2>3. ASSUME NEW i \in KeyIdx
        PROVE  /\ key_o(i) = WorkingKey(root, i, active_epoch)
               /\ k1_o(i) = Subkey(key_o(i))
    <3>1. key_o(i) = key_q[i] /\ k1_o(i) = k1_q[i]
      BY DEF key_o, k1_o
    <3>2. WorkingKey(root, i, derived_epoch_q) = WorkingKey(root, i, active_epoch)
      BY <2>1, WorkingKeys
    <3>3. QED
      BY <2>2, <3>1, <3>2 DEF AtReady, KeyRight, SubkeyRight
  <2>4. QED
    BY <2>2, <2>3
<1>2. QED
  BY <1>1, Invariant, PTL

\* From a zeroize to the next load no register of the schedule holds a key
\* (vtf_key_schedule.sv, zeroize_i).
THEOREM ZeroizeWipes == Spec => []ZeroizeLeavesNothing
<1>1. IInv => ZeroizeLeavesNothing
  BY DEF IInv
<1>2. QED
  BY <1>1, Invariant, PTL

-----------------------------------------------------------------------------
(* The refinement.                                                           *)

\* Every step of the schedule is a step of the abstract key store or leaves it unchanged.
LEMMA StepSimulated ==
    ASSUME IInv, [Next]_vars
    PROVE  [Store!Next]_<<Store!keyStoreVars, epoch_keys>>
<1> USE DEF IInv
<1>1. derived_epoch_q \in 0 .. MaxEpoch /\ kstate_q \in KStates
  BY DEF TypeOK
<1>2. derived_epoch_q # -1 /\ active_epoch # -1
  BY ScheduleAssumption DEF TypeOK
<1>3. CASE ClockEdge
  <2>1. UNCHANGED <<active_epoch, epoch_keys>>
    BY <1>3 DEF ClockEdge
  <2>2. ASSUME NEW rt \in Roots, LoadRoot(rt)
        PROVE  Store!Next
    <3>1. Store!Load(rt)
      BY <2>1, <2>2 DEF LoadRoot, Store!Load
    <3>2. QED
      BY <2>1, <3>1 DEF Store!Next
  <2>3. CASE BaseReq \/ Derive \/ NextSubkey \/ Hold
    <3>1. UNCHANGED <<root, derived_epoch_q>>
      BY <2>3 DEF BaseReq, Derive, NextSubkey, Hold
    <3>2. CASE BaseReq
      BY <2>1, <3>1, <3>2 DEF BaseReq, Store!keyStoreVars
    <3>3. CASE Derive
      BY <2>1, <3>1, <3>3 DEF Derive, Store!keyStoreVars
    <3>4. CASE NextSubkey
      BY <2>1, <3>1, <3>4 DEF NextSubkey, Store!keyStoreVars
    <3>5. CASE Hold
      BY <2>1, <3>1, <3>5 DEF Hold, Store!keyStoreVars
    <3>6. QED
      BY <2>3, <3>2, <3>3, <3>4, <3>5
  <2>4. CASE BaseRsp
    <3>1. Store!BindEpoch
      BY <2>1, <2>4 DEF BaseRsp, Store!BindEpoch, Store!NoEpoch
    <3>2. QED
      BY <2>1, <3>1 DEF Store!Next
  <2>5. CASE LastSubkey
    <3>1. Store!Finish
      BY <1>2, <2>1, <2>5 DEF LastSubkey, Store!Finish, Store!NoEpoch
    <3>2. QED
      BY <2>1, <3>1 DEF Store!Next
  <2>6. CASE Rekey
    <3>1. Store!Rekey
      BY <2>1, <2>6 DEF Rekey, Store!Rekey
    <3>2. QED
      BY <2>1, <3>1 DEF Store!Next
  <2>7. CASE Zeroize
    <3>1. Store!Zeroize
      BY <2>1, <2>7 DEF Zeroize, Store!Zeroize, Store!NoEpoch
    <3>2. QED
      BY <2>1, <3>1 DEF Store!Next
  <2>8. QED
    BY <1>3, <2>2, <2>3, <2>4, <2>5, <2>6, <2>7 DEF ClockEdge, Schedule
<1>4. CASE AdvanceEpoch
  <2>1. Store!AdvanceEpoch /\ UNCHANGED epoch_keys
    BY <1>4 DEF AdvanceEpoch, keyVars, Store!AdvanceEpoch
  <2>2. QED
    BY <2>1 DEF Store!Next
<1>5. CASE UNCHANGED vars
  BY <1>5 DEF vars, keyVars, Store!keyStoreVars
<1>6. QED
  BY <1>3, <1>4, <1>5 DEF Next

\* The schedule implements the abstract key store: keys exist only after a load, belong to
\* one root and one epoch, are withdrawn when the epoch moves and destroyed by a zeroize.
THEOREM Refinement == Spec => ImplementsKeyStore
<1>1. Init => Store!Init
  BY DEF Init, Store!Init, Store!NoEpoch
<1>2. IInv /\ [Next]_vars => [Store!Next]_<<Store!keyStoreVars, epoch_keys>>
  BY StepSimulated
<1>3. QED
  BY <1>1, <1>2, Invariant, PTL DEF Spec, ImplementsKeyStore, Store!Spec
=============================================================================
