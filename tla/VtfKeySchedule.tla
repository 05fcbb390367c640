----------------------------- MODULE VtfKeySchedule -----------------------------
(***************************************************************************)
(* The VTF key schedule (hardware_3d/rtl/vtf_key_schedule.sv): it derives   *)
(* from the device root, with one AES core, a base key per direction, then  *)
(* a working key and its CMAC subkey for every requester and for the        *)
(* responses, and derives them again when the epoch changes.                *)
(***************************************************************************)
EXTENDS Integers, FiniteSets

CONSTANTS
    NumRequesters,  \* REQUESTERS; index NumRequesters is the response key
    Rounds,         \* AES rounds, see Aes128Core
    Roots,
    NoRoot,
    MaxEpoch,       \* bound: the epoch the environment stops at
    MaxZeroizes     \* bound: zeroize pulses since reset

ASSUME ScheduleAssumption ==
    /\ NumRequesters \in Nat \ {0}
    /\ Rounds \in Nat \ {0}
    /\ NoRoot \notin Roots
    /\ MaxEpoch \in Nat
    /\ MaxZeroizes \in Nat

VARIABLES
    kstate_q,
    base_req_q, base_rsp_q,
    key_q, k1_q,            \* working keys and their CMAC subkeys
    derived_epoch_q, idx_q,
    aes_start, aes_key, aes_in,
    aes_busy, aes_done, aes_out, aes_round, aes_work,
    active_epoch,           \* active_epoch_i
    epoch_keys,             \* EPOCH_KEYS, a parameter of the build: no step changes it
    root,                   \* history: the root last accepted, NoRoot after zeroize
    zeroizes                \* history: zeroize pulses so far

keyVars == <<kstate_q, base_req_q, base_rsp_q, key_q, k1_q, derived_epoch_q, idx_q,
             aes_start, aes_key, aes_in>>
coreVars == <<aes_busy, aes_done, aes_out, aes_round, aes_work>>
vars == <<keyVars, coreVars, active_epoch, epoch_keys, root, zeroizes>>

Aes == INSTANCE Aes128Core
         WITH busy_o <- aes_busy, done_o <- aes_done, result_o <- aes_out,
              round_q <- aes_round, work_q <- aes_work

Zero == Aes!Zero
KeyIdx == 0 .. NumRequesters
KStates == {"K_EMPTY", "K_BASE_REQ", "K_BASE_RSP", "K_DERIVE", "K_SUBKEY", "K_READY"}

REQ_DOMAIN == <<"VTFREQUESTK1">>
RSP_DOMAIN == <<"VTFRESPONSEK">>
kdf_block(i, e) == <<"VTFE", e, i>>
dbl(x) == <<"dbl", x>>

ready_o == kstate_q = "K_READY" /\ (epoch_keys => derived_epoch_q = active_epoch)
key_o(i) == IF ready_o THEN key_q[i] ELSE Zero
k1_o(i) == IF ready_o THEN k1_q[i] ELSE Zero

Init ==
    /\ kstate_q = "K_EMPTY"
    /\ base_req_q = Zero /\ base_rsp_q = Zero
    /\ key_q = [i \in KeyIdx |-> Zero]
    /\ k1_q = [i \in KeyIdx |-> Zero]
    /\ derived_epoch_q = 0 /\ idx_q = 0
    /\ aes_start = FALSE /\ aes_key = Zero /\ aes_in = Zero
    /\ Aes!ResetCore
    /\ active_epoch = 0
    /\ epoch_keys \in BOOLEAN
    /\ root = NoRoot
    /\ zeroizes = 0

-----------------------------------------------------------------------------
(* The states of the schedule.  Each is one branch of the always_ff block;   *)
(* StartAes is the pulse that hands the core its next block.                 *)

StartAes(key, block) ==
    /\ aes_start' = TRUE
    /\ aes_key' = key
    /\ aes_in' = block

\* Mutant of LoadRoot: a root is taken in any state.
LoadRoot_any_state(r) ==
    /\ ~aes_busy
    /\ StartAes(<<"root", r>>, REQ_DOMAIN)
    /\ kstate_q' = "K_BASE_REQ"
    /\ root' = r
    /\ UNCHANGED <<base_req_q, base_rsp_q, key_q, k1_q, derived_epoch_q, idx_q>>

\* Mutant of LoadRoot: the core may still be at work on the block before a zeroize.
LoadRoot_core_busy(r) ==
    /\ kstate_q = "K_EMPTY"
    /\ StartAes(<<"root", r>>, REQ_DOMAIN)
    /\ kstate_q' = "K_BASE_REQ"
    /\ root' = r
    /\ UNCHANGED <<base_req_q, base_rsp_q, key_q, k1_q, derived_epoch_q, idx_q>>

LoadRoot(r) ==
    /\ kstate_q = "K_EMPTY"
    /\ ~aes_busy
    /\ StartAes(<<"root", r>>, REQ_DOMAIN)
    /\ kstate_q' = "K_BASE_REQ"
    /\ root' = r
    /\ UNCHANGED <<base_req_q, base_rsp_q, key_q, k1_q, derived_epoch_q, idx_q>>

BaseReq ==
    /\ kstate_q = "K_BASE_REQ"
    /\ aes_done
    /\ base_req_q' = aes_out
    /\ StartAes(aes_key, RSP_DOMAIN)
    /\ kstate_q' = "K_BASE_RSP"
    /\ UNCHANGED <<base_rsp_q, key_q, k1_q, derived_epoch_q, idx_q, root>>

\* Mutant of StartFirstKey: the core is not started.
StartFirstKey_lost == aes_start' = FALSE /\ UNCHANGED <<aes_key, aes_in>>

StartFirstKey == StartAes(base_req_q, kdf_block(0, active_epoch))

\* Without epochs the base keys are the working keys.
SharedKeys == key_q' = [i \in KeyIdx |-> IF i < NumRequesters THEN base_req_q ELSE aes_out]

BaseRsp ==
    /\ kstate_q = "K_BASE_RSP"
    /\ aes_done
    /\ base_rsp_q' = aes_out
    /\ derived_epoch_q' = active_epoch
    /\ idx_q' = 0
    /\ \/ /\ epoch_keys
          /\ StartFirstKey
          /\ kstate_q' = "K_DERIVE"
          /\ UNCHANGED key_q
       \/ /\ ~epoch_keys
          /\ SharedKeys
          /\ StartAes(base_req_q, Zero)
          /\ kstate_q' = "K_SUBKEY"
    /\ UNCHANGED <<base_req_q, k1_q, root>>

Derive ==
    /\ kstate_q = "K_DERIVE"
    /\ aes_done
    /\ key_q' = [key_q EXCEPT ![idx_q] = aes_out]
    /\ StartAes(aes_out, Zero)
    /\ kstate_q' = "K_SUBKEY"
    /\ UNCHANGED <<base_req_q, base_rsp_q, k1_q, derived_epoch_q, idx_q, root>>

\* Mutant of LastIdx: one key too many.
LastIdx_plus_one == NumRequesters + 1

\* The index whose subkey ends the derivation.
LastIdx == IF epoch_keys THEN NumRequesters ELSE 1

StartNextKey ==
    StartAes(IF idx_q + 1 < NumRequesters THEN base_req_q ELSE base_rsp_q,
             kdf_block(idx_q + 1, derived_epoch_q))

StartResponseSubkey == StartAes(base_rsp_q, Zero)

LastSubkey ==
    /\ kstate_q = "K_SUBKEY"
    /\ aes_done
    /\ idx_q = LastIdx
    /\ k1_q' = [k1_q EXCEPT ![NumRequesters] = dbl(aes_out)]
    /\ kstate_q' = "K_READY"
    /\ aes_start' = FALSE
    /\ UNCHANGED <<base_req_q, base_rsp_q, key_q, derived_epoch_q, idx_q, aes_key, aes_in, root>>

NextSubkey ==
    /\ kstate_q = "K_SUBKEY"
    /\ aes_done
    /\ idx_q # LastIdx
    /\ idx_q' = idx_q + 1
    /\ \/ /\ epoch_keys
          /\ k1_q' = [k1_q EXCEPT ![idx_q] = dbl(aes_out)]
          /\ StartNextKey
          /\ kstate_q' = "K_DERIVE"
       \/ /\ ~epoch_keys
          /\ k1_q' = [i \in KeyIdx |-> IF i < NumRequesters THEN dbl(aes_out) ELSE k1_q[i]]
          /\ StartResponseSubkey
          /\ UNCHANGED kstate_q
    /\ UNCHANGED <<base_req_q, base_rsp_q, key_q, derived_epoch_q, root>>

\* The epoch advanced: the old keys are dropped and the new ones derived.
Rekey ==
    /\ kstate_q = "K_READY"
    /\ epoch_keys
    /\ active_epoch # derived_epoch_q
    /\ ~aes_busy
    /\ key_q' = [i \in KeyIdx |-> Zero]
    /\ k1_q' = [i \in KeyIdx |-> Zero]
    /\ derived_epoch_q' = active_epoch
    /\ idx_q' = 0
    /\ StartFirstKey
    /\ kstate_q' = "K_DERIVE"
    /\ UNCHANGED <<base_req_q, base_rsp_q, root>>

\* No branch applies; a root_load_i outside an idle K_EMPTY is lost here.
Hold ==
    /\ \/ kstate_q = "K_EMPTY"
       \/ kstate_q \in {"K_BASE_REQ", "K_BASE_RSP", "K_DERIVE", "K_SUBKEY"} /\ ~aes_done
       \/ kstate_q = "K_READY" /\ ~(epoch_keys /\ active_epoch # derived_epoch_q /\ ~aes_busy)
    /\ aes_start' = FALSE
    /\ UNCHANGED <<kstate_q, base_req_q, base_rsp_q, key_q, k1_q, derived_epoch_q, idx_q,
                   aes_key, aes_in, root>>

\* Mutant of WipeKeys: the base keys stay.
WipeKeys_keeps_base ==
    /\ key_q' = [i \in KeyIdx |-> Zero]
    /\ k1_q' = [i \in KeyIdx |-> Zero]
    /\ aes_start' = FALSE /\ aes_key' = Zero /\ aes_in' = Zero
    /\ UNCHANGED <<base_req_q, base_rsp_q>>

WipeKeys ==
    /\ base_req_q' = Zero /\ base_rsp_q' = Zero
    /\ key_q' = [i \in KeyIdx |-> Zero]
    /\ k1_q' = [i \in KeyIdx |-> Zero]
    /\ aes_start' = FALSE /\ aes_key' = Zero /\ aes_in' = Zero

\* zeroize_i: every key, subkey and base key is wiped; the core is not stopped.
Zeroize ==
    /\ zeroizes < MaxZeroizes
    /\ zeroizes' = zeroizes + 1
    /\ kstate_q' = "K_EMPTY"
    /\ WipeKeys
    /\ root' = NoRoot
    /\ UNCHANGED <<derived_epoch_q, idx_q>>

Schedule ==
    /\ \/ \E r \in Roots : LoadRoot(r)
       \/ BaseReq \/ BaseRsp \/ Derive \/ LastSubkey \/ NextSubkey
       \/ Rekey
       \/ Hold
    /\ UNCHANGED zeroizes

\* One clock edge of the schedule and of its AES core.
ClockEdge ==
    /\ Schedule \/ Zeroize
    /\ Aes!Edge(aes_start, aes_key, aes_in)
    /\ UNCHANGED <<active_epoch, epoch_keys>>

\* active_epoch_i moves between two edges.
AdvanceEpoch ==
    /\ active_epoch < MaxEpoch
    /\ active_epoch' = active_epoch + 1
    /\ UNCHANGED <<keyVars, coreVars, epoch_keys, root, zeroizes>>

Next == ClockEdge \/ AdvanceEpoch

\* The clock never stops.
Spec == Init /\ [][Next]_vars /\ WF_vars(ClockEdge)

-----------------------------------------------------------------------------
(* Reference derivation, from hardware_3d/scripts/vtf_reference.py.          *)

BaseKey(r, i) ==
    Aes!Encrypt(<<"root", r>>, IF i < NumRequesters THEN REQ_DOMAIN ELSE RSP_DOMAIN)

WorkingKey(r, i, e) ==
    IF epoch_keys THEN Aes!Encrypt(BaseKey(r, i), kdf_block(i, e)) ELSE BaseKey(r, i)

Subkey(k) == dbl(Aes!Encrypt(k, Zero))

-----------------------------------------------------------------------------
(* Properties.                                                               *)

TypeOK ==
    /\ kstate_q \in KStates
    /\ DOMAIN key_q = KeyIdx
    /\ DOMAIN k1_q = KeyIdx
    /\ derived_epoch_q \in 0 .. MaxEpoch
    /\ idx_q \in KeyIdx
    /\ aes_start \in BOOLEAN
    /\ aes_busy \in BOOLEAN
    /\ aes_done \in BOOLEAN
    /\ aes_round \in 0 .. Rounds
    /\ active_epoch \in 0 .. MaxEpoch
    /\ epoch_keys \in BOOLEAN
    /\ root \in Roots \union {NoRoot}
    /\ zeroizes \in 0 .. MaxZeroizes

\* Whenever keys are offered they are, all of them, the keys of the root that
\* was loaded and of the epoch that is active, each with its own CMAC subkey:
\* an epoch change, a zeroize or a reload in the middle of a derivation never
\* leaves a key of another epoch, of another root or of a stale AES result.
KeysMatchRootAndEpoch ==
    ready_o =>
        /\ root # NoRoot
        /\ \A i \in KeyIdx : /\ key_o(i) = WorkingKey(root, i, active_epoch)
                             /\ k1_o(i) = Subkey(key_o(i))

\* After a zeroize no register of the schedule holds a key, until the next load
\* ("zeroize_i wipes the root copy and every derived key and subkey").  The AES core's
\* own registers, which a zeroize leaves alone, are not among them.
ZeroizeLeavesNothing ==
    root = NoRoot =>
        /\ base_req_q = Zero /\ base_rsp_q = Zero /\ aes_key = Zero
        /\ \A i \in KeyIdx : key_q[i] = Zero /\ k1_q[i] = Zero

\* Once a root is accepted the keys become ready, unless they are zeroized: the
\* schedule never waits for an AES result that does not come.
KeysBecomeReady == kstate_q # "K_EMPTY" ~> (ready_o \/ kstate_q = "K_EMPTY")

\* The schedule implements the abstract key store.
Store == INSTANCE KeyStore
           WITH phase <- CASE kstate_q = "K_EMPTY" -> "EMPTY"
                           [] kstate_q = "K_READY" -> "READY"
                           [] OTHER -> "DERIVING",
                epoch <- IF kstate_q \in {"K_DERIVE", "K_SUBKEY", "K_READY"}
                         THEN derived_epoch_q ELSE -1

\* Every step of the schedule is a step of the abstract key store or leaves it
\* unchanged.
ImplementsKeyStore == Store!Spec

=============================================================================
