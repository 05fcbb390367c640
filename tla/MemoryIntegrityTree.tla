-------------------------- MODULE MemoryIntegrityTree --------------------------
(***************************************************************************)
(* The memory encryption and integrity tree engine (hardware_3d/rtl/        *)
(* memory_integrity_tree.sv) over its untrusted storage                     *)
(* (mit_untrusted_store.sv).                                                *)
(*                                                                          *)
(* A step is one rising clock edge of the engine, its AES core, its CMAC    *)
(* unit and the storage.  The storage is outside the trust boundary: any    *)
(* read of it may return anything that was ever stored in it, or junk,      *)
(* instead of what is there.  Ciphertexts, MACs and tree nodes are terms.   *)
(***************************************************************************)
EXTENDS Integers

CONSTANTS
    D,              \* levels of the tree; BLOCKS is 2^D
    Used,           \* blocks the requester uses
    Words,          \* the plaintext of its n-th request, if that is a write: the engine
                    \* looks at no plaintext, so that distinct ones are enough
    KeySets,        \* key sets init_i may load
    CtrMax,         \* the last value of a write counter: 2^32 - 1 in the code
    Rounds,         \* see Aes128Core
    CmacCycles,     \* see CmacUnit
    MaxOps,         \* bound: requests taken
    MaxEvents       \* bound: init and zeroize pulses and false reads, together

Blocks == 0 .. 2 ^ D - 1
NoKeys == "none"
ZeroWord == "zero"
JunkWord == "junk"      \* what decryption with another keystream gives

ASSUME MitAssumption ==
    /\ D \in Nat /\ D >= 2
    /\ Used \subseteq Blocks
    /\ NoKeys \notin KeySets
    /\ \A n \in 1 .. MaxOps : Words[n] \notin {ZeroWord, JunkWord}
    /\ CtrMax \in Nat \ {0}
    /\ MaxOps \in Nat /\ MaxEvents \in Nat

\* A tag of the CMAC unit takes longer than one run of the AES core: it is two of them.
ASSUME LatencyAssumption ==
    /\ Rounds \in Nat \ {0}
    /\ CmacCycles \in Nat /\ CmacCycles >= Rounds

VARIABLES
    state_q,
    key_q,          \* the key set loaded (k_enc_q, k_mac_q, k_tree_q), or NoKeys
    k1_tree_q, k1_mac_q,
    root_q, tamper_q,
    op,             \* the request registers: write, blk, wdata, ct, mac, ctr, old_ctr
    h_q, lvl_q, bj_q, pass2_q,
    sib_q, newnode_q,
    ks_q, ks_valid_q,
    new_ct_q, new_mac_q,
    rsp_q,          \* rsp_status_q, rsp_rdata_q
    aes_busy, aes_done, aes_out, aes_round, aes_work,
    cmac,
    data,           \* storage: ct, mac and ctr, per block
    node,           \* storage: tree nodes, by <<level, index>>
    seen,           \* history: everything ever stored: ct, mac, node
    truth,          \* history: the last word written to each block since init
    reused,         \* history: a key set was loaded again
    loaded,         \* history: key sets loaded so far
    interrupted,    \* history: init_i was raised while the engine was busy
    ops, pulses, lies       \* history: requests; init and zeroize pulses; false reads

opVars == <<op, h_q, lvl_q, pass2_q, sib_q, newnode_q, new_ct_q, new_mac_q>>
keyVars == <<key_q, k1_tree_q, k1_mac_q>>
aesVars == <<aes_busy, aes_done, aes_out, aes_round, aes_work>>
storeVars == <<data, node, seen>>
ghostVars == <<truth, reused, loaded, interrupted, ops, pulses, lies>>
vars == <<state_q, keyVars, root_q, tamper_q, opVars, bj_q, ks_q, ks_valid_q, rsp_q,
          aesVars, cmac, storeVars, ghostVars>>

Aes == INSTANCE Aes128Core
         WITH busy_o <- aes_busy, done_o <- aes_done, result_o <- aes_out,
              round_q <- aes_round, work_q <- aes_work
Cmac == INSTANCE CmacUnit

MitStates == {"S_EMPTY", "S_K1T", "S_K1M", "S_BUILD", "S_BUILD_W", "S_IDLE", "S_PATH",
              "S_PATH_W", "S_DMAC", "S_DMAC_W", "S_COMMIT", "S_RESP"}

-----------------------------------------------------------------------------
(* Terms.                                                                    *)

Zero == Aes!Zero
Junk == <<"junk">>
dbl(x) == <<"dbl", x>>
leaf(i, c) == <<"leaf", i, c>>
ks_block(b, c) == <<"ctrk", b, c>>

enc_key == <<"enc", key_q>>
mac_key == <<"mac", key_q>>
tree_key == <<"tree", key_q>>

\* XOR with a keystream: of a word, the ciphertext; of a ciphertext made with the
\* same keystream, the word.
encrypt(w, ks) == <<"ct", w, ks>>
decrypt(ct, ks) == IF ct # Zero /\ ct[1] = "ct" /\ ct[3] = ks THEN ct[2] ELSE JunkWord

\* Mutant of dmac_msg: the MAC does not bind the address.
dmac_msg_unbound(ct, b, c) == <<ct, c>>

dmac_msg(ct, b, c) == <<ct, b, c>>

\* The bump of a write counter, in its width.
bump(c) == (c + 1) % (CtrMax + 1)

idx_q == op.blk \div 2 ^ lvl_q
sibling(i) == IF i % 2 = 0 THEN i + 1 ELSE i - 1

-----------------------------------------------------------------------------
(* Untrusted storage.                                                        *)

NodeAddrs == UNION {{l} \X (0 .. 2 ^ (D - l) - 1) : l \in 1 .. D - 1}
EmptyBlock == [ct |-> Zero, mac |-> Zero, ctr |-> 0]

EventLeft == pulses + lies < MaxEvents

\* What a read may return: what is stored or a lie.
BlockReads(b) ==
    {data[b]} \union (IF EventLeft THEN [ct : seen.ct \union {Junk}, mac : seen.mac \union {Junk},
                                     ctr : 0 .. CtrMax]
                               ELSE {})
CtrReads(b) == {data[b].ctr} \union (IF EventLeft THEN 0 .. CtrMax ELSE {})
NodeReads(a) == {node[a]} \union (IF EventLeft THEN seen.node \union {Junk} ELSE {})

Honest(got, there) == lies' = IF got = there THEN lies ELSE lies + 1

ClearStore ==
    /\ data' = [b \in Blocks |-> EmptyBlock]
    /\ node' = [a \in NodeAddrs |-> Zero]
    /\ UNCHANGED seen

Store(newData, a, v) ==
    /\ data' = newData
    /\ node' = [node EXCEPT ![a] = v]
    /\ seen' = [ct   |-> seen.ct \union {newData[b].ct : b \in Blocks},
                mac  |-> seen.mac \union {newData[b].mac : b \in Blocks},
                node |-> seen.node \union {v}]

\* Mutant of commit_addr: the path is not shifted to the level.
commit_addr_unshifted == <<lvl_q, op.blk % 2 ^ (D - lvl_q)>>

commit_addr == <<lvl_q, op.blk \div 2 ^ lvl_q>>

\* The write port: a finished node of the fresh tree; in S_COMMIT a node of the
\* new path, and the block with the first.
StorePort ==
    CASE state_q = "S_BUILD_W" /\ cmac.done /\ lvl_q < D -> Store(data, <<lvl_q, bj_q>>, cmac.tag)
      [] state_q = "S_COMMIT" ->
            Store(IF lvl_q = 1
                  THEN [data EXCEPT ![op.blk] = [ct |-> new_ct_q, mac |-> new_mac_q, ctr |-> op.ctr]]
                  ELSE data,
                  commit_addr, newnode_q[lvl_q - 1])
      [] OTHER -> UNCHANGED storeVars

-----------------------------------------------------------------------------
(* The engines.                                                              *)

NoAes == Aes!Edge(FALSE, Zero, Zero)
NoCmac == Cmac!UnitEdge(FALSE, Zero, Zero, FALSE)
StartCmac(key, k1, msg) == Cmac!UnitEdge(TRUE, <<key, k1>>, msg, FALSE)

\* The keystream register takes every AES result that is not a subkey.
TakeKeystream ==
    IF aes_done /\ state_q \notin {"S_K1T", "S_K1M"}
    THEN ks_q' = aes_out /\ ks_valid_q' = TRUE
    ELSE UNCHANGED <<ks_q, ks_valid_q>>

-----------------------------------------------------------------------------
(* States.  Each action is one branch of the always_ff block together with   *)
(* the wires the same state drives.                                          *)

Hold == UNCHANGED <<state_q, keyVars, root_q, tamper_q, opVars, bj_q, rsp_q, ghostVars>>

Waiting ==
    /\ \/ state_q \in {"S_EMPTY", "S_IDLE"}
       \/ state_q \in {"S_BUILD_W", "S_PATH_W", "S_DMAC_W"} /\ ~cmac.done
       \/ state_q \in {"S_BUILD", "S_PATH"} /\ Cmac!busy_o
    /\ Hold
    /\ NoAes /\ NoCmac

\* The AES core outside a request: started for the subkeys when it is free.
SubkeyStart ==
    LET deriving == state_q \in {"S_K1T", "S_K1M"}
    IN Aes!Edge(deriving /\ ~aes_busy /\ ~aes_done,
                IF state_q = "S_K1T" THEN tree_key ELSE mac_key, Zero)

\* The two subkeys are the next two results of the core.
Subkeys ==
    /\ state_q \in {"S_K1T", "S_K1M"}
    /\ SubkeyStart
    /\ \/ /\ ~aes_done
          /\ UNCHANGED <<state_q, k1_tree_q, k1_mac_q, lvl_q, bj_q>>
       \/ /\ aes_done /\ state_q = "S_K1T"
          /\ k1_tree_q' = dbl(aes_out)
          /\ state_q' = "S_K1M"
          /\ UNCHANGED <<k1_mac_q, lvl_q, bj_q>>
       \/ /\ aes_done /\ state_q = "S_K1M"
          /\ k1_mac_q' = dbl(aes_out)
          /\ lvl_q' = 1 /\ bj_q' = 0
          /\ state_q' = "S_BUILD"
          /\ UNCHANGED k1_tree_q
    /\ NoCmac
    /\ UNCHANGED <<key_q, root_q, tamper_q, op, h_q, pass2_q, sib_q, newnode_q, new_ct_q, new_mac_q,
                   rsp_q, ghostVars>>

\* The CMAC unit is given a node of the fresh tree, from two leaves or from two
\* stored nodes.
BuildStart ==
    LET a == <<lvl_q - 1, 2 * bj_q>>
        b == <<lvl_q - 1, 2 * bj_q + 1>>
    IN \/ /\ lvl_q = 1
          /\ StartCmac(tree_key, k1_tree_q, <<leaf(2 * bj_q, 0), leaf(2 * bj_q + 1, 0)>>)
          /\ UNCHANGED lies
       \/ /\ lvl_q > 1
          /\ \E x \in NodeReads(a), y \in NodeReads(b) :
                /\ StartCmac(tree_key, k1_tree_q, <<x, y>>)
                /\ Honest(<<x, y>>, <<node[a], node[b]>>)

Build ==
    /\ state_q = "S_BUILD"
    /\ ~Cmac!busy_o
    /\ BuildStart
    /\ state_q' = "S_BUILD_W"
    /\ NoAes
    /\ UNCHANGED <<keyVars, root_q, tamper_q, opVars, bj_q, rsp_q,
                   truth, reused, loaded, interrupted, ops, pulses>>

last_in_level == 2 ^ (D - lvl_q) - 1

Built ==
    /\ state_q = "S_BUILD_W"
    /\ cmac.done
    /\ \/ /\ lvl_q = D
          /\ root_q' = cmac.tag
          /\ state_q' = "S_IDLE"
          /\ UNCHANGED <<lvl_q, bj_q>>
       \/ /\ lvl_q < D
          /\ IF bj_q = last_in_level
             THEN bj_q' = 0 /\ lvl_q' = lvl_q + 1
             ELSE bj_q' = bj_q + 1 /\ UNCHANGED lvl_q
          /\ state_q' = "S_BUILD"
          /\ UNCHANGED root_q
    /\ NoAes /\ NoCmac
    /\ UNCHANGED <<keyVars, tamper_q, op, h_q, pass2_q, sib_q, newnode_q, new_ct_q, new_mac_q,
                   rsp_q, ghostVars>>

\* Mutant of KeystreamStart: the core is started for writes only.
KeystreamStart_write_only(q, c) ==
    Aes!Edge(q.write, enc_key, ks_block(q.blk, IF q.write THEN bump(c) ELSE c))

\* The keystream is computed while the path is verified, for the counter just read.
KeystreamStart(q, c) ==
    Aes!Edge(TRUE, enc_key, ks_block(q.blk, IF q.write THEN bump(c) ELSE c))

\* A request: counter, ciphertext and MAC are latched in the cycle it is taken.
Accept(q) ==
    /\ state_q = "S_IDLE"
    /\ \E d \in BlockReads(q.blk) :
          /\ op' = [write |-> q.write, blk |-> q.blk, wdata |-> q.wdata,
                    ct |-> d.ct, mac |-> d.mac, ctr |-> d.ctr, old_ctr |-> d.ctr]
          /\ h_q' = leaf(q.blk, d.ctr)
          /\ KeystreamStart(q, d.ctr)
          /\ Honest(d, data[q.blk])
    /\ lvl_q' = 0
    /\ pass2_q' = FALSE
    /\ ks_q' = IF aes_done THEN aes_out ELSE ks_q
    /\ ks_valid_q' = FALSE
    /\ state_q' = "S_PATH"
    /\ ops' = ops + 1
    /\ NoCmac
    /\ UNCHANGED <<keyVars, root_q, tamper_q, sib_q, newnode_q, new_ct_q, new_mac_q, bj_q, rsp_q,
                   truth, reused, loaded, interrupted, pulses>>

\* path_sib, as it may be read and as it is: in the first pass from the storage,
\* in the second from the cache.
PathSibs ==
    LET i == sibling(idx_q)
    IN IF pass2_q THEN {sib_q[lvl_q]}
       ELSE IF lvl_q = 0 THEN {leaf(i, c) : c \in CtrReads(i)}
       ELSE NodeReads(<<lvl_q, i>>)
StoredSib ==
    LET i == sibling(idx_q)
    IN IF pass2_q THEN sib_q[lvl_q]
       ELSE IF lvl_q = 0 THEN leaf(i, data[i].ctr)
       ELSE node[<<lvl_q, i>>]

PathStart(s) ==
    /\ StartCmac(tree_key, k1_tree_q, IF idx_q % 2 = 1 THEN <<s, h_q>> ELSE <<h_q, s>>)
    /\ Honest(s, StoredSib)

\* One level of the path; the sibling used in the first pass is cached.
Path ==
    /\ state_q = "S_PATH"
    /\ ~Cmac!busy_o
    /\ \E s \in PathSibs :
          /\ PathStart(s)
          /\ sib_q' = [sib_q EXCEPT ![lvl_q] = s]
    /\ state_q' = "S_PATH_W"
    /\ NoAes
    /\ UNCHANGED <<keyVars, root_q, tamper_q, op, h_q, lvl_q, pass2_q, newnode_q, new_ct_q, new_mac_q,
                   bj_q, rsp_q, truth, reused, loaded, interrupted, ops, pulses>>

Respond(status, word) ==
    /\ rsp_q' = [status |-> status, rdata |-> word]
    /\ state_q' = "S_RESP"

PathUp ==
    /\ state_q = "S_PATH_W"
    /\ cmac.done
    /\ lvl_q < D - 1
    /\ lvl_q' = lvl_q + 1
    /\ state_q' = "S_PATH"
    /\ UNCHANGED <<root_q, tamper_q, op, rsp_q>>

\* Mutant of path_verified: a write does not verify the old path.
path_verified_reads_only == op.write \/ cmac.tag = root_q

path_verified == cmac.tag = root_q

\* The old path is complete: its root decides.
PathVerified ==
    /\ state_q = "S_PATH_W"
    /\ cmac.done
    /\ lvl_q = D - 1
    /\ ~pass2_q
    /\ \/ /\ ~path_verified
          /\ tamper_q' = TRUE
          /\ Respond("TAMPER", ZeroWord)
          /\ UNCHANGED op
       \/ /\ path_verified
          /\ op.write /\ op.old_ctr = CtrMax
          /\ Respond("EXHAUSTED", ZeroWord)
          /\ UNCHANGED <<op, tamper_q>>
       \/ /\ path_verified
          /\ op.write /\ op.old_ctr # CtrMax
          /\ op' = [op EXCEPT !.ctr = bump(op.old_ctr)]
          /\ state_q' = "S_DMAC"
          /\ UNCHANGED <<tamper_q, rsp_q>>
       \/ /\ path_verified
          /\ ~op.write /\ op.old_ctr = 0          \* never written
          /\ Respond("OK", ZeroWord)
          /\ UNCHANGED <<op, tamper_q>>
       \/ /\ path_verified
          /\ ~op.write /\ op.old_ctr # 0
          /\ state_q' = "S_DMAC"
          /\ UNCHANGED <<op, tamper_q, rsp_q>>
    /\ lvl_q' = 0
    /\ UNCHANGED root_q

\* The new path is complete: the root moves, before the storage does.
PathRecomputed ==
    /\ state_q = "S_PATH_W"
    /\ cmac.done
    /\ lvl_q = D - 1
    /\ pass2_q
    /\ root_q' = cmac.tag
    /\ lvl_q' = 1
    /\ state_q' = "S_COMMIT"
    /\ UNCHANGED <<tamper_q, op, rsp_q>>

PathDone ==
    /\ PathUp \/ PathVerified \/ PathRecomputed
    /\ h_q' = cmac.tag
    /\ newnode_q' = IF pass2_q THEN [newnode_q EXCEPT ![lvl_q] = cmac.tag] ELSE newnode_q
    /\ NoAes /\ NoCmac
    /\ UNCHANGED <<keyVars, pass2_q, sib_q, new_ct_q, new_mac_q, bj_q, ghostVars>>

DataCt == IF op.write THEN encrypt(op.wdata, ks_q) ELSE op.ct

\* The CMAC unit is started even while the keystream is not there.
DataMacStart ==
    Cmac!UnitEdge(~Cmac!busy_o, <<mac_key, k1_mac_q>>, dmac_msg(DataCt, op.blk, op.ctr), FALSE)

DataMac ==
    /\ state_q = "S_DMAC"
    /\ DataMacStart
    /\ LET go == ~Cmac!busy_o /\ ks_valid_q
       IN /\ new_ct_q' = IF go /\ op.write THEN DataCt ELSE new_ct_q
          /\ state_q' = IF go THEN "S_DMAC_W" ELSE "S_DMAC"
    /\ NoAes
    /\ UNCHANGED <<keyVars, root_q, tamper_q, op, h_q, lvl_q, pass2_q, sib_q, newnode_q, new_mac_q,
                   bj_q, rsp_q, ghostVars>>

DataMacDone ==
    /\ state_q = "S_DMAC_W"
    /\ cmac.done
    /\ \/ /\ op.write
          /\ new_mac_q' = cmac.tag
          /\ h_q' = leaf(op.blk, op.ctr)
          /\ pass2_q' = TRUE
          /\ state_q' = "S_PATH"
          /\ UNCHANGED <<tamper_q, rsp_q>>
       \/ /\ ~op.write /\ cmac.tag # op.mac
          /\ tamper_q' = TRUE
          /\ Respond("TAMPER", ZeroWord)
          /\ UNCHANGED <<new_mac_q, h_q, pass2_q>>
       \/ /\ ~op.write /\ cmac.tag = op.mac
          /\ Respond("OK", decrypt(op.ct, ks_q))
          /\ UNCHANGED <<tamper_q, new_mac_q, h_q, pass2_q>>
    /\ lvl_q' = 0
    /\ NoAes /\ NoCmac
    /\ UNCHANGED <<keyVars, root_q, op, sib_q, newnode_q, new_ct_q, bj_q, ghostVars>>

\* Nodes and data go to the storage, level by level.
Commit ==
    /\ state_q = "S_COMMIT"
    /\ \/ /\ lvl_q = D - 1
          /\ Respond("OK", ZeroWord)
          /\ truth' = [truth EXCEPT ![op.blk] = op.wdata]
          /\ UNCHANGED lvl_q
       \/ /\ lvl_q < D - 1
          /\ lvl_q' = lvl_q + 1
          /\ UNCHANGED <<state_q, rsp_q, truth>>
    /\ NoAes /\ NoCmac
    /\ UNCHANGED <<keyVars, root_q, tamper_q, op, h_q, pass2_q, sib_q, newnode_q, new_ct_q, new_mac_q,
                   bj_q, reused, loaded, interrupted, ops, pulses, lies>>

Responded ==
    /\ state_q = "S_RESP"
    /\ state_q' = "S_IDLE"
    /\ NoAes /\ NoCmac
    /\ UNCHANGED <<keyVars, root_q, tamper_q, opVars, bj_q, rsp_q, ghostVars>>

\* A request in the cycle of an init or a zeroize is lost, but starts the AES core.
LostRequest ==
    /\ state_q = "S_IDLE"
    /\ \E b \in Used, w \in BOOLEAN : KeystreamStart([write |-> w, blk |-> b], data[b].ctr)

\* init_i while busy loads nothing, but the state machine skips its cycle: the
\* engines are driven as ever, a done pulse of this cycle is not looked at.
BusyInit ==
    /\ state_q \notin {"S_EMPTY", "S_IDLE"}
    /\ EventLeft
    /\ pulses' = pulses + 1
    /\ interrupted' = TRUE
    /\ \/ state_q = "S_BUILD" /\ ~Cmac!busy_o /\ BuildStart
       \/ state_q = "S_PATH" /\ ~Cmac!busy_o /\ \E s \in PathSibs : PathStart(s)
       \/ state_q = "S_DMAC" /\ DataMacStart /\ UNCHANGED lies
       \/ /\ state_q \notin {"S_BUILD", "S_PATH", "S_DMAC"} \/ Cmac!busy_o
          /\ NoCmac
          /\ UNCHANGED lies
    /\ SubkeyStart
    /\ UNCHANGED <<state_q, keyVars, root_q, tamper_q, opVars, bj_q, rsp_q,
                   truth, reused, loaded, ops>>

\* init_i: keys are loaded and the storage cleared.
InitPulse(k) ==
    /\ state_q \in {"S_EMPTY", "S_IDLE"}
    /\ EventLeft
    /\ key_q' = k
    /\ tamper_q' = FALSE
    /\ state_q' = "S_K1T"
    /\ \/ NoAes
       \/ LostRequest
    /\ NoCmac
    /\ truth' = [b \in Blocks |-> ZeroWord]
    /\ pulses' = pulses + 1
    /\ loaded' = loaded \union {k}
    /\ reused' = (reused \/ k \in loaded)
    /\ UNCHANGED <<k1_tree_q, k1_mac_q, root_q, opVars, bj_q, rsp_q, interrupted, ops, lies>>

NoOp == [write |-> FALSE, blk |-> 0, wdata |-> ZeroWord, ct |-> Zero, mac |-> Zero, ctr |-> 0, old_ctr |-> 0]

\* zeroize_i: every register is cleared and the CMAC unit aborted; the AES core
\* goes on, and a start of this cycle still reaches it.  An init_i of this
\* cycle loads nothing, but clears the storage.
Zeroize ==
    /\ EventLeft
    /\ pulses' = pulses + 1
    /\ state_q' = "S_EMPTY"
    /\ key_q' = NoKeys /\ k1_tree_q' = Zero /\ k1_mac_q' = Zero
    /\ root_q' = Zero /\ tamper_q' = FALSE
    /\ op' = NoOp
    /\ h_q' = Zero /\ lvl_q' = 0 /\ bj_q' = 0 /\ pass2_q' = FALSE
    /\ sib_q' = [l \in 0 .. D - 1 |-> Zero]
    /\ newnode_q' = [l \in 0 .. D - 1 |-> Zero]
    /\ new_ct_q' = Zero /\ new_mac_q' = Zero
    /\ ks_q' = Zero /\ ks_valid_q' = FALSE
    /\ rsp_q' = [status |-> "OK", rdata |-> ZeroWord]
    /\ \/ SubkeyStart
       \/ LostRequest
    /\ Cmac!UnitEdge(FALSE, Zero, Zero, TRUE)
    /\ UNCHANGED <<truth, reused, loaded, interrupted, ops, lies>>

-----------------------------------------------------------------------------
(* Specification.                                                            *)

Init ==
    /\ state_q = "S_EMPTY"
    /\ key_q = NoKeys /\ k1_tree_q = Zero /\ k1_mac_q = Zero
    /\ root_q = Zero /\ tamper_q = FALSE
    /\ op = NoOp
    /\ h_q = Zero /\ lvl_q = 0 /\ bj_q = 0 /\ pass2_q = FALSE
    /\ sib_q = [l \in 0 .. D - 1 |-> Zero]
    /\ newnode_q = [l \in 0 .. D - 1 |-> Zero]
    /\ new_ct_q = Zero /\ new_mac_q = Zero
    /\ ks_q = Zero /\ ks_valid_q = FALSE
    /\ rsp_q = [status |-> "OK", rdata |-> ZeroWord]
    /\ Aes!ResetCore
    /\ Cmac!ResetUnit
    /\ data = [b \in Blocks |-> EmptyBlock]
    /\ node = [a \in NodeAddrs |-> Zero]
    /\ seen = [ct |-> {Zero}, mac |-> {Zero}, node |-> {Zero}]
    /\ truth = [b \in Blocks |-> ZeroWord]
    /\ reused = FALSE
    /\ loaded = {}
    /\ interrupted = FALSE
    /\ ops = 0 /\ pulses = 0 /\ lies = 0

Requests ==
    [write : {FALSE}, blk : Used, wdata : {ZeroWord}]
    \union [write : {TRUE}, blk : Used, wdata : {Words[ops + 1]}]

\* The branches of the state machine.
Step ==
    \/ Waiting
    \/ Subkeys \/ Build \/ Built
    \/ Path \/ PathDone
    \/ DataMac \/ DataMacDone
    \/ Commit \/ Responded

ClockEdge ==
    \/ Step /\ TakeKeystream /\ StorePort
    \/ ops < MaxOps /\ (\E q \in Requests : Accept(q)) /\ StorePort
    \/ (\E k \in KeySets : InitPulse(k)) /\ TakeKeystream /\ ClearStore
    \/ BusyInit /\ TakeKeystream /\ StorePort
    \/ Zeroize /\ StorePort
    \/ Zeroize /\ state_q \in {"S_EMPTY", "S_IDLE"} /\ ClearStore

\* The clock never stops.
Spec == Init /\ [][ClockEdge]_vars /\ WF_vars(ClockEdge)

-----------------------------------------------------------------------------
(* Properties.                                                               *)

\* A read that is answered OK returns the word last written to its block since
\* init, whatever the storage returned to the engine: splices, rollbacks and
\* replays of any part of the storage, in any cycle, are answered with TAMPER.
\* It needs key sets that are used for one init only.
ReadsAreFresh ==
    state_q = "S_RESP" /\ ~op.write /\ rsp_q.status = "OK" /\ ~reused =>
        rsp_q.rdata = truth[op.blk]

\* No two ciphertexts in the storage were made with the same keystream: false
\* counters never make the engine use a counter value twice for a block.
KeystreamOnce ==
    ~reused => \A c1, c2 \in seen.ct \ {Zero} : c1[3] = c2[3] => c1 = c2

\* As long as the storage tells the truth nothing is taken for tampering, also
\* when a zeroize comes in the middle of a request.
NoFalseTamper == lies = 0 => ~tamper_q

InFlight == state_q \in {"S_PATH", "S_PATH_W", "S_DMAC", "S_DMAC_W", "S_COMMIT"}

\* A request that was taken is answered, unless the engine is zeroized or an init
\* is raised while it is busy: no engine is waited for that was not started.
RequestAnswered == InFlight ~> (~InFlight \/ interrupted)

\* The tree is made with the CMAC subkey of the tree key ("node = CMAC_{K_tree}
\* (left || right)").
TreeUsesItsSubkey == state_q = "S_IDLE" => k1_tree_q = dbl(Aes!Encrypt(tree_key, Zero))

=============================================================================
