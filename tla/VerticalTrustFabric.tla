-------------------------- MODULE VerticalTrustFabric --------------------------
(***************************************************************************)
(* The software Vertical Trust Fabric (src/vertical_trust_fabric.h): it     *)
(* signs requests to the layers of a stack, checks what arrives, executes   *)
(* it and signs the answer.  Requests travel: one may arrive late, twice,   *)
(* out of order, altered or not at all, and the host may change keys,       *)
(* epoch, roles or the memory itself while some are in flight.              *)
(*                                                                          *)
(* A CMAC is the pair of its key and the message it covers; a derived key   *)
(* is the term of its derivation.  The counters and the temperatures, which  *)
(* the fabric keeps and never reads, are left out.                          *)
(***************************************************************************)
EXTENDS StackedMemory3D, FiniteSetsExt, SequencesExt

CONSTANTS
    Targets,            \* the layers and addresses requests name
    RoleChanges,        \* the layers and roles of setTierRole
    Temperatures,       \* readings and thresholds, in mC
    SENTINEL_COUNT,
    MaxEpoch,           \* bound: 2^32 - 1 in the code
    Scenarios           \* bounds: the stack's shape, who issues requests, and how many
                        \* steps of each kind are taken

ALLREQ == {"CPU_FETCH", "CPU_DATA", "SECURITY", "DMA", "DEBUG"}
INVALIDREQ == "COUNT"       \* a value of the enumeration that is no requester
Roles == {"INSTRUCTION", "DATA", "KEY_METADATA", "SENTINEL"}

ASSUME FabricAssumption ==
    /\ \A s \in Scenarios : /\ s.who \subseteq ALLREQ \cup {INVALIDREQ}
                           /\ s.layers \in Nat /\ s.words \in Nat
    /\ SENTINEL_COUNT \in Nat

VARIABLES
    fab,            \* the object: see Blank
    issued,         \* every request issued so far
    answers,        \* every response so far
    sent,           \* history: requests of each requester since its counter was reset
    consumed,       \* history: those of them that took a sequence number at the fabric
    executed,       \* history: requests executed, with the word they really moved (of an
                    \* unreadable layer: the word the memory gave)
    reused,         \* history: a change of session or keys made valid again the tag of
                    \* a request of an earlier session
    cause,          \* history: since the reset, something may rightly lock the fabric
    clean,          \* history: the sentinels are as installed
    wiped,          \* history: key tiers emptied by a severe event and left alone since
    left            \* bounds: steps left of each kind

ghostVars == <<sent, consumed, executed, reused, cause>>
vars == <<memVars, fab, issued, answers, ghostVars, clean, wiped, left>>

-----------------------------------------------------------------------------
(* Keys and tags.                                                            *)

ReqDomain(root) == <<"req", root>>
RspDomain(root) == <<"rsp", root>>
Kdf(key, epoch, who) == <<"kdf", key, epoch, who>>
ZeroKey == <<"zero">>

deriveEpochKeys(f) ==
    [f EXCEPT !.epoch_req_key = [r \in ALLREQ |-> Kdf(f.req_key, f.epoch, r)],
              !.rsp_key = Kdf(f.base_rsp_key, f.epoch, "RSP0")]

\* Mutant of deriveDomainKeys: the epoch keys are not derived again
deriveDomainKeysOnly(f) ==
    [f EXCEPT !.req_key = ReqDomain(f.root_key), !.rsp_key = RspDomain(f.root_key),
              !.base_rsp_key = RspDomain(f.root_key)]

deriveDomainKeys(f) ==
    LET d == [f EXCEPT !.req_key = ReqDomain(f.root_key),
                       !.rsp_key = RspDomain(f.root_key),
                       !.base_rsp_key = RspDomain(f.root_key)]
    IN  IF f.epoch_keys_enabled THEN deriveEpochKeys(d) ELSE d

requestKey(f, r) ==
    IF f.epoch_keys_enabled /\ r \in ALLREQ THEN f.epoch_req_key[r] ELSE f.req_key

\* A mix of the four: nothing in the fabric recomputes it
makeRouteNonce(r, seq, l, epoch) == <<r, seq, l, epoch>>

\* Mutant of serializeRequest: the word to write is not covered by the tag
serializeRequestNoData(q) ==
    <<"VTF1", q.requester, q.operation, q.layer, q.addr, q.sequence, q.epoch, q.route_nonce>>

serializeRequest(q) ==
    <<"VTF1", q.requester, q.operation, q.layer, q.addr, q.data, q.sequence, q.epoch,
      q.route_nonce>>

\* Mutant of serializeResponse: the status is not covered by the tag
serializeResponseNoStatus(p) ==
    <<"VTF2", p.requester, p.operation, p.layer, p.addr, p.data, p.sequence, p.epoch,
      p.route_nonce>>

serializeResponse(p) ==
    <<"VTF2", p.requester, p.operation, p.layer, p.status, p.addr, p.data, p.sequence,
      p.epoch, p.route_nonce>>

signRequest(f, q) == [q EXCEPT !.tag = <<requestKey(f, q.requester), serializeRequest(q)>>]
signResponse(f, p) == [p EXCEPT !.tag = <<f.rsp_key, serializeResponse(p)>>]
requestTagValid(f, q) == signRequest(f, q).tag = q.tag

-----------------------------------------------------------------------------
(* Severe events.                                                            *)

policyAllows(f, q) ==
    LET role == f.roles[q.layer] IN
    CASE q.requester = "CPU_FETCH" -> q.operation = "READ" /\ role = "INSTRUCTION"
      [] q.requester \in {"CPU_DATA", "DMA"} -> role = "DATA"
      [] q.requester = "SECURITY" -> TRUE
      [] q.requester = "DEBUG" -> f.debug_unlocked /\ role \in {"INSTRUCTION", "DATA"}

KeyTiers(f, m) == {l \in Layers : isValidLayer(m, l) /\ f.roles[l] = "KEY_METADATA"}

\* Mutant of zeroizeCriticalTier: the emptied tier stays open
zeroizeCriticalTierOpen(f, m) ==
    IF ~f.zeroize_on_severe THEN m ELSE Emptied(m, KeyTiers(f, m))

zeroizeCriticalTier(f, m) ==
    IF ~f.zeroize_on_severe THEN m
    ELSE LET e == Emptied(m, KeyTiers(f, m))
         IN  [e EXCEPT !.access = [l \in Layers |-> @[l] /\ l \notin KeyTiers(f, m)]]

Tripped(f, reason) == [f EXCEPT !.last_reason = reason, !.lockdown = TRUE]

InvalidFields(m, q) ==
    q.requester \notin ALLREQ \/ ~isValidLayer(m, q.layer) \/ q.addr \notin Used(m)

\* Mutant of TakeSequence: a request that policy denies leaves its number
TakeSequenceIfAllowed(f, q) ==
    IF policyAllows(f, q) THEN [f EXCEPT !.rx_seq[q.requester] = q.sequence] ELSE f

TakeSequence(f, q) == [f EXCEPT !.rx_seq[q.requester] = q.sequence]

\* The check of a request: the fabric after it, whether it locked, whether to execute.
\* A request that policy denies has taken its sequence number all the same.
validateRequest(f, m, q) ==
    LET severe(reason) == [fab |-> Tripped(f, reason), trip |-> TRUE, ok |-> FALSE]
    IN  CASE f.lockdown ->
                [fab |-> [f EXCEPT !.last_reason = "LOCKDOWN"], trip |-> FALSE, ok |-> FALSE]
          [] ~f.lockdown /\ InvalidFields(m, q) -> severe("INVALID_FIELD")
          [] OTHER ->
               IF q.epoch # f.epoch THEN severe("EPOCH")
               ELSE IF ~requestTagValid(f, q) THEN severe("BAD_TAG")
               ELSE IF q.sequence # f.rx_seq[q.requester] + 1 THEN severe("REPLAY")
               ELSE IF ~policyAllows(f, q)
               THEN [fab |-> [TakeSequence(f, q) EXCEPT !.last_reason = "POLICY"],
                     trip |-> FALSE, ok |-> FALSE]
               ELSE [fab |-> [TakeSequence(f, q) EXCEPT !.last_reason = "NONE"],
                     trip |-> FALSE, ok |-> TRUE]

-----------------------------------------------------------------------------
(* Requests, answers, sentinels.                                             *)

NoTag == <<ZeroKey, <<>> >>

\* issueRead and issueWrite: a requester without a counter signs sequence 0
Request(f, r, op, l, a, w) ==
    LET seq == IF r \in ALLREQ THEN f.tx_seq[r] + 1 ELSE 0
    IN  signRequest(f, [requester |-> r, operation |-> op, layer |-> l, addr |-> a, data |-> w,
                        sequence |-> seq, epoch |-> f.epoch,
                        route_nonce |-> makeRouteNonce(r, seq, l, f.epoch), tag |-> NoTag])

Answer(f, q, status, w) ==
    signResponse(f, [requester |-> q.requester, operation |-> q.operation, layer |-> q.layer,
                     status |-> status, addr |-> q.addr, data |-> w, sequence |-> q.sequence,
                     epoch |-> q.epoch, route_nonce |-> q.route_nonce, tag |-> NoTag])

verifyResponse(f, p) == signResponse(f, p).tag = p.tag

verifyResponseForRequest(f, q, p) ==
    /\ verifyResponse(f, p)
    /\ \A x \in {"requester", "operation", "layer", "addr", "sequence", "epoch", "route_nonce"} :
          p[x] = q[x]

FirstSentinelTier(f, m) ==
    LET tiers == {l \in Layers : isValidLayer(m, l) /\ f.roles[l] = "SENTINEL"}
    IN  IF tiers = {} THEN MAX_LAYERS ELSE Min(tiers)

SentinelWord(f, l, a) == [base |-> <<"sentinel", f.req_key, f.epoch, l, a>>, mask |-> {}]

SentinelAddrs(m) == {m.num_words - 1 - i : i \in 0 .. SENTINEL_COUNT - 1}

\* Written with the access rules of any write, but compared raw
SentinelsDiffer(f, m) ==
    \E a \in DOMAIN f.sentinel : rawRead(m, FirstSentinelTier(f, m), a) # f.sentinel[a]

-----------------------------------------------------------------------------
(* Initial states.                                                           *)

Blank(root) ==
    [roles |-> [l \in Layers |-> <<"INSTRUCTION", "DATA", "KEY_METADATA", "SENTINEL">>[l + 1]],
     root_key |-> root, req_key |-> ZeroKey, rsp_key |-> ZeroKey, base_rsp_key |-> ZeroKey,
     epoch_keys_enabled |-> FALSE, epoch_req_key |-> [r \in ALLREQ |-> ZeroKey],
     tx_seq |-> [r \in ALLREQ |-> 0], rx_seq |-> [r \in ALLREQ |-> 0], epoch |-> 1,
     lockdown |-> FALSE, debug_unlocked |-> FALSE, zeroize_on_severe |-> TRUE,
     last_reason |-> "NONE", max_temperature |-> 90000,
     sentinel |-> <<>>, sentinels_installed |-> FALSE]

Built(root) == deriveDomainKeys(Blank(root))

NoneSent == [r \in ALLREQ |-> <<>>]

\* Whatever the sizes, the host has first written a word to every layer
Init ==
    /\ left \in Scenarios
    /\ LET root == CHOOSE r \in Roots : TRUE
           v    == CHOOSE x \in Values : TRUE
           m    == Constructed(left.layers, left.words, root)
       IN  /\ mem = [m EXCEPT !.memory = [l \in Layers |->
                         IF isValidLayer(m, l) THEN [@[l] EXCEPT ![0] = Const(v)] ELSE @[l]]]
           /\ fab = Built(root)
    /\ plain = mem.memory /\ lost = {} /\ stash = [l \in Layers |-> NoKey]
    /\ issued = {} /\ answers = {} /\ sent = NoneSent /\ consumed = NoneSent /\ executed = {}
    /\ reused = FALSE /\ cause = FALSE /\ clean = FALSE /\ wiped = {}

-----------------------------------------------------------------------------
(* The fabric's host.                                                        *)

Spend(kind) == left[kind] > 0 /\ left' = [left EXCEPT ![kind] = @ - 1]

Pending(r) == SubSeq(sent[r], Len(consumed[r]) + 1, Len(sent[r]))
Undelivered == UNION {ToSet(Pending(r)) : r \in ALLREQ}

TierUndisturbed ==
    LET t == FirstSentinelTier(fab, mem) IN
    /\ FirstSentinelTier(fab', mem') = t
    /\ \A a \in DOMAIN fab.sentinel : rawRead(mem', t, a) = rawRead(mem, t, a)

\* The memory and the history after a severe event
Zeroized ==
    LET kt == IF fab.zeroize_on_severe THEN KeyTiers(fab, mem) ELSE {} IN
    /\ mem' = zeroizeCriticalTier(fab, mem)
    /\ plain' = Emptied([mem EXCEPT !.memory = plain], kt).memory
    /\ lost' = lost \ kt
    /\ Forget(kt)
    /\ wiped' = wiped \cup kt

\* A request that is not of this session passes under the new keys
Reuse ==
    reused' = (reused \/ \E q \in issued :
                             /\ q.requester \in ALLREQ
                             /\ q \notin ToSet(sent'[q.requester])
                             /\ q.epoch = fab'.epoch /\ requestTagValid(fab', q))

\* Counters start again: requests issued before are late from now on
NewSession == sent' = NoneSent /\ consumed' = NoneSent /\ Reuse

resetProtocolState(f) ==
    [f EXCEPT !.lockdown = FALSE, !.last_reason = "NONE",
              !.tx_seq = [r \in ALLREQ |-> 0], !.rx_seq = [r \in ALLREQ |-> 0]]

AllAccess(m) == [m EXCEPT !.access = [l \in Layers |-> @[l] \/ isValidLayer(m, l)]]

resetProtocolStateForSimulation ==
    /\ Spend("control")
    /\ fab' = resetProtocolState(fab)
    /\ mem' = AllAccess(mem)
    /\ NewSession
    /\ cause' = FALSE /\ wiped' = {}
    /\ UNCHANGED <<plain, lost, stash, issued, answers, executed, clean>>

setRootKeyForSimulation ==
    /\ Spend("control")
    /\ \E root \in Roots :
          fab' = resetProtocolState(deriveDomainKeys([fab EXCEPT !.root_key = root]))
    /\ mem' = AllAccess(mem)
    /\ NewSession
    /\ cause' = FALSE /\ wiped' = {}
    /\ UNCHANGED <<plain, lost, stash, issued, answers, executed, clean>>

advanceEpoch ==
    /\ fab.epoch < MaxEpoch
    /\ Spend("control")
    /\ LET next == [fab EXCEPT !.epoch = @ + 1]
           keys == IF fab.epoch_keys_enabled THEN deriveEpochKeys(next) ELSE next
       IN  fab' = [keys EXCEPT !.tx_seq = [r \in ALLREQ |-> 0],
                               !.rx_seq = [r \in ALLREQ |-> 0]]
    /\ NewSession
    /\ UNCHANGED <<memVars, issued, answers, executed, cause, clean, wiped>>

setEpochKeyHierarchy ==
    /\ Spend("control")
    /\ \E enabled \in BOOLEAN :
          fab' = deriveDomainKeys([fab EXCEPT !.epoch_keys_enabled = enabled])
    /\ cause' = (cause \/ \E q \in Undelivered : ~requestTagValid(fab', q))
    /\ UNCHANGED <<memVars, issued, answers, sent, consumed, executed, clean, wiped>>
    /\ Reuse

Settings ==
    /\ Spend("control")
    /\ \/ \E x \in RoleChanges : fab' = [fab EXCEPT !.roles[x[1]] = x[2]]
       \/ fab' = [fab EXCEPT !.debug_unlocked = ~@]
       \/ fab' = [fab EXCEPT !.zeroize_on_severe = ~@]
       \/ \E t \in Temperatures : fab' = [fab EXCEPT !.max_temperature = IF t > 0 THEN t ELSE @]
    /\ UNCHANGED <<memVars, issued, answers, ghostVars, wiped>>
    /\ clean' = (clean /\ TierUndisturbed)

\* The memory may refuse every one of the words
installSentinels ==
    /\ Spend("control")
    /\ LET t == FirstSentinelTier(fab, mem) IN
       IF ~isValidLayer(mem, t) \/ mem.num_words < SENTINEL_COUNT
       THEN UNCHANGED <<memVars, fab, clean>>
       ELSE LET value == [a \in SentinelAddrs(mem) |-> SentinelWord(fab, t, a)]
                asPlain == [mem EXCEPT !.memory = plain,
                                       !.encrypted = [l \in Layers |-> FALSE]]
            IN  /\ mem' = writeAll(mem, t, value)
                /\ plain' = writeAll(asPlain, t, value).memory
                /\ fab' = [fab EXCEPT !.sentinel = value, !.sentinels_installed = TRUE]
                /\ clean' = (mem.access[t] /\ ~mem.encrypted[t])
                /\ IF SentinelAddrs(mem) \cap HidePositions = {} THEN UNCHANGED stash
                   ELSE Forget({t})
                /\ UNCHANGED lost
    /\ UNCHANGED <<issued, answers, ghostVars, wiped>>

verifySentinels ==
    /\ fab.sentinels_installed
    /\ isValidLayer(mem, FirstSentinelTier(fab, mem))
    /\ Spend("control")
    /\ IF SentinelsDiffer(fab, mem)
       THEN fab' = Tripped(fab, "SENTINEL") /\ Zeroized
       ELSE UNCHANGED <<fab, memVars, wiped>>
    /\ cause' = (cause \/ ~clean)
    /\ UNCHANGED <<issued, answers, sent, consumed, executed, reused, clean>>

updateTemperatureMilliC ==
    /\ Spend("control")
    /\ \E t \in Temperatures :
          /\ t > fab.max_temperature
          /\ fab' = Tripped(fab, "THERMAL")
    /\ Zeroized
    /\ cause' = TRUE
    /\ UNCHANGED <<issued, answers, sent, consumed, executed, reused, clean>>

reportPhysicalFault ==
    /\ Spend("control")
    /\ fab' = Tripped(fab, "PHYSICAL_FAULT")
    /\ Zeroized
    /\ cause' = TRUE
    /\ UNCHANGED <<issued, answers, sent, consumed, executed, reused, clean>>

-----------------------------------------------------------------------------
(* Traffic.                                                                  *)

Issue ==
    /\ Spend("issue")
    /\ \E r \in left.who, t \in Targets, op \in {"READ", "WRITE"}, v \in Values :
          LET q == Request(fab, r, op, t[1], t[2], IF op = "READ" THEN Zero ELSE Const(v)) IN
          /\ op = "READ" => v = CHOOSE x \in Values : TRUE
          /\ issued' = issued \cup {q}
          /\ IF r \in ALLREQ
             THEN fab' = [fab EXCEPT !.tx_seq[r] = @ + 1] /\ sent' = [sent EXCEPT ![r] = Append(@, q)]
             ELSE UNCHANGED <<fab, sent>>
    /\ UNCHANGED <<memVars, answers, consumed, executed, reused, cause, clean, wiped>>

\* What a read of a stack without AES would have returned
TrueRead(l, a) == IF mem.access[l] THEN plain[l][a] ELSE Ones

InOrder(q) == \E r \in ALLREQ : Pending(r) # <<>> /\ Head(Pending(r)) = q

execute(q) ==
    LET v == validateRequest(fab, mem, q)
        r == q.requester
    IN  /\ fab' = v.fab
        /\ IF v.trip THEN Zeroized
           ELSE /\ UNCHANGED wiped
                /\ IF v.ok /\ q.operation = "WRITE"
                   THEN /\ mem' = write(mem, q.layer, q.addr, q.data)
                        /\ Remember(mem, q.layer, q.addr, q.data)
                   ELSE UNCHANGED memVars
        /\ LET word == CASE ~v.ok -> Zero
                         [] v.ok /\ q.operation = "READ" -> read(mem, q.layer, q.addr)
                         [] v.ok /\ q.operation = "WRITE" -> q.data
               true == IF q.operation = "READ" /\ q.layer \notin lost
                       THEN TrueRead(q.layer, q.addr) ELSE word
           IN  /\ answers' = answers \cup {Answer(v.fab, q, IF v.ok THEN 1 ELSE 0, word)}
               /\ executed' = IF v.ok THEN executed \cup {<<q, true>>} ELSE executed
        /\ consumed' = IF fab' = fab \/ v.trip \/ fab.lockdown THEN consumed
                       ELSE [consumed EXCEPT ![r] = Append(@, q)]
        /\ cause' = (cause \/ ~InOrder(q) \/ InvalidFields(mem, q))
        /\ clean' = (clean /\ TierUndisturbed)
        /\ UNCHANGED <<issued, sent, reused>>

Deliver ==
    /\ Spend("deliver")
    /\ \E q \in issued : execute(q)

\* One field differs from what was signed
Altered(q) ==
    {[q EXCEPT !.layer = (@ + 1) % MAX_LAYERS], [q EXCEPT !.addr = (@ + 1) % mem.num_words],
     [q EXCEPT !.data = Ones], [q EXCEPT !.sequence = @ + 1], [q EXCEPT !.epoch = @ + 1],
     [q EXCEPT !.operation = IF @ = "READ" THEN "WRITE" ELSE "READ"],
     [q EXCEPT !.requester = IF @ = "SECURITY" THEN "DMA" ELSE "SECURITY"]}

DeliverAltered ==
    /\ Spend("alter")
    /\ \E q \in issued : \E x \in Altered(q) : execute(x)

-----------------------------------------------------------------------------
(* The memory's host, who may bypass the fabric.                             *)

UserKey == <<"user", "k">>

HostStep ==
    \/ \E l \in Layers, v \in Values : HostWrite(l, 0, Const(v))
    \/ \E l \in 0 .. MAX_LAYERS : HostEncrypt(l) \/ HostDecrypt(l) \/ HostScramble(l)
    \/ \E l \in Layers : HostScrambleWithKey(l, UserKey) \/ HostUnscrambleWithKey(l, UserKey)
    \/ HostObfuscate
    \/ \E root \in Roots : HostSetRoot(root)
    \/ \E l \in Layers, w \in {Zero} \cup {Const(v) : v \in Values} : HostCheckTamper(l, 0, w)
    \/ \E l \in Layers : HostResetCritical(<<l, MAX_LAYERS>>)
    \/ \E l \in Layers, lenOK \in BOOLEAN : HostHide(l, "K", lenOK)
    \/ \E l \in Layers : HostClear(l)
    \/ \E src \in Layers, dst \in Layers : HostCopy(src, dst)
    \/ HostAddLayers(1)
    \/ HostSettings

Host ==
    /\ Spend("host")
    /\ HostStep
    /\ UNCHANGED <<fab, issued, answers, ghostVars>>
    /\ clean' = (clean /\ TierUndisturbed)
    /\ wiped' = {l \in wiped : mem'.memory[l] = mem.memory[l] /\ mem'.access[l] = mem.access[l]}

Next ==
    \/ Host
    \/ resetProtocolStateForSimulation \/ setRootKeyForSimulation \/ advanceEpoch
    \/ setEpochKeyHierarchy \/ Settings \/ installSentinels \/ verifySentinels
    \/ updateTemperatureMilliC \/ reportPhysicalFault
    \/ Issue \/ Deliver \/ DeliverAltered

Spec == Init /\ [][Next]_vars

-----------------------------------------------------------------------------
(* Properties.                                                               *)

\* Whatever the host and the fabric did, and in whichever order layers were encrypted,
\* written through, masked, copied and decrypted, a word reads as it would in a stack
\* without AES, unless a change of keys or masks made the encrypted layer unreadable.
EncryptionIsTransparent ==
    \A l \in Layers \ lost : isValidLayer(mem, l) =>
        \A a \in Used(mem) :
            LET seen == IF mem.access[l] THEN plain[l][a] ELSE Ones IN
            /\ logicalReadNoAccessCheck(mem, l, a) = plain[l][a]
            /\ protectedRead(mem, l, a) = seen
            /\ mem.processing_layer = l => readProcessing(mem, a) = seen

\* A key hidden in a layer is still there after any obfuscation, encryption or
\* decryption, as long as nothing was written over it and the layer had room for it.
HiddenKeySurvives ==
    HidePositions \subseteq Used(mem) =>
        \A l \in Layers \ lost : stash[l] # NoKey /\ ~mem.encrypted[l] =>
            extractKeyFromLayer(mem, l) = stash[l]

\* The requests of a requester that take a sequence number are a prefix of those it
\* issued, in the order it issued them: none twice, none altered, none skipped.
\* Only a reset with the same keys and epoch, or a switch of the key hierarchy back to
\* the keys of an earlier session, lets an old request pass again.
InOrderExactlyOnce ==
    ~reused => \A r \in ALLREQ : IsPrefix(consumed[r], sent[r])

\* An answer that verifies for a request of the present session and says it was done is
\* true: that very request was executed, and a read returned what the stack then held
\* (unless a change of keys had made the layer unreadable).
AcknowledgedMeansExecuted ==
    ~reused =>
        \A q \in UNION {ToSet(sent[r]) : r \in ALLREQ}, p \in answers :
            \A x \in {p, [p EXCEPT !.status = 1], [p EXCEPT !.data = Ones]} :
                verifyResponseForRequest(fab, q, x) /\ x.status = 1 => <<q, x.data>> \in executed

\* After any sequence of root, epoch and hierarchy changes the working keys are those
\* the key schedule derives from the present root and epoch.
KeysFollowRootAndEpoch ==
    LET req == <<"req", fab.root_key>>
        rsp == <<"rsp", fab.root_key>>
    IN  IF fab.epoch_keys_enabled
        THEN /\ fab.rsp_key = <<"kdf", rsp, fab.epoch, "RSP0">>
             /\ \A r \in ALLREQ : requestKey(fab, r) = <<"kdf", req, fab.epoch, r>>
        ELSE fab.rsp_key = rsp /\ \A r \in ALLREQ : requestKey(fab, r) = req

\* A key tier emptied by a severe event stays empty and closed until the reset,
\* whatever requests arrive and whatever roles and sentinels the host sets up.
KeyTierStaysWiped ==
    \A l \in wiped : ~mem.access[l] /\ \A a \in Used(mem) : rawRead(mem, l, a) = Zero

\* Traffic in order and unaltered, policy denials included, never locks the fabric.
NoFalseAlarm == fab.lockdown => cause
=============================================================================
