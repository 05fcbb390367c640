------------------------------ MODULE FabricProofs ------------------------------
(***************************************************************************)
(* Proofs about the software Vertical Trust Fabric, for every stack, every  *)
(* set of requesters and every number of steps: the working keys follow     *)
(* root and epoch, requests are taken in order and once, traffic in order   *)
(* never locks the fabric, and a wiped key tier stays wiped.                *)
(*                                                                          *)
(* The invariant relates the fabric's counters to the requests sent and     *)
(* taken (Session), and says which issued requests pass its checks: those   *)
(* of the present session only, unless keys came back (Fresh).              *)
(*                                                                          *)
(* The second part is about the words of the stack below: whatever is       *)
(* encrypted reads as if it were not, a hidden key stays, and an answer     *)
(* that verifies tells the truth.  Its invariant gives the contents of      *)
(* every readable layer in terms of the stack without AES: the same words,  *)
(* or block by block their encryption under the layer's key and mask (Seen).*)
(***************************************************************************)
EXTENDS VerticalTrustFabric, SequenceTheorems, WellFoundedInduction, TLAPS

-----------------------------------------------------------------------------
(* The methods of the stack, for every size and content: each keeps the     *)
(* shape of the object, and its number of words.                             *)

MemFields == {"num_layers", "num_words", "memory", "access", "encrypted", "hidden", "keys",
              "root", "tamper_detected", "lockdown", "tamper_events", "processing_layer"}

\* The object is a stack of layers of words.
IsMem(m) ==
    /\ DOMAIN m = MemFields
    /\ m.num_layers \in Nat /\ m.num_layers <= MAX_LAYERS
    /\ m.num_words \in Nat /\ m.num_words <= MAX_WORDS
    /\ DOMAIN m.memory = Layers /\ \A l \in Layers : DOMAIN m.memory[l] = Addrs
    /\ m.access \in [Layers -> BOOLEAN]
    /\ m.encrypted \in [Layers -> BOOLEAN]
    /\ m.hidden \in [Layers -> BOOLEAN]
    /\ DOMAIN m.keys = Layers

\* A method leaves an object of the same width.
Keeps(m, n) == IsMem(n) /\ n.num_words = m.num_words

LEMMA ValidLayers ==
    ASSUME NEW m, IsMem(m), NEW l, isValidLayer(m, l)
    PROVE  l \in Layers
BY StackAssumption DEF IsMem, isValidLayer, Layers

LEMMA UsedAddrs ==
    ASSUME NEW m, IsMem(m)
    PROVE  Used(m) \subseteq Addrs
BY StackAssumption DEF IsMem, Used, Addrs

\* The words of one layer are replaced.
WithWords(m, l, ws) == [m EXCEPT !.memory[l] = ws]

LEMMA LayerReplaced ==
    ASSUME NEW m, IsMem(m), NEW l \in Layers, NEW ws, DOMAIN ws = Addrs
    PROVE  /\ Keeps(m, WithWords(m, l, ws))
           /\ WithWords(m, l, ws).memory = [m.memory EXCEPT ![l] = ws]
           /\ \A x \in MemFields \ {"memory"} : WithWords(m, l, ws)[x] = m[x]
BY DEF IsMem, Keeps, MemFields, WithWords

\* Layers emptied: the methods that clear words also clear the flags.
LEMMA EmptiedIs ==
    ASSUME NEW m, IsMem(m), NEW ls,
           NEW n, n = Emptied(m, ls)
    PROVE  /\ Keeps(m, n)
           /\ n.memory = [l \in Layers |-> IF l \in ls THEN ZeroWords(m, m.memory[l])
                                           ELSE m.memory[l]]
           /\ n.encrypted = [l \in Layers |-> m.encrypted[l] /\ l \notin ls]
           /\ n.hidden = [l \in Layers |-> m.hidden[l] /\ l \notin ls]
           /\ \A x \in MemFields \ {"memory", "encrypted", "hidden"} : n[x] = m[x]
BY DEF IsMem, Keeps, MemFields, Emptied, ZeroWords

LEMMA WriteKeeps ==
    ASSUME NEW m, IsMem(m), NEW l, NEW a, NEW w
    PROVE  /\ Keeps(m, write(m, l, a, w))
           /\ \A x \in MemFields \ {"memory"} : write(m, l, a, w)[x] = m[x]
           /\ \A x \in Layers : ~m.access[x] => write(m, l, a, w).memory[x] = m.memory[x]
<1>1. CASE ~isValidLayer(m, l) \/ a \notin Used(m) \/ ~m.access[l]
  BY <1>1 DEF write, Keeps
<1>2. CASE ~(~isValidLayer(m, l) \/ a \notin Used(m) \/ ~m.access[l])
  <2>1. l \in Layers /\ a \in Addrs /\ m.access[l]
    BY <1>2, ValidLayers, UsedAddrs
  <2>2. PICK ws : /\ DOMAIN ws = Addrs
                  /\ write(m, l, a, w) = WithWords(m, l, ws)
    <3>1. CASE ~m.encrypted[l]
      <4>1. write(m, l, a, w) = WithWords(m, l, [m.memory[l] EXCEPT ![a] = w])
        BY <1>2, <3>1 DEF write, WithWords
      <4>2. DOMAIN [m.memory[l] EXCEPT ![a] = w] = Addrs
        BY <2>1 DEF IsMem
      <4>3. QED
        BY <4>1, <4>2
    <3>2. CASE m.encrypted[l]
      BY <1>2, <3>2 DEF write, WithWords
    <3>3. QED
      BY <3>1, <3>2
  <2>3. /\ Keeps(m, write(m, l, a, w))
        /\ write(m, l, a, w).memory = [m.memory EXCEPT ![l] = ws]
        /\ \A x \in MemFields \ {"memory"} : write(m, l, a, w)[x] = m[x]
    BY <2>1, <2>2, LayerReplaced
  <2>4. QED
    BY <2>1, <2>3 DEF IsMem
<1>3. QED
  BY <1>1, <1>2

LEMMA WriteAllKeeps ==
    ASSUME NEW m, IsMem(m), NEW l, NEW ws
    PROVE  /\ Keeps(m, writeAll(m, l, ws))
           /\ \A x \in MemFields \ {"memory"} : writeAll(m, l, ws)[x] = m[x]
           /\ \A x \in Layers : ~m.access[x] => writeAll(m, l, ws).memory[x] = m.memory[x]
           /\ isValidLayer(m, l) /\ m.access[l] /\ ~m.encrypted[l] =>
                 \A a \in DOMAIN ws \cap Used(m) : writeAll(m, l, ws).memory[l][a] = ws[a]
<1>1. CASE ~isValidLayer(m, l) \/ ~m.access[l]
  BY <1>1 DEF writeAll, Keeps
<1>2. CASE isValidLayer(m, l) /\ m.access[l]
  <2>1. l \in Layers
    BY <1>2, ValidLayers
  <2> DEFINE view == [a \in Addrs |-> IF a \in DOMAIN ws \cap Used(m) THEN ws[a]
                                      ELSE logicalReadNoAccessCheck(m, l, a)]
             E(b) == aes_encrypt_block(m.keys[l], XorAll(b, CafeKey(l)))
             new == [a \in Addrs |-> IF a \notin Used(m) THEN m.memory[l][a]
                                     ELSE IF ~m.encrypted[l] THEN view[a]
                                     ELSE E(BlockAt(view, a))[InBlock(a)]]
  <2>2. /\ writeAll(m, l, ws) = WithWords(m, l, new)
        /\ DOMAIN new = Addrs
    BY <1>2 DEF writeAll, WithWords
  <2>5. ~m.encrypted[l] => \A a \in DOMAIN ws \cap Used(m) : new[a] = ws[a]
    BY UsedAddrs
  <2> HIDE DEF new
  <2>3. /\ Keeps(m, writeAll(m, l, ws))
        /\ writeAll(m, l, ws).memory = [m.memory EXCEPT ![l] = new]
        /\ \A x \in MemFields \ {"memory"} : writeAll(m, l, ws)[x] = m[x]
    BY <2>1, <2>2, LayerReplaced
  <2>4. QED
    BY <1>2, <2>1, <2>2, <2>3, <2>5 DEF IsMem
<1>3. QED
  BY <1>1, <1>2

LEMMA AddLayersKeeps ==
    ASSUME NEW m, IsMem(m), NEW count \in Nat
    PROVE  Keeps(m, addLayers(m, count))
<1> DEFINE requested == IF m.num_layers + count > MAX_LAYERS
                        THEN MAX_LAYERS ELSE m.num_layers + count
           new == m.num_layers .. requested - 1
<1>1. PICK e : e = Emptied(m, new)
  OBVIOUS
<1>2. Keeps(m, e)
  BY <1>1, EmptiedIs
<1>3. requested \in Nat /\ requested <= MAX_LAYERS
  BY StackAssumption DEF IsMem
<1>4. addLayers(m, count) = [e EXCEPT !.access = [l \in Layers |-> e.access[l] \/ l \in new],
                                      !.num_layers = requested]
  BY <1>1 DEF addLayers
<1> HIDE DEF requested, new
<1>5. QED
  BY <1>2, <1>3, <1>4 DEF Keeps, IsMem, MemFields

LEMMA ScrambleKeeps ==
    ASSUME NEW m, IsMem(m), NEW l, NEW key
    PROVE  /\ Keeps(m, unscrambleLayerWithKey(m, l, key))
           /\ Keeps(m, scrambleLayerWithKey(m, l, key))
           /\ Keeps(m, scrambleLayer(m, l))
           /\ scrambleLayerWithKey(m, l, key).encrypted = m.encrypted
<1>1. \A k : DOMAIN OnUsed(m, m.memory[l], k) = Addrs
  BY DEF OnUsed
<1>2. isValidLayer(m, l) => l \in Layers
  BY ValidLayers
<1>3. ASSUME NEW k, l \in Layers
      PROVE  /\ Keeps(m, WithWords(m, l, OnUsed(m, m.memory[l], k)))
             /\ WithWords(m, l, OnUsed(m, m.memory[l], k)).encrypted = m.encrypted
  <2>1. "encrypted" \in MemFields \ {"memory"}
    BY DEF MemFields
  <2>2. PICK ws : ws = OnUsed(m, m.memory[l], k)
    OBVIOUS
  <2>3. DOMAIN ws = Addrs /\ l \in Layers
    BY <1>1, <1>3, <2>2
  <2>4. /\ Keeps(m, WithWords(m, l, ws))
        /\ WithWords(m, l, ws).memory = [m.memory EXCEPT ![l] = ws]
        /\ \A x \in MemFields \ {"memory"} : WithWords(m, l, ws)[x] = m[x]
    BY <2>3, LayerReplaced
  <2>5. WithWords(m, l, ws).encrypted = m.encrypted
    BY <2>1, <2>4
  <2>6. QED
    BY <2>2, <2>4, <2>5
<1>4. Keeps(m, m)
  BY DEF Keeps
<1>5. QED
  BY <1>2, <1>3, <1>4
     DEF unscrambleLayerWithKey, scrambleLayerWithKey, scrambleLayer, WithWords

LEMMA EncryptKeeps ==
    ASSUME NEW m, IsMem(m), NEW l
    PROVE  Keeps(m, encryptLayer(m, l)) /\ Keeps(m, decryptLayer(m, l))
<1>1. CASE ~isValidLayer(m, l)
  BY <1>1 DEF encryptLayer, decryptLayer, Keeps
<1>2. CASE isValidLayer(m, l)
  <2>1. l \in Layers
    BY <1>2, ValidLayers
  <2>2. Keeps(m, encryptLayer(m, l))
    <3>1. PICK s : s = scrambleLayerWithKey(m, l, CafeKey(l))
      OBVIOUS
    <3>2. Keeps(m, s)
      BY <3>1, ScrambleKeeps
    <3>3. CASE m.encrypted[l]
      BY <3>3 DEF encryptLayer, Keeps
    <3>4. CASE ~m.encrypted[l]
      <4> DEFINE E(b) == aes_encrypt_block(m.keys[l], b)
                 ws == ByBlock(m, s.memory[l], E)
      <4>1. /\ encryptLayer(m, l) = [s EXCEPT !.memory[l] = ws, !.encrypted[l] = TRUE]
            /\ DOMAIN ws = Addrs
        BY <1>2, <3>1, <3>4 DEF encryptLayer, ByBlock
      <4> HIDE DEF ws
      <4>2. QED
        BY <2>1, <3>2, <4>1 DEF Keeps, IsMem, MemFields
    <3>5. QED
      BY <3>3, <3>4
  <2>3. Keeps(m, decryptLayer(m, l))
    <3>1. CASE ~m.encrypted[l]
      BY <3>1 DEF decryptLayer, Keeps
    <3>2. CASE m.encrypted[l]
      <4> DEFINE D(b) == aes_decrypt_block(m.keys[l], b)
                 ws == ByBlock(m, m.memory[l], D)
      <4>1. /\ DOMAIN ws = Addrs
            /\ decryptLayer(m, l) = [unscrambleLayerWithKey(WithWords(m, l, ws), l, CafeKey(l))
                                        EXCEPT !.encrypted[l] = FALSE]
        BY <1>2, <3>2 DEF decryptLayer, ByBlock, WithWords
      <4> HIDE DEF ws
      <4>2. PICK d : d = WithWords(m, l, ws)
        OBVIOUS
      <4>3. PICK u : u = unscrambleLayerWithKey(d, l, CafeKey(l))
        OBVIOUS
      <4>4. Keeps(m, d)
        BY <2>1, <4>1, <4>2, LayerReplaced
      <4>5. Keeps(m, u)
        BY <4>3, <4>4, ScrambleKeeps DEF Keeps
      <4>6. decryptLayer(m, l) = [u EXCEPT !.encrypted[l] = FALSE]
        BY <4>1, <4>2, <4>3
      <4>7. QED
        BY <2>1, <4>5, <4>6 DEF Keeps, IsMem, MemFields
    <3>3. QED
      BY <3>1, <3>2
  <2>4. QED
    BY <2>2, <2>3
<1>3. QED
  BY <1>1, <1>2

LEMMA TamperKeeps ==
    ASSUME NEW m, IsMem(m), NEW l, NEW a, NEW w, NEW ls
    PROVE  /\ Keeps(m, checkTamper(m, l, a, w))
           /\ Keeps(m, autoResetCritical(m, ls))
           /\ Keeps(m, lockSecurity(m)) /\ Keeps(m, clearSecurityLockdown(m))
           /\ Keeps(m, clearLayer(m, l))
<1>3. \A n : IsMem(n) => Keeps(n, autoReset(n))
  <2> SUFFICES ASSUME NEW n, IsMem(n) PROVE Keeps(n, autoReset(n))
    OBVIOUS
  <2>1. PICK e : e = Emptied(n, {x \in Layers : isValidLayer(n, x)})
    OBVIOUS
  <2>2. Keeps(n, e)
    BY <2>1, EmptiedIs
  <2>3. autoReset(n) = [e EXCEPT !.lockdown = TRUE]
    BY <2>1 DEF autoReset
  <2>4. QED
    BY <2>2, <2>3 DEF Keeps, IsMem, MemFields
<1>4. Keeps(m, checkTamper(m, l, a, w))
  <2>1. PICK t : t = [m EXCEPT !.tamper_detected = TRUE, !.lockdown = TRUE,
                               !.tamper_events = m.tamper_events + 1]
    OBVIOUS
  <2>2. Keeps(m, t)
    BY <2>1 DEF Keeps, IsMem, MemFields
  <2>3. checkTamper(m, l, a, w) = m \/ checkTamper(m, l, a, w) = autoReset(t)
    BY <2>1 DEF checkTamper
  <2>4. QED
    BY <1>3, <2>2, <2>3 DEF Keeps
<1>5. Keeps(m, autoResetCritical(m, ls))
  <2>1. autoResetCritical(m, ls) = m \/
          \E es, y, z : autoResetCritical(m, ls) =
                           [Emptied(m, es) EXCEPT !.tamper_events = z, !.lockdown = y]
    BY DEF autoResetCritical
  <2>2. CASE autoResetCritical(m, ls) = m
    BY <2>2 DEF Keeps
  <2>3. CASE autoResetCritical(m, ls) # m
    <3>1. PICK es, y, z : autoResetCritical(m, ls) =
                             [Emptied(m, es) EXCEPT !.tamper_events = z, !.lockdown = y]
      BY <2>1, <2>3
    <3>2. PICK e : e = Emptied(m, es)
      OBVIOUS
    <3>3. Keeps(m, e)
      BY <3>2, EmptiedIs
    <3>4. QED
      BY <3>1, <3>2, <3>3 DEF Keeps, IsMem, MemFields
  <2>4. QED
    BY <2>2, <2>3
<1>6. Keeps(m, lockSecurity(m)) /\ Keeps(m, clearSecurityLockdown(m))
  BY DEF lockSecurity, clearSecurityLockdown, Keeps, IsMem, MemFields
<1>7. Keeps(m, clearLayer(m, l))
  <2>1. PICK e : e = Emptied(m, {l})
    OBVIOUS
  <2>2. Keeps(m, e)
    BY <2>1, EmptiedIs
  <2>3. QED
    BY <2>1, <2>2 DEF clearLayer, Keeps
<1>8. QED
  BY <1>4, <1>5, <1>6, <1>7

LEMMA OthersKeep ==
    ASSUME NEW m, IsMem(m), NEW l, NEW d, NEW b \in BOOLEAN, NEW k, NEW lenOK
    PROVE  /\ Keeps(m, setHardwareRootKey(m, k))
           /\ Keeps(m, hardwareObfuscate(m))
           /\ Keeps(m, hideKeyInLayer(m, l, k, lenOK))
           /\ Keeps(m, enableProcessingLayer(m, l)) /\ Keeps(m, clearProcessingLayer(m))
           /\ Keeps(m, setLayerAccess(m, l, b))
           /\ Keeps(m, copyLayer(m, l, d))
<1>1. Keeps(m, setHardwareRootKey(m, k))
  BY DEF setHardwareRootKey, initLayerKeys, Keeps, IsMem, MemFields
<1>2. Keeps(m, hardwareObfuscate(m))
  BY DEF hardwareObfuscate, OnUsed, Keeps, IsMem, MemFields
<1>3. isValidLayer(m, l) => l \in Layers
  BY ValidLayers
<1>4. Keeps(m, hideKeyInLayer(m, l, k, lenOK))
  <2>1. CASE ~isValidLayer(m, l) \/ ~lenOK \/ m.encrypted[l]
    BY <2>1 DEF hideKeyInLayer, Keeps
  <2>2. CASE ~(~isValidLayer(m, l) \/ ~lenOK \/ m.encrypted[l])
    <3> DEFINE ws == [a \in Addrs |-> IF a \in HidePositions \cap Used(m)
                                      THEN WithKeyBits(m.memory[l][a], k) ELSE m.memory[l][a]]
    <3>1. /\ DOMAIN ws = Addrs
          /\ hideKeyInLayer(m, l, k, lenOK) = [m EXCEPT !.memory[l] = ws, !.hidden[l] = TRUE]
      BY <2>2 DEF hideKeyInLayer
    <3> HIDE DEF ws
    <3>2. QED
      BY <1>3, <2>2, <3>1 DEF Keeps, IsMem, MemFields
  <2>3. QED
    BY <2>1, <2>2
<1>5. Keeps(m, enableProcessingLayer(m, l)) /\ Keeps(m, clearProcessingLayer(m))
  BY DEF enableProcessingLayer, clearProcessingLayer, Keeps, IsMem, MemFields
<1>6. Keeps(m, setLayerAccess(m, l, b))
  BY <1>3 DEF setLayerAccess, Keeps, IsMem, MemFields
<1>7. Keeps(m, copyLayer(m, l, d))
  <2>1. CASE ~isValidLayer(m, l) \/ ~isValidLayer(m, d)
    BY <2>1 DEF copyLayer, Keeps
  <2>2. CASE isValidLayer(m, l) /\ isValidLayer(m, d)
    <3>1. l \in Layers /\ d \in Layers
      BY <2>2, ValidLayers
    <3> DEFINE ws == [a \in Addrs |-> IF a \in Used(m) THEN m.memory[l][a] ELSE m.memory[d][a]]
    <3>2. /\ DOMAIN ws = Addrs
          /\ copyLayer(m, l, d) =
                [m EXCEPT !.memory[d] = ws, !.keys[d] = m.keys[l],
                          !.encrypted[d] = m.encrypted[l],
                          !.hidden[d] = m.hidden[l], !.access[d] = m.access[l]]
      BY <2>2 DEF copyLayer
    <3> HIDE DEF ws
    <3>3. QED
      BY <3>1, <3>2 DEF Keeps, IsMem, MemFields
  <2>3. QED
    BY <2>1, <2>2
<1>8. QED
  BY <1>1, <1>2, <1>4, <1>5, <1>6, <1>7

\* A stack of any sizes asked for is built within the limits.
LEMMA ConstructedIs ==
    ASSUME NEW layers \in Nat, NEW words \in Nat, NEW root
    PROVE  IsMem(Constructed(layers, words, root))
<1>1. PICK n : n = IF layers = 0 THEN 1 ELSE IF layers > MAX_LAYERS THEN MAX_LAYERS ELSE layers
  OBVIOUS
<1>2. PICK w : w = IF words > MAX_WORDS THEN MAX_WORDS ELSE words
  OBVIOUS
<1>3. n \in Nat /\ n <= MAX_LAYERS /\ w \in Nat /\ w <= MAX_WORDS
  BY <1>1, <1>2, StackAssumption
<1>4. (w \div INSTRS_PER_BLOCK) * INSTRS_PER_BLOCK \in 0 .. w
  BY <1>3, StackAssumption
<1>5. PICK wb \in Nat : wb = (w \div INSTRS_PER_BLOCK) * INSTRS_PER_BLOCK /\ wb <= MAX_WORDS
  BY <1>3, <1>4, StackAssumption
<1>6. PICK u \in Nat : u = (IF wb = 0 THEN INSTRS_PER_BLOCK ELSE wb) /\ u <= MAX_WORDS
  BY <1>5, StackAssumption
<1>7. PICK c : c = Constructed(layers, words, root)
  OBVIOUS
<1>8. /\ DOMAIN c = MemFields
      /\ c.num_layers = n /\ c.num_words = u
      /\ c.memory = [l \in Layers |-> [a \in Addrs |-> Zero]]
      /\ c.access = [l \in Layers |-> l < n]
      /\ c.encrypted = [l \in Layers |-> FALSE]
      /\ c.hidden = [l \in Layers |-> FALSE]
      /\ c.keys = initLayerKeys(root)
  BY <1>1, <1>2, <1>5, <1>6, <1>7 DEF Constructed, MemFields
<1>9. QED
  BY <1>3, <1>6, <1>7, <1>8 DEF IsMem, initLayerKeys

-----------------------------------------------------------------------------
(* The inductive invariant.                                                  *)

FabFields == {"roles", "root_key", "req_key", "rsp_key", "base_rsp_key", "epoch_keys_enabled",
              "epoch_req_key", "tx_seq", "rx_seq", "epoch", "lockdown", "debug_unlocked",
              "zeroize_on_severe", "last_reason", "max_temperature", "sentinel",
              "sentinels_installed"}
KeyFields == {"root_key", "req_key", "rsp_key", "base_rsp_key", "epoch_keys_enabled",
              "epoch_req_key", "epoch"}

FabOK ==
    /\ DOMAIN fab = FabFields
    /\ fab.tx_seq \in [ALLREQ -> Nat] /\ fab.rx_seq \in [ALLREQ -> Nat]
    /\ fab.lockdown \in BOOLEAN

\* The keys are those of the schedule.
KeysDerived(f) ==
    /\ f.req_key = ReqDomain(f.root_key)
    /\ f.base_rsp_key = RspDomain(f.root_key)
    /\ f.rsp_key = IF f.epoch_keys_enabled THEN Kdf(f.base_rsp_key, f.epoch, "RSP0")
                   ELSE f.base_rsp_key
    /\ f.epoch_keys_enabled =>
          f.epoch_req_key = [r \in ALLREQ |-> Kdf(f.req_key, f.epoch, r)]

ReqFields == {"requester", "operation", "layer", "addr", "data", "sequence", "epoch",
              "route_nonce", "tag"}

\* What was issued carries a tag over what it says.
Issued(q) == q = [x \in ReqFields |-> q[x]] /\ q.tag[2] = serializeRequest(q)

Wire == \A q \in issued : Issued(q)

\* The counters number the requests sent and taken in this session.
Session ==
    /\ DOMAIN sent = ALLREQ /\ DOMAIN consumed = ALLREQ
    /\ \A r \in ALLREQ :
          /\ sent[r] \in Seq(issued) /\ consumed[r] \in Seq(issued)
          /\ Len(sent[r]) = fab.tx_seq[r] /\ Len(consumed[r]) = fab.rx_seq[r]
          /\ \A i \in 1 .. Len(sent[r]) :
                /\ sent[r][i].requester = r
                /\ sent[r][i].sequence = i
                /\ sent[r][i].epoch = fab.epoch

\* What passes the checks for epoch and tag was sent in this session.
Passes(f, q) == q.requester \in ALLREQ /\ q.epoch = f.epoch /\ requestTagValid(f, q)

Fresh == ~reused => \A q \in issued : Passes(fab, q) => q \in ToSet(sent[q.requester])

\* What was taken is what was sent, from the first on.
TakenInOrder ==
    ~reused => \A r \in ALLREQ : \A i \in 1 .. Len(consumed[r]) :
                  i <= Len(sent[r]) /\ consumed[r][i] = sent[r][i]

\* Nothing locked the fabric, and nothing on its way in order will.
Quiet ==
    ~cause =>
        /\ ~fab.lockdown
        /\ \A r \in ALLREQ : \A i \in 1 .. Len(sent[r]) :
              i > Len(consumed[r]) => requestTagValid(fab, sent[r][i])

SentinelsOK == clean => ~SentinelsDiffer(fab, mem)

WipedOK ==
    \A l \in wiped :
        l \in Layers /\ ~mem.access[l] /\ \A a \in Used(mem) : mem.memory[l][a] = Zero

\* All of it that does not depend on the memory and the causes of a lockdown.
Protocol ==
    /\ FabOK /\ KeysDerived(fab)
    /\ Wire /\ Session /\ Fresh /\ TakenInOrder
    /\ reused \in BOOLEAN

IInv ==
    /\ IsMem(mem)
    /\ Protocol
    /\ Quiet /\ cause \in BOOLEAN
    /\ SentinelsOK
    /\ WipedOK

-----------------------------------------------------------------------------
(* The object's updates.                                                     *)

Same(f, g, S) == \A x \in S : g[x] = f[x]

\* Equal keys and epoch let the same requests pass.
LEMMA SameKeys ==
    ASSUME NEW f, NEW g, Same(f, g, KeyFields)
    PROVE  /\ KeysDerived(f) => KeysDerived(g)
           /\ g.epoch = f.epoch
           /\ \A r : requestKey(g, r) = requestKey(f, r)
           /\ \A q : requestTagValid(g, q) <=> requestTagValid(f, q)
           /\ \A q : Passes(g, q) <=> Passes(f, q)
<1>1. /\ g.root_key = f.root_key /\ g.req_key = f.req_key /\ g.rsp_key = f.rsp_key
      /\ g.base_rsp_key = f.base_rsp_key /\ g.epoch_keys_enabled = f.epoch_keys_enabled
      /\ g.epoch_req_key = f.epoch_req_key /\ g.epoch = f.epoch
  BY DEF Same, KeyFields
<1>2. \A r : requestKey(g, r) = requestKey(f, r)
  BY <1>1 DEF requestKey
<1>3. \A q : requestTagValid(g, q) <=> requestTagValid(f, q)
  BY <1>2 DEF requestTagValid, signRequest
<1>4. QED
  BY <1>1, <1>2, <1>3 DEF KeysDerived, Passes

LEMMA DeriveDomainKeys ==
    ASSUME NEW f, DOMAIN f = FabFields, NEW g, g = deriveDomainKeys(f)
    PROVE  /\ DOMAIN g = FabFields
           /\ Same(f, g, FabFields \ {"req_key", "rsp_key", "base_rsp_key", "epoch_req_key"})
           /\ KeysDerived(g)
BY DEF deriveDomainKeys, deriveEpochKeys, Same, FabFields, KeysDerived

LEMMA DeriveEpochKeys ==
    ASSUME NEW f, DOMAIN f = FabFields, NEW g, g = deriveEpochKeys(f)
    PROVE  /\ DOMAIN g = FabFields
           /\ Same(f, g, FabFields \ {"rsp_key", "epoch_req_key"})
           /\ g.rsp_key = Kdf(f.base_rsp_key, f.epoch, "RSP0")
           /\ g.epoch_req_key = [r \in ALLREQ |-> Kdf(f.req_key, f.epoch, r)]
BY DEF deriveEpochKeys, Same, FabFields

LEMMA TrippedIs ==
    ASSUME NEW f, DOMAIN f = FabFields, NEW reason, NEW g, g = Tripped(f, reason)
    PROVE  /\ DOMAIN g = FabFields
           /\ Same(f, g, FabFields \ {"lockdown", "last_reason"})
           /\ g.lockdown = TRUE
BY DEF Tripped, Same, FabFields

LEMMA SequenceTaken ==
    ASSUME NEW f, DOMAIN f = FabFields, NEW q, NEW reason,
           NEW g, g = [TakeSequence(f, q) EXCEPT !.last_reason = reason]
    PROVE  /\ DOMAIN g = FabFields
           /\ Same(f, g, FabFields \ {"rx_seq", "last_reason"})
           /\ g.rx_seq = [f.rx_seq EXCEPT ![q.requester] = q.sequence]
BY DEF TakeSequence, Same, FabFields

LEMMA SessionReset ==
    ASSUME NEW f, DOMAIN f = FabFields, NEW g, g = resetProtocolState(f)
    PROVE  /\ DOMAIN g = FabFields
           /\ Same(f, g, FabFields \ {"lockdown", "last_reason", "tx_seq", "rx_seq"})
           /\ g.lockdown = FALSE
           /\ g.tx_seq = [r \in ALLREQ |-> 0] /\ g.rx_seq = [r \in ALLREQ |-> 0]
BY DEF resetProtocolState, Same, FabFields

LEMMA FieldKinds ==
    /\ KeyFields \subseteq FabFields \ {"lockdown", "last_reason"}
    /\ KeyFields \subseteq FabFields \ {"rx_seq", "last_reason"}
    /\ KeyFields \subseteq FabFields \ {"lockdown", "last_reason", "tx_seq", "rx_seq"}
    /\ {"tx_seq", "rx_seq", "roles", "sentinel"} \subseteq FabFields \ {"lockdown", "last_reason"}
    /\ {"tx_seq", "lockdown"} \subseteq FabFields \ {"rx_seq", "last_reason"}
BY DEF KeyFields, FabFields

\* What the check of a request does, by its outcome.
Ignored(f, v) ==
    /\ f.lockdown /\ ~v.trip /\ ~v.ok
    /\ DOMAIN v.fab = FabFields /\ Same(f, v.fab, FabFields \ {"last_reason"})

Locked(f, m, q, v) ==
    /\ ~f.lockdown /\ v.trip /\ ~v.ok
    /\ DOMAIN v.fab = FabFields /\ Same(f, v.fab, FabFields \ {"lockdown", "last_reason"})
    /\ v.fab.lockdown = TRUE
    /\ \/ InvalidFields(m, q)
       \/ q.epoch # f.epoch
       \/ ~requestTagValid(f, q)
       \/ q.sequence # f.rx_seq[q.requester] + 1

Accepted(f, m, q, v) ==
    /\ ~f.lockdown /\ ~v.trip
    /\ DOMAIN v.fab = FabFields /\ Same(f, v.fab, FabFields \ {"rx_seq", "last_reason"})
    /\ v.fab.rx_seq = [f.rx_seq EXCEPT ![q.requester] = q.sequence]
    /\ ~InvalidFields(m, q) /\ q.epoch = f.epoch /\ requestTagValid(f, q)
    /\ q.sequence = f.rx_seq[q.requester] + 1

LEMMA Validated ==
    ASSUME NEW f, DOMAIN f = FabFields, f.lockdown \in BOOLEAN, NEW m, NEW q,
           NEW v, v = validateRequest(f, m, q)
    PROVE  Ignored(f, v) \/ Locked(f, m, q, v) \/ Accepted(f, m, q, v)
<1>1. CASE f.lockdown
  <2>1. /\ v.fab = [f EXCEPT !.last_reason = "LOCKDOWN"]
        /\ v.trip = FALSE /\ v.ok = FALSE
    BY <1>1 DEF validateRequest
  <2>2. QED
    BY <1>1, <2>1 DEF Ignored, Same, FabFields
<1>2. CASE ~f.lockdown
  <2>1. CASE \/ InvalidFields(m, q) \/ q.epoch # f.epoch \/ ~requestTagValid(f, q)
             \/ q.sequence # f.rx_seq[q.requester] + 1
    <3>1. \E reason : v = [fab |-> Tripped(f, reason), trip |-> TRUE, ok |-> FALSE]
      BY <1>2, <2>1 DEF validateRequest
    <3>2. PICK reason : v.fab = Tripped(f, reason) /\ v.trip = TRUE /\ v.ok = FALSE
      BY <3>1
    <3>3. QED
      BY <1>2, <2>1, <3>2, TrippedIs DEF Locked
  <2>2. CASE ~(\/ InvalidFields(m, q) \/ q.epoch # f.epoch \/ ~requestTagValid(f, q)
               \/ q.sequence # f.rx_seq[q.requester] + 1)
    <3>1. \E reason : /\ v.fab = [TakeSequence(f, q) EXCEPT !.last_reason = reason]
                      /\ v.trip = FALSE
      BY <1>2, <2>2 DEF validateRequest
    <3>2. PICK reason : /\ v.fab = [TakeSequence(f, q) EXCEPT !.last_reason = reason]
                        /\ v.trip = FALSE
      BY <3>1
    <3>3. /\ DOMAIN v.fab = FabFields
          /\ Same(f, v.fab, FabFields \ {"rx_seq", "last_reason"})
          /\ v.fab.rx_seq = [f.rx_seq EXCEPT ![q.requester] = q.sequence]
      BY <3>2 DEF TakeSequence, Same, FabFields
    <3>4. QED
      BY <1>2, <2>2, <3>2, <3>3 DEF Accepted
  <2>3. QED
    BY <2>1, <2>2
<1>3. QED
  BY <1>1, <1>2

-----------------------------------------------------------------------------
(* Steps that leave the protocol alone.                                      *)

\* Keys, counters and requests are as they were.
ProtocolSame ==
    /\ DOMAIN fab' = FabFields /\ Same(fab, fab', KeyFields)
    /\ fab'.tx_seq = fab.tx_seq /\ fab'.rx_seq = fab.rx_seq
    /\ fab'.lockdown \in BOOLEAN
    /\ UNCHANGED <<issued, sent, consumed, reused>>

LEMMA ProtocolFrame ==
    ASSUME Protocol, ProtocolSame
    PROVE  /\ Protocol'
           /\ /\ Quiet /\ cause' \in BOOLEAN /\ (cause => cause') /\ (fab'.lockdown => cause')
              => Quiet'
<1>1. /\ KeysDerived(fab') /\ fab'.epoch = fab.epoch
      /\ \A q : requestTagValid(fab', q) <=> requestTagValid(fab, q)
      /\ \A q : Passes(fab', q) <=> Passes(fab, q)
  BY SameKeys DEF Protocol, ProtocolSame
<1>2. FabOK'
  BY DEF Protocol, ProtocolSame, FabOK
<1>3. Wire' /\ TakenInOrder' /\ reused' \in BOOLEAN
  BY DEF Protocol, ProtocolSame, Wire, TakenInOrder
<1>4. Session'
  BY <1>1 DEF Protocol, ProtocolSame, Session
<1>5. Fresh'
  BY <1>1 DEF Protocol, ProtocolSame, Fresh
<1>6. ASSUME Quiet, cause => cause', fab'.lockdown => cause'
      PROVE  Quiet'
  BY <1>1, <1>6 DEF ProtocolSame, Quiet
<1>7. QED
  BY <1>1, <1>2, <1>3, <1>4, <1>5, <1>6 DEF Protocol

\* Sentinels and wiped tiers where words, sizes and roles stay.
LEMMA SameTier ==
    ASSUME NEW f, NEW g, NEW m, NEW n, g.roles = f.roles, n.num_layers = m.num_layers
    PROVE  FirstSentinelTier(g, n) = FirstSentinelTier(f, m)
<1>1. \A l : isValidLayer(n, l) <=> isValidLayer(m, l)
  BY DEF isValidLayer
<1>2. QED
  BY <1>1 DEF FirstSentinelTier

\* A set of numbers has a least element.
LEMMA MinExists ==
    ASSUME NEW S, S \subseteq Nat, S # {}
    PROVE  Min(S) \in S
<1>1. \E x \in S : \A y \in S : ~(<<y, x>> \in OpToRel(<, Nat))
  BY WFMin, NatLessThanWellFounded, Zenon
<1>2. PICK x \in S : \A y \in S : ~(<<y, x>> \in OpToRel(<, Nat))
  BY <1>1
<1>3. \A y \in S : ~(y < x)
  BY <1>2 DEF OpToRel
<1>4. \A y \in S : x <= y
  BY <1>3
<1>5. QED
  BY <1>4 DEF Min

\* The sentinel tier is no key tier.
LEMMA SentinelTier ==
    ASSUME NEW f, NEW m, IsMem(m)
    PROVE  FirstSentinelTier(f, m) \notin KeyTiers(f, m)
<1> DEFINE tiers == {l \in Layers : isValidLayer(m, l) /\ f.roles[l] = "SENTINEL"}
<1>1. CASE tiers = {}
  <2>1. FirstSentinelTier(f, m) = MAX_LAYERS
    BY <1>1 DEF FirstSentinelTier
  <2>2. QED
    BY <2>1, StackAssumption DEF KeyTiers, Layers
<1>2. CASE tiers # {}
  <2>1. FirstSentinelTier(f, m) = Min(tiers)
    BY <1>2 DEF FirstSentinelTier
  <2>2. tiers \subseteq Nat
    BY StackAssumption DEF Layers
  <2>3. Min(tiers) \in tiers
    BY <1>2, <2>2, MinExists
  <2>4. QED
    BY <2>1, <2>3 DEF KeyTiers
<1>3. QED
  BY <1>1, <1>2

\* A severe event empties and closes the key tiers, and touches no other tier.
LEMMA ZeroizedIs ==
    ASSUME IsMem(mem), Zeroized
    PROVE  /\ IsMem(mem') /\ mem'.num_words = mem.num_words /\ mem'.num_layers = mem.num_layers
           /\ \A l \in Layers \ KeyTiers(fab, mem) :
                 mem'.memory[l] = mem.memory[l] /\ mem'.access[l] = mem.access[l]
           /\ wiped' = wiped \/ wiped' = wiped \cup KeyTiers(fab, mem)
           /\ \/ mem' = mem /\ wiped' = wiped
              \/ \A l \in KeyTiers(fab, mem) :
                    mem'.memory[l] = ZeroWords(mem, mem.memory[l]) /\ ~mem'.access[l]
<1>1. CASE ~fab.zeroize_on_severe
  BY <1>1 DEF Zeroized, zeroizeCriticalTier
<1>2. CASE fab.zeroize_on_severe
  <2>1. PICK e : e = Emptied(mem, KeyTiers(fab, mem))
    OBVIOUS
  <2>2. /\ Keeps(mem, e)
        /\ e.memory = [l \in Layers |-> IF l \in KeyTiers(fab, mem)
                                        THEN ZeroWords(mem, mem.memory[l]) ELSE mem.memory[l]]
        /\ e.encrypted = [l \in Layers |-> mem.encrypted[l] /\ l \notin KeyTiers(fab, mem)]
        /\ e.hidden = [l \in Layers |-> mem.hidden[l] /\ l \notin KeyTiers(fab, mem)]
        /\ \A x \in MemFields \ {"memory", "encrypted", "hidden"} : e[x] = mem[x]
    BY <2>1, EmptiedIs
  <2>3. e.access = mem.access /\ e.num_layers = mem.num_layers /\ e.num_words = mem.num_words
    BY <2>2 DEF MemFields
  <2>4. PICK acc : acc = [l \in Layers |-> e.access[l] /\ l \notin KeyTiers(fab, mem)]
    OBVIOUS
  <2>5. mem' = [e EXCEPT !.access = acc] /\ wiped' = wiped \cup KeyTiers(fab, mem)
    BY <1>2, <2>1, <2>4 DEF Zeroized, zeroizeCriticalTier
  <2>6. acc \in [Layers -> BOOLEAN]
    BY <2>4
  <2>7. /\ IsMem(mem') /\ mem'.num_words = e.num_words /\ mem'.num_layers = e.num_layers
        /\ mem'.memory = e.memory /\ mem'.access = acc
    BY <2>2, <2>5, <2>6 DEF Keeps, IsMem, MemFields
  <2>8. KeyTiers(fab, mem) \subseteq Layers
    BY DEF KeyTiers
  <2>9. \A l \in Layers : acc[l] = (mem.access[l] /\ l \notin KeyTiers(fab, mem))
    BY <2>3, <2>4
  <2>10. \A l \in Layers \ KeyTiers(fab, mem) :
            mem'.memory[l] = mem.memory[l] /\ mem'.access[l] = mem.access[l]
    <3>1. mem.access \in [Layers -> BOOLEAN]
      BY DEF IsMem
    <3>2. QED
      BY <2>2, <2>7, <2>9, <3>1
  <2>11. \A l \in KeyTiers(fab, mem) :
            mem'.memory[l] = ZeroWords(mem, mem.memory[l]) /\ ~mem'.access[l]
    BY <2>2, <2>7, <2>8, <2>9
  <2>12. QED
    BY <2>3, <2>5, <2>7, <2>10, <2>11
<1>3. QED
  BY <1>1, <1>2

LEMMA ZeroizedInv ==
    ASSUME IsMem(mem), WipedOK, Zeroized, fab'.roles = fab.roles, fab'.sentinel = fab.sentinel
    PROVE  /\ IsMem(mem') /\ WipedOK'
           /\ SentinelsDiffer(fab, mem)' <=> SentinelsDiffer(fab, mem)
<1> DEFINE t == FirstSentinelTier(fab, mem)
<1>1. IsMem(mem') /\ mem'.num_words = mem.num_words /\ mem'.num_layers = mem.num_layers
  BY ZeroizedIs
<1>2. /\ \A l : isValidLayer(mem', l) <=> isValidLayer(mem, l)
      /\ Used(mem') = Used(mem)
  BY <1>1 DEF isValidLayer, Used
<1>3. WipedOK'
  <2> SUFFICES ASSUME NEW l \in wiped'
               PROVE  /\ l \in Layers /\ ~mem'.access[l]
                      /\ \A a \in Used(mem) : mem'.memory[l][a] = Zero
    BY <1>2 DEF WipedOK
  <2>1. CASE l \in KeyTiers(fab, mem) /\ ~(mem' = mem /\ wiped' = wiped)
    <3>1. l \in Layers /\ ~mem'.access[l] /\ mem'.memory[l] = ZeroWords(mem, mem.memory[l])
      BY <2>1, ZeroizedIs DEF KeyTiers
    <3>2. QED
      BY <1>2, <3>1, UsedAddrs DEF ZeroWords
  <2>2. CASE l \notin KeyTiers(fab, mem)
    <3>1. l \in wiped
      BY <2>2, ZeroizedIs
    <3>2. l \in Layers /\ ~mem.access[l] /\ \A a \in Used(mem) : mem.memory[l][a] = Zero
      BY <3>1 DEF WipedOK
    <3>3. mem'.memory[l] = mem.memory[l] /\ mem'.access[l] = mem.access[l]
      BY <2>2, <3>2, ZeroizedIs
    <3>4. QED
      BY <1>2, <3>2, <3>3
  <2>3. CASE mem' = mem /\ wiped' = wiped
    BY <2>3 DEF WipedOK
  <2>4. QED
    BY <2>1, <2>2, <2>3
<1>4. SentinelsDiffer(fab, mem)' <=> SentinelsDiffer(fab, mem)
  <2>1. FirstSentinelTier(fab', mem') = t
    BY <1>1, SameTier
  <2>2. isValidLayer(mem, t) => mem'.memory[t] = mem.memory[t]
    <3>1. isValidLayer(mem, t) => t \in Layers \ KeyTiers(fab, mem)
      BY SentinelTier, ValidLayers
    <3>2. QED
      BY <3>1, ZeroizedIs
  <2>3. \A a : rawRead(mem', t, a) = rawRead(mem, t, a)
    BY <1>2, <2>2 DEF rawRead
  <2>4. QED
    BY <2>1, <2>3 DEF SentinelsDiffer
<1>5. QED
  BY <1>1, <1>3, <1>4

-----------------------------------------------------------------------------
(* The memory's host.                                                        *)

LEMMA HostKeeps ==
    ASSUME IsMem(mem), HostStep
    PROVE  Keeps(mem, mem')
<1>1. CASE \E l \in Layers, v \in Values : HostWrite(l, 0, Const(v))
  BY <1>1, WriteKeeps DEF HostWrite, protectedWrite, Keeps
<1>2. CASE \E l \in 0 .. MAX_LAYERS : HostEncrypt(l) \/ HostDecrypt(l) \/ HostScramble(l)
  BY <1>2, EncryptKeeps, ScrambleKeeps DEF HostEncrypt, HostDecrypt, HostScramble, SameOnPlain
<1>3. CASE \E l \in Layers : HostScrambleWithKey(l, UserKey) \/ HostUnscrambleWithKey(l, UserKey)
  BY <1>3, ScrambleKeeps DEF HostScrambleWithKey, HostUnscrambleWithKey, SameOnPlain
<1>4. CASE HostObfuscate
  BY <1>4, OthersKeep DEF HostObfuscate, SameOnPlain
<1>5. CASE \E root \in Roots : HostSetRoot(root)
  BY <1>5, OthersKeep DEF HostSetRoot
<1>6. CASE \E l \in Layers, w \in {Zero} \cup {Const(v) : v \in Values} : HostCheckTamper(l, 0, w)
  BY <1>6, TamperKeeps DEF HostCheckTamper
<1>7. CASE \E l \in Layers : HostResetCritical(<<l, MAX_LAYERS>>)
  BY <1>7, TamperKeeps DEF HostResetCritical, SameOnPlain
<1>8. CASE \E l \in Layers, lenOK \in BOOLEAN : HostHide(l, "K", lenOK)
  BY <1>8, OthersKeep DEF HostHide, SameOnPlain
<1>9. CASE \E l \in Layers : HostClear(l)
  BY <1>9, TamperKeeps DEF HostClear, SameOnPlain
<1>10. CASE \E src \in Layers, dst \in Layers : HostCopy(src, dst)
  <2>1. PICK src \in Layers, dst \in Layers : mem' = copyLayer(mem, src, dst)
    BY <1>10 DEF HostCopy, SameOnPlain
  <2>2. Keeps(mem, copyLayer(mem, src, dst))
    BY OthersKeep
  <2>3. QED
    BY <2>1, <2>2
<1>11. CASE HostAddLayers(1)
  BY <1>11, AddLayersKeeps DEF HostAddLayers, SameOnPlain
<1>12. CASE HostSettings
  BY <1>12, OthersKeep, TamperKeeps DEF HostSettings
<1>13. QED
  BY <1>1, <1>2, <1>3, <1>4, <1>5, <1>6, <1>7, <1>8, <1>9, <1>10, <1>11, <1>12 DEF HostStep

\* The sentinels read as installed as long as nothing touched their tier.
LEMMA TierStays ==
    ASSUME SentinelsOK, clean' => clean /\ TierUndisturbed, fab'.sentinel = fab.sentinel
    PROVE  SentinelsOK'
BY DEF SentinelsOK, TierUndisturbed, SentinelsDiffer

LEMMA HostInv ==
    ASSUME IInv, Host
    PROVE  IInv'
<1>1. /\ HostStep /\ UNCHANGED <<fab, issued, sent, consumed, reused, cause>>
      /\ clean' = (clean /\ TierUndisturbed)
      /\ wiped' = {l \in wiped : mem'.memory[l] = mem.memory[l] /\ mem'.access[l] = mem.access[l]}
  BY DEF Host, ghostVars
<1>2. Keeps(mem, mem')
  BY <1>1, HostKeeps DEF IInv
<1>3. ProtocolSame
  BY <1>1 DEF ProtocolSame, Same, IInv, Protocol, FabOK
<1>4. Protocol' /\ Quiet'
  <2>1. Quiet /\ cause' \in BOOLEAN /\ (cause => cause') /\ (fab'.lockdown => cause')
    BY <1>1 DEF IInv, Quiet
  <2>2. QED
    BY <1>3, <2>1, ProtocolFrame DEF IInv
<1>5. SentinelsOK'
  BY <1>1, TierStays DEF IInv
<1>6. WipedOK'
  <2> SUFFICES ASSUME NEW l \in wiped'
               PROVE  /\ l \in Layers /\ ~mem'.access[l]
                      /\ \A a \in Used(mem') : mem'.memory[l][a] = Zero
    BY DEF WipedOK
  <2>1. /\ l \in Layers /\ ~mem.access[l] /\ \A a \in Used(mem) : mem.memory[l][a] = Zero
        /\ mem'.memory[l] = mem.memory[l] /\ mem'.access[l] = mem.access[l]
    BY <1>1 DEF IInv, WipedOK
  <2>2. Used(mem') = Used(mem)
    BY <1>2 DEF Keeps, Used
  <2>3. QED
    BY <2>1, <2>2
<1>7. QED
  BY <1>1, <1>2, <1>4, <1>5, <1>6 DEF IInv, Keeps

-----------------------------------------------------------------------------
(* Settings, sentinels and severe events.                                    *)

LEMMA SettingsInv ==
    ASSUME IInv, Settings
    PROVE  IInv'
<1>1. /\ UNCHANGED <<mem, issued, sent, consumed, reused, cause, wiped>>
      /\ clean' = (clean /\ TierUndisturbed)
  BY DEF Settings, memVars, ghostVars
<1>2. \E x \in {"roles", "debug_unlocked", "zeroize_on_severe", "max_temperature"} :
         \E y : fab' = [fab EXCEPT ![x] = y]
  BY DEF Settings
<1>3. /\ DOMAIN fab' = FabFields
      /\ Same(fab, fab', FabFields \ {"roles", "debug_unlocked", "zeroize_on_severe",
                                      "max_temperature"})
  BY <1>2 DEF IInv, Protocol, FabOK, Same, FabFields
<1>4. /\ ProtocolSame
      /\ fab'.sentinel = fab.sentinel /\ fab'.lockdown = fab.lockdown
  BY <1>1, <1>3 DEF ProtocolSame, Same, FabFields, KeyFields, IInv, Protocol, FabOK
<1>5. Protocol' /\ Quiet'
  <2>1. Quiet /\ cause' \in BOOLEAN /\ (cause => cause') /\ (fab'.lockdown => cause')
    BY <1>1, <1>4 DEF IInv, Quiet
  <2>2. QED
    BY <1>4, <2>1, ProtocolFrame DEF IInv
<1>6. SentinelsOK'
  BY <1>1, <1>4, TierStays DEF IInv
<1>7. QED
  BY <1>1, <1>5, <1>6 DEF IInv, WipedOK

\* Sentinels that were written read as installed.
LEMMA InstallSentinelsInv ==
    ASSUME IInv, installSentinels
    PROVE  IInv'
<1> DEFINE t == FirstSentinelTier(fab, mem)
           value == [a \in SentinelAddrs(mem) |-> SentinelWord(fab, t, a)]
<1>1. UNCHANGED <<issued, sent, consumed, reused, cause, wiped>>
  BY DEF installSentinels, ghostVars
<1>2. CASE ~isValidLayer(mem, t) \/ mem.num_words < SENTINEL_COUNT
  <2>1. UNCHANGED <<mem, fab, clean>>
    BY <1>2 DEF installSentinels, memVars
  <2>2. ProtocolSame
    BY <1>1, <2>1 DEF ProtocolSame, Same, IInv, Protocol, FabOK
  <2>3. Quiet /\ cause' \in BOOLEAN /\ (cause => cause') /\ (fab'.lockdown => cause')
    BY <1>1, <2>1 DEF IInv, Quiet
  <2>4. Protocol' /\ Quiet'
    BY <2>2, <2>3, ProtocolFrame DEF IInv
  <2>5. SentinelsOK' /\ WipedOK'
    BY <1>1, <2>1 DEF IInv, SentinelsOK, WipedOK
  <2>6. QED
    BY <1>1, <2>1, <2>4, <2>5 DEF IInv
<1>3. CASE isValidLayer(mem, t) /\ ~(mem.num_words < SENTINEL_COUNT)
  <2>1. /\ mem' = writeAll(mem, t, value)
        /\ fab' = [fab EXCEPT !.sentinel = value, !.sentinels_installed = TRUE]
        /\ clean' = (mem.access[t] /\ ~mem.encrypted[t])
    BY <1>3 DEF installSentinels
  <2>2. /\ DOMAIN fab' = FabFields
        /\ Same(fab, fab', FabFields \ {"sentinel", "sentinels_installed"})
        /\ fab'.sentinel = value
    BY <2>1 DEF IInv, Protocol, FabOK, Same, FabFields
  <2>3. ProtocolSame /\ fab'.roles = fab.roles /\ fab'.lockdown = fab.lockdown
    BY <1>1, <2>2 DEF ProtocolSame, Same, FabFields, KeyFields, IInv, Protocol, FabOK
  <2>4. Protocol' /\ Quiet'
    <3>1. Quiet /\ cause' \in BOOLEAN /\ (cause => cause') /\ (fab'.lockdown => cause')
      BY <1>1, <2>3 DEF IInv, Quiet
    <3>2. QED
      BY <2>3, <3>1, ProtocolFrame DEF IInv
  <2>5. PICK ws : ws = value
    OBVIOUS
  <2>6. /\ Keeps(mem, writeAll(mem, t, ws))
        /\ \A x \in MemFields \ {"memory"} : writeAll(mem, t, ws)[x] = mem[x]
        /\ \A x \in Layers : ~mem.access[x] => writeAll(mem, t, ws).memory[x] = mem.memory[x]
        /\ isValidLayer(mem, t) /\ mem.access[t] /\ ~mem.encrypted[t] =>
              \A a \in DOMAIN ws \cap Used(mem) : writeAll(mem, t, ws).memory[t][a] = ws[a]
    BY WriteAllKeeps DEF IInv
  <2>7. /\ IsMem(mem') /\ mem'.num_words = mem.num_words /\ mem'.num_layers = mem.num_layers
        /\ mem'.access = mem.access
        /\ \A x \in Layers : ~mem.access[x] => mem'.memory[x] = mem.memory[x]
    BY <2>1, <2>5, <2>6 DEF Keeps, MemFields
  <2>8. /\ Used(mem') = Used(mem) /\ FirstSentinelTier(fab', mem') = t
        /\ \A l : isValidLayer(mem', l) <=> isValidLayer(mem, l)
    BY <2>3, <2>7, SameTier DEF Used, isValidLayer
  <2>9. DOMAIN value = SentinelAddrs(mem) /\ SentinelAddrs(mem) \subseteq Used(mem)
    BY <1>3, FabricAssumption DEF SentinelAddrs, Used, IInv, IsMem
  <2>10. SentinelsOK'
    <3> SUFFICES ASSUME clean' PROVE \A a \in DOMAIN value : rawRead(mem', t, a) = value[a]
      BY <2>2, <2>8 DEF SentinelsOK, SentinelsDiffer
    <3>1. \A a \in DOMAIN value : mem'.memory[t][a] = value[a]
      BY <1>3, <2>1, <2>5, <2>6, <2>9
    <3>2. QED
      BY <1>3, <2>8, <2>9, <3>1 DEF rawRead
  <2>11. WipedOK'
    BY <1>1, <2>7, <2>8 DEF IInv, WipedOK
  <2>12. QED
    BY <1>1, <2>4, <2>7, <2>10, <2>11 DEF IInv
<1>4. QED
  BY <1>2, <1>3

\* A severe event locks the fabric.
LEMMA SevereInv ==
    ASSUME IInv, NEW reason, fab' = Tripped(fab, reason), Zeroized,
           UNCHANGED <<issued, sent, consumed, reused, clean>>, cause' = TRUE
    PROVE  IInv'
<1>1. /\ DOMAIN fab' = FabFields
      /\ Same(fab, fab', FabFields \ {"lockdown", "last_reason"})
      /\ fab'.lockdown = TRUE
  BY TrippedIs DEF IInv, Protocol, FabOK
<1>2. ProtocolSame /\ fab'.roles = fab.roles /\ fab'.sentinel = fab.sentinel
  BY <1>1 DEF ProtocolSame, Same, FabFields, KeyFields
<1>3. Protocol'
  BY <1>2, ProtocolFrame DEF IInv
<1>4. Quiet' /\ cause' \in BOOLEAN
  BY DEF Quiet
<1>5. IsMem(mem') /\ WipedOK' /\ (SentinelsDiffer(fab, mem)' <=> SentinelsDiffer(fab, mem))
  BY <1>2, ZeroizedInv DEF IInv
<1>6. SentinelsOK'
  BY <1>5 DEF IInv, SentinelsOK
<1>7. QED
  BY <1>3, <1>4, <1>5, <1>6 DEF IInv

LEMMA VerifySentinelsInv ==
    ASSUME IInv, verifySentinels
    PROVE  IInv'
<1>1. UNCHANGED <<issued, sent, consumed, reused, clean>> /\ cause' = (cause \/ ~clean)
  BY DEF verifySentinels
<1>2. CASE SentinelsDiffer(fab, mem)
  <2>1. fab' = Tripped(fab, "SENTINEL") /\ Zeroized
    BY <1>2 DEF verifySentinels
  <2>2. cause' = TRUE
    BY <1>1, <1>2 DEF IInv, SentinelsOK
  <2>3. QED
    BY <1>1, <2>1, <2>2, SevereInv
<1>3. CASE ~SentinelsDiffer(fab, mem)
  <2>1. UNCHANGED <<fab, mem, wiped>>
    BY <1>3 DEF verifySentinels, memVars
  <2>2. ProtocolSame
    BY <1>1, <2>1 DEF ProtocolSame, Same, IInv, Protocol, FabOK
  <2>3. Quiet /\ cause' \in BOOLEAN /\ (cause => cause') /\ (fab'.lockdown => cause')
    BY <1>1, <2>1 DEF IInv, Quiet
  <2>4. Protocol' /\ Quiet'
    BY <2>2, <2>3, ProtocolFrame DEF IInv
  <2>5. SentinelsOK' /\ WipedOK'
    BY <1>1, <2>1 DEF IInv, SentinelsOK, WipedOK
  <2>6. QED
    BY <2>1, <2>3, <2>4, <2>5 DEF IInv
<1>4. QED
  BY <1>2, <1>3

LEMMA EventInv ==
    ASSUME IInv, updateTemperatureMilliC \/ reportPhysicalFault
    PROVE  IInv'
<1>1. PICK reason : fab' = Tripped(fab, reason)
  BY DEF updateTemperatureMilliC, reportPhysicalFault
<1>2. Zeroized /\ cause' = TRUE /\ UNCHANGED <<issued, sent, consumed, reused, clean>>
  BY DEF updateTemperatureMilliC, reportPhysicalFault
<1>3. QED
  BY <1>1, <1>2, SevereInv

-----------------------------------------------------------------------------
(* Keys, epochs and sessions.                                                *)

LEMMA NewSessionInv ==
    ASSUME Protocol, NewSession, issued' = issued,
           DOMAIN fab' = FabFields, KeysDerived(fab'), fab'.lockdown \in BOOLEAN,
           fab'.tx_seq = [r \in ALLREQ |-> 0], fab'.rx_seq = [r \in ALLREQ |-> 0]
    PROVE  /\ Protocol'
           /\ (fab'.lockdown => cause') => Quiet'
<1>1. /\ DOMAIN sent' = ALLREQ /\ DOMAIN consumed' = ALLREQ
      /\ \A r \in ALLREQ : sent'[r] = <<>> /\ consumed'[r] = <<>>
  BY DEF NewSession, NoneSent
<1>2. FabOK' /\ Wire'
  BY DEF Protocol, FabOK, Wire
<1>3. Session' /\ TakenInOrder'
  <2>1. \A r \in ALLREQ : /\ sent'[r] \in Seq(issued') /\ consumed'[r] \in Seq(issued')
                          /\ Len(sent'[r]) = 0 /\ Len(consumed'[r]) = 0
    <3>1. \A S : <<>> \in Seq(S)
      OBVIOUS
    <3>2. Len(<<>>) = 0
      OBVIOUS
    <3>3. QED
      BY <1>1, <3>1, <3>2, Zenon
  <2>2. \A r \in ALLREQ : fab'.tx_seq[r] = 0 /\ fab'.rx_seq[r] = 0
    OBVIOUS
  <2>3. \A r \in ALLREQ : 1 .. Len(sent'[r]) = {} /\ 1 .. Len(consumed'[r]) = {}
    BY <2>1
  <2>4. QED
    BY <1>1, <2>1, <2>2, <2>3 DEF Session, TakenInOrder
<1>4. reused' \in BOOLEAN
  BY DEF NewSession, Reuse, Protocol
<1>5. Fresh'
  BY DEF NewSession, Reuse, Fresh, Passes
<1>6. (fab'.lockdown => cause') => Quiet'
  BY <1>1 DEF Quiet
<1>7. QED
  BY <1>2, <1>3, <1>4, <1>5, <1>6 DEF Protocol

LEMMA AllAccessIs ==
    ASSUME IsMem(mem), mem' = AllAccess(mem)
    PROVE  IsMem(mem') /\ \A x \in MemFields \ {"access"} : mem'[x] = mem[x]
<1>1. PICK acc : acc = [l \in Layers |-> mem.access[l] \/ isValidLayer(mem, l)]
  OBVIOUS
<1>2. acc \in [Layers -> BOOLEAN]
  <2>1. mem.access \in [Layers -> BOOLEAN]
    BY DEF IsMem
  <2>2. QED
    BY <1>1, <2>1
<1>3. mem' = [mem EXCEPT !.access = acc]
  BY <1>1 DEF AllAccess
<1>4. QED
  BY <1>2, <1>3 DEF IsMem, MemFields

\* A reset that opens the memory leaves the sentinels alone.
LEMMA ResetInv ==
    ASSUME IInv, NEW f, DOMAIN f = FabFields, KeysDerived(f),
           f.roles = fab.roles, f.sentinel = fab.sentinel,
           fab' = resetProtocolState(f), mem' = AllAccess(mem), NewSession,
           cause' = FALSE, wiped' = {}, UNCHANGED <<issued, clean>>
    PROVE  IInv'
<1>1. /\ DOMAIN fab' = FabFields
      /\ Same(f, fab', FabFields \ {"lockdown", "last_reason", "tx_seq", "rx_seq"})
      /\ fab'.lockdown = FALSE
      /\ fab'.tx_seq = [r \in ALLREQ |-> 0] /\ fab'.rx_seq = [r \in ALLREQ |-> 0]
  BY SessionReset
<1>2. Same(f, fab', KeyFields) /\ fab'.roles = fab.roles /\ fab'.sentinel = fab.sentinel
  BY <1>1 DEF Same, FabFields, KeyFields
<1>3. KeysDerived(fab')
  BY <1>2, SameKeys
<1>4. Protocol' /\ Quiet'
  BY <1>1, <1>3, NewSessionInv DEF IInv
<1>5. IsMem(mem') /\ \A x \in MemFields \ {"access"} : mem'[x] = mem[x]
  BY AllAccessIs DEF IInv
<1>6. mem'.num_layers = mem.num_layers /\ mem'.num_words = mem.num_words
      /\ mem'.memory = mem.memory
  BY <1>5 DEF MemFields
<1>7. SentinelsOK'
  <2>1. FirstSentinelTier(fab', mem') = FirstSentinelTier(fab, mem)
    BY <1>2, <1>6, SameTier
  <2>2. \A l, a : rawRead(mem', l, a) = rawRead(mem, l, a)
    BY <1>6 DEF rawRead, isValidLayer, Used
  <2>3. QED
    BY <1>2, <2>1, <2>2 DEF IInv, SentinelsOK, SentinelsDiffer
<1>8. QED
  BY <1>4, <1>5, <1>7 DEF IInv, WipedOK

LEMMA SimulationResetInv ==
    ASSUME IInv, resetProtocolStateForSimulation
    PROVE  IInv'
<1>1. /\ fab' = resetProtocolState(fab) /\ mem' = AllAccess(mem) /\ NewSession
      /\ cause' = FALSE /\ wiped' = {} /\ UNCHANGED <<issued, clean>>
  BY DEF resetProtocolStateForSimulation
<1>2. DOMAIN fab = FabFields /\ KeysDerived(fab)
  BY DEF IInv, Protocol, FabOK
<1>3. QED
  BY <1>1, <1>2, ResetInv

LEMMA SetRootInv ==
    ASSUME IInv, setRootKeyForSimulation
    PROVE  IInv'
<1>1. /\ mem' = AllAccess(mem) /\ NewSession
      /\ cause' = FALSE /\ wiped' = {} /\ UNCHANGED <<issued, clean>>
  BY DEF setRootKeyForSimulation
<1>2. PICK root \in Roots :
         fab' = resetProtocolState(deriveDomainKeys([fab EXCEPT !.root_key = root]))
  BY DEF setRootKeyForSimulation
<1>3. PICK g : g = [fab EXCEPT !.root_key = root]
  OBVIOUS
<1>4. DOMAIN g = FabFields /\ g.roles = fab.roles /\ g.sentinel = fab.sentinel
  BY <1>3 DEF IInv, Protocol, FabOK, FabFields
<1>5. PICK f : f = deriveDomainKeys(g)
  OBVIOUS
<1>6. /\ DOMAIN f = FabFields /\ KeysDerived(f)
      /\ Same(g, f, FabFields \ {"req_key", "rsp_key", "base_rsp_key", "epoch_req_key"})
  BY <1>4, <1>5, DeriveDomainKeys
<1>7. f.roles = fab.roles /\ f.sentinel = fab.sentinel
  BY <1>4, <1>6 DEF Same, FabFields
<1>8. fab' = resetProtocolState(f)
  BY <1>2, <1>3, <1>5
<1>9. QED
  BY <1>1, <1>6, <1>7, <1>8, ResetInv

LEMMA AdvanceEpochInv ==
    ASSUME IInv, advanceEpoch
    PROVE  IInv'
<1>1. NewSession /\ UNCHANGED <<mem, issued, cause, clean, wiped>>
  BY DEF advanceEpoch, memVars
<1>2. PICK next : next = [fab EXCEPT !.epoch = fab.epoch + 1]
  OBVIOUS
<1>3. PICK keys : keys = IF fab.epoch_keys_enabled THEN deriveEpochKeys(next) ELSE next
  OBVIOUS
<1>4. fab' = [keys EXCEPT !.tx_seq = [r \in ALLREQ |-> 0], !.rx_seq = [r \in ALLREQ |-> 0]]
  BY <1>2, <1>3 DEF advanceEpoch
<1>5. DOMAIN fab = FabFields /\ KeysDerived(fab) /\ fab.lockdown \in BOOLEAN
  BY DEF IInv, Protocol, FabOK
<1>6. DOMAIN next = FabFields /\ Same(fab, next, FabFields \ {"epoch"})
  BY <1>2, <1>5 DEF Same, FabFields
<1>7. /\ DOMAIN keys = FabFields /\ KeysDerived(keys)
      /\ Same(next, keys, FabFields \ {"rsp_key", "epoch_req_key"})
  <2>1. CASE fab.epoch_keys_enabled
    <3>1. keys = deriveEpochKeys(next)
      BY <1>3, <2>1
    <3>2. /\ DOMAIN keys = FabFields
          /\ Same(next, keys, FabFields \ {"rsp_key", "epoch_req_key"})
          /\ keys.rsp_key = Kdf(next.base_rsp_key, next.epoch, "RSP0")
          /\ keys.epoch_req_key = [r \in ALLREQ |-> Kdf(next.req_key, next.epoch, r)]
      BY <1>6, <3>1, DeriveEpochKeys
    <3>3. /\ keys.req_key = next.req_key /\ keys.base_rsp_key = next.base_rsp_key
          /\ keys.root_key = next.root_key /\ keys.epoch = next.epoch
          /\ keys.epoch_keys_enabled = next.epoch_keys_enabled
      BY <3>2 DEF Same, FabFields
    <3>4. /\ next.req_key = fab.req_key /\ next.base_rsp_key = fab.base_rsp_key
          /\ next.root_key = fab.root_key
          /\ next.epoch_keys_enabled = fab.epoch_keys_enabled
      BY <1>6 DEF Same, FabFields
    <3>5. QED
      BY <1>5, <2>1, <3>2, <3>3, <3>4 DEF KeysDerived
  <2>2. CASE ~fab.epoch_keys_enabled
    <3>1. keys = next
      BY <1>3, <2>2
    <3>2. /\ next.req_key = fab.req_key /\ next.base_rsp_key = fab.base_rsp_key
          /\ next.root_key = fab.root_key /\ next.rsp_key = fab.rsp_key
          /\ next.epoch_keys_enabled = fab.epoch_keys_enabled
      BY <1>6 DEF Same, FabFields
    <3>3. QED
      BY <1>5, <1>6, <2>2, <3>1, <3>2 DEF KeysDerived, Same
  <2>3. QED
    BY <2>1, <2>2
<1>8. /\ DOMAIN fab' = FabFields /\ Same(keys, fab', FabFields \ {"tx_seq", "rx_seq"})
      /\ fab'.tx_seq = [r \in ALLREQ |-> 0] /\ fab'.rx_seq = [r \in ALLREQ |-> 0]
  BY <1>4, <1>7 DEF Same, FabFields
<1>9. /\ fab'.lockdown = fab.lockdown /\ fab'.roles = fab.roles /\ fab'.sentinel = fab.sentinel
      /\ Same(keys, fab', KeyFields)
  BY <1>6, <1>7, <1>8 DEF Same, FabFields, KeyFields
<1>10. KeysDerived(fab')
  BY <1>7, <1>9, SameKeys
<1>11. Protocol' /\ Quiet'
  <2>1. fab'.lockdown => cause'
    BY <1>1, <1>9 DEF IInv, Quiet
  <2>2. QED
    BY <1>1, <1>5, <1>8, <1>9, <1>10, <2>1, NewSessionInv DEF IInv
<1>12. SentinelsOK'
  <2>1. FirstSentinelTier(fab', mem') = FirstSentinelTier(fab, mem)
    BY <1>1, <1>9, SameTier
  <2>2. QED
    BY <1>1, <1>9, <2>1 DEF IInv, SentinelsOK, SentinelsDiffer
<1>13. QED
  BY <1>1, <1>11, <1>12 DEF IInv, WipedOK

\* The requests on their way are those sent and not yet taken.
LEMMA PendingIs ==
    ASSUME Session, NEW r \in ALLREQ
    PROVE  /\ \A i \in 1 .. Len(sent[r]) : i > Len(consumed[r]) => sent[r][i] \in Undelivered
           /\ Pending(r) # <<>> => /\ Len(consumed[r]) < Len(sent[r])
                                   /\ Head(Pending(r)) = sent[r][Len(consumed[r]) + 1]
<1>1. sent[r] \in Seq(issued) /\ consumed[r] \in Seq(issued)
  BY DEF Session
<1>2. PICK m \in Int, n \in Int : m = Len(consumed[r]) + 1 /\ n = Len(sent[r]) /\ m >= 1 /\ n >= 0
  BY <1>1
<1>3. \A i \in m .. n : sent[r][i] \in issued
  BY <1>1, <1>2
<1>4. /\ Pending(r) \in Seq(issued)
      /\ Len(Pending(r)) = IF m <= n THEN n - m + 1 ELSE 0
      /\ \A i \in 1 .. n - m + 1 : Pending(r)[i] = sent[r][m + i - 1]
  <2>1. PICK s : s = sent[r]
    OBVIOUS
  <2>2. /\ SubSeq(s, m, n) \in Seq(issued)
        /\ Len(SubSeq(s, m, n)) = IF m <= n THEN n - m + 1 ELSE 0
        /\ \A i \in 1 .. n - m + 1 : SubSeq(s, m, n)[i] = s[m + i - 1]
    BY <1>3, <2>1, SubSeqProperties
  <2>3. QED
    BY <1>2, <2>1, <2>2 DEF Pending
<1>5. ASSUME NEW i \in 1 .. n, i > Len(consumed[r])
      PROVE  sent[r][i] \in Undelivered
  <2>1. i - m + 1 \in 1 .. n - m + 1 /\ i - m + 1 \in DOMAIN Pending(r)
    <3>1. i >= m /\ i <= n /\ i \in Int
      BY <1>1, <1>2, <1>5
    <3>2. DOMAIN Pending(r) = 1 .. Len(Pending(r))
      BY <1>4
    <3>3. QED
      BY <1>4, <3>1, <3>2
  <2>2. Pending(r)[i - m + 1] = sent[r][i]
    <3>1. PICK j \in 1 .. n - m + 1 : j = i - m + 1
      BY <2>1
    <3>2. Pending(r)[j] = sent[r][m + j - 1]
      BY <1>4
    <3>3. m + j - 1 = i
      BY <3>1
    <3>4. QED
      BY <3>1, <3>2, <3>3
  <2>3. sent[r][i] \in ToSet(Pending(r))
    BY <2>1, <2>2 DEF ToSet
  <2>4. QED
    BY <2>3 DEF Undelivered
<1>6. ASSUME Pending(r) # <<>>
      PROVE  Len(consumed[r]) < Len(sent[r]) /\ Head(Pending(r)) = sent[r][m]
  <2>1. m <= n
    BY <1>2, <1>4, <1>6, EmptySeq
  <2>2. Head(Pending(r)) = Pending(r)[1] /\ Pending(r)[1] = sent[r][m]
    BY <1>2, <1>4, <2>1
  <2>3. QED
    BY <1>1, <1>2, <2>1, <2>2
<1>7. QED
  BY <1>2, <1>5, <1>6

LEMMA HierarchyInv ==
    ASSUME IInv, setEpochKeyHierarchy
    PROVE  IInv'
<1>1. /\ UNCHANGED <<mem, issued, sent, consumed, clean, wiped>> /\ Reuse
      /\ cause' = (cause \/ \E q \in Undelivered : ~requestTagValid(fab', q))
  BY DEF setEpochKeyHierarchy, memVars
<1>2. PICK enabled \in BOOLEAN :
         fab' = deriveDomainKeys([fab EXCEPT !.epoch_keys_enabled = enabled])
  BY DEF setEpochKeyHierarchy
<1>3. PICK g : g = [fab EXCEPT !.epoch_keys_enabled = enabled]
  OBVIOUS
<1>4. DOMAIN g = FabFields /\ Same(fab, g, FabFields \ {"epoch_keys_enabled"})
  BY <1>3 DEF IInv, Protocol, FabOK, Same, FabFields
<1>5. /\ DOMAIN fab' = FabFields /\ KeysDerived(fab')
      /\ Same(g, fab', FabFields \ {"req_key", "rsp_key", "base_rsp_key", "epoch_req_key"})
  BY <1>2, <1>3, <1>4, DeriveDomainKeys
<1>6. /\ fab'.tx_seq = fab.tx_seq /\ fab'.rx_seq = fab.rx_seq /\ fab'.epoch = fab.epoch
      /\ fab'.lockdown = fab.lockdown /\ fab'.roles = fab.roles /\ fab'.sentinel = fab.sentinel
  BY <1>4, <1>5 DEF Same, FabFields
<1>7. FabOK' /\ Wire' /\ Session'
  BY <1>1, <1>5, <1>6 DEF IInv, Protocol, FabOK, Wire, Session
<1>8. reused' \in BOOLEAN /\ Fresh'
  BY <1>1 DEF Reuse, IInv, Protocol, Fresh, Passes
<1>9. TakenInOrder'
  BY <1>1 DEF Reuse, IInv, Protocol, TakenInOrder
<1>10. Quiet' /\ cause' \in BOOLEAN
  <2>1. ASSUME ~cause', NEW r \in ALLREQ, NEW i \in 1 .. Len(sent[r]), i > Len(consumed[r])
        PROVE  requestTagValid(fab', sent[r][i])
    <3>1. sent[r][i] \in Undelivered
      BY <2>1, PendingIs DEF IInv, Protocol
    <3>2. QED
      BY <1>1, <2>1, <3>1
  <2>2. ~cause' => ~fab'.lockdown
    BY <1>1, <1>6 DEF IInv, Quiet
  <2>3. QED
    BY <1>1, <2>1, <2>2 DEF Quiet, IInv
<1>11. SentinelsOK'
  <2>1. FirstSentinelTier(fab', mem') = FirstSentinelTier(fab, mem)
    BY <1>1, <1>6, SameTier
  <2>2. QED
    BY <1>1, <1>6, <2>1 DEF IInv, SentinelsOK, SentinelsDiffer
<1>12. QED
  BY <1>1, <1>5, <1>7, <1>8, <1>9, <1>10, <1>11 DEF IInv, Protocol, WipedOK

-----------------------------------------------------------------------------
(* Issuing a request.                                                        *)

LEMMA Requested ==
    ASSUME NEW f, NEW r, NEW op, NEW l, NEW a, NEW w, NEW q, q = Request(f, r, op, l, a, w)
    PROVE  /\ Issued(q) /\ requestTagValid(f, q)
           /\ q.requester = r /\ q.epoch = f.epoch
           /\ q.sequence = IF r \in ALLREQ THEN f.tx_seq[r] + 1 ELSE 0
<1>1. PICK seq : seq = IF r \in ALLREQ THEN f.tx_seq[r] + 1 ELSE 0
  OBVIOUS
<1>2. PICK p : p = [requester |-> r, operation |-> op, layer |-> l, addr |-> a, data |-> w,
                    sequence |-> seq, epoch |-> f.epoch,
                    route_nonce |-> makeRouteNonce(r, seq, l, f.epoch), tag |-> NoTag]
  OBVIOUS
<1>3. q = signRequest(f, p)
  BY <1>1, <1>2 DEF Request
<1>4. /\ DOMAIN q = ReqFields /\ q = [x \in ReqFields |-> q[x]]
      /\ q.requester = r /\ q.operation = op /\ q.layer = l /\ q.addr = a /\ q.data = w
      /\ q.sequence = seq /\ q.epoch = f.epoch /\ q.route_nonce = p.route_nonce
      /\ q.tag = <<requestKey(f, r), serializeRequest(p)>>
  BY <1>2, <1>3 DEF signRequest, ReqFields
<1>5. serializeRequest(p) = serializeRequest(q)
  BY <1>2, <1>4 DEF serializeRequest
<1>6. signRequest(f, q).tag = <<requestKey(f, r), serializeRequest(q)>>
  BY <1>4 DEF signRequest, ReqFields
<1>7. QED
  BY <1>1, <1>4, <1>5, <1>6 DEF Issued, requestTagValid

\* A request takes the next number of its requester.
LEMMA IssueInv ==
    ASSUME IInv, Issue
    PROVE  IInv'
<1>1. UNCHANGED <<mem, consumed, reused, cause, clean, wiped>>
  BY DEF Issue, memVars
<1>2. PICK r, l, a, op, w, q :
         /\ q = Request(fab, r, op, l, a, w)
         /\ issued' = issued \cup {q}
         /\ IF r \in ALLREQ
            THEN /\ fab' = [fab EXCEPT !.tx_seq[r] = @ + 1]
                 /\ sent' = [sent EXCEPT ![r] = Append(@, q)]
            ELSE UNCHANGED <<fab, sent>>
  BY DEF Issue
<1>3. /\ Issued(q) /\ requestTagValid(fab, q)
      /\ q.requester = r /\ q.epoch = fab.epoch
      /\ q.sequence = IF r \in ALLREQ THEN fab.tx_seq[r] + 1 ELSE 0
  BY <1>2, Requested
<1>4. Wire'
  BY <1>2, <1>3 DEF IInv, Protocol, Wire
<1>5. \A s : s \in Seq(issued) => s \in Seq(issued')
  BY <1>2
<1>6. CASE r \notin ALLREQ
  <2>1. UNCHANGED <<fab, sent>>
    BY <1>2, <1>6
  <2>2. Session'
    BY <1>1, <1>5, <2>1 DEF IInv, Protocol, Session
  <2>3. Fresh'
    BY <1>1, <1>2, <1>3, <1>6, <2>1 DEF IInv, Protocol, Fresh, Passes
  <2>4. FabOK' /\ KeysDerived(fab)' /\ TakenInOrder' /\ reused' \in BOOLEAN
    BY <1>1, <2>1 DEF IInv, Protocol, FabOK, KeysDerived, TakenInOrder
  <2>5. Quiet' /\ SentinelsOK' /\ WipedOK'
    BY <1>1, <2>1 DEF IInv, Quiet, SentinelsOK, WipedOK
  <2>6. QED
    BY <1>1, <1>4, <2>2, <2>3, <2>4, <2>5 DEF IInv, Protocol
<1>7. CASE r \in ALLREQ
  <2>1. /\ fab' = [fab EXCEPT !.tx_seq = [fab.tx_seq EXCEPT ![r] = @ + 1]]
        /\ sent' = [sent EXCEPT ![r] = Append(@, q)]
    BY <1>2, <1>7
  <2>2. DOMAIN fab = FabFields /\ fab.tx_seq \in [ALLREQ -> Nat]
    BY DEF IInv, Protocol, FabOK
  <2>3. /\ DOMAIN fab' = FabFields /\ Same(fab, fab', FabFields \ {"tx_seq"})
        /\ fab'.tx_seq = [fab.tx_seq EXCEPT ![r] = @ + 1]
    BY <2>1, <2>2 DEF Same, FabFields
  <2>4. /\ fab'.rx_seq = fab.rx_seq /\ fab'.lockdown = fab.lockdown /\ fab'.epoch = fab.epoch
        /\ fab'.roles = fab.roles /\ fab'.sentinel = fab.sentinel
        /\ Same(fab, fab', KeyFields)
    BY <2>3 DEF Same, FabFields, KeyFields
  <2>5. /\ KeysDerived(fab')
        /\ \A x : requestTagValid(fab', x) <=> requestTagValid(fab, x)
        /\ \A x : Passes(fab', x) <=> Passes(fab, x)
    BY <2>4, SameKeys DEF IInv, Protocol
  <2>6. FabOK'
    <3>1. fab'.tx_seq \in [ALLREQ -> Nat]
      BY <1>7, <2>2, <2>3
    <3>2. QED
      BY <2>3, <2>4, <3>1 DEF IInv, Protocol, FabOK
  <2>7. /\ DOMAIN sent = ALLREQ /\ DOMAIN consumed = ALLREQ
        /\ sent[r] \in Seq(issued) /\ Len(sent[r]) = fab.tx_seq[r]
    BY <1>7 DEF IInv, Protocol, Session
  <2>8. PICK n \in Nat : n = Len(sent[r])
    BY <2>7
  <2>9. /\ DOMAIN sent' = ALLREQ
        /\ \A x \in ALLREQ : x # r => sent'[x] = sent[x]
        /\ sent'[r] = Append(sent[r], q)
    BY <1>7, <2>1, <2>7
  <2>10. /\ sent'[r] \in Seq(issued') /\ Len(sent'[r]) = n + 1
         /\ \A i \in 1 .. n : sent'[r][i] = sent[r][i]
         /\ sent'[r][n + 1] = q
    <3>1. PICK s : s = sent[r]
      OBVIOUS
    <3>2. s \in Seq(issued') /\ q \in issued'
      BY <1>2, <1>5, <2>7, <3>1
    <3>3. /\ Append(s, q) \in Seq(issued') /\ Len(Append(s, q)) = Len(s) + 1
          /\ \A i \in 1 .. Len(s) : Append(s, q)[i] = s[i]
          /\ Append(s, q)[Len(s) + 1] = q
      BY <3>2, AppendProperties
    <3>4. QED
      BY <2>8, <2>9, <3>1, <3>3
  <2>11. Session'
    <3> SUFFICES ASSUME NEW x \in ALLREQ
                 PROVE  /\ sent'[x] \in Seq(issued') /\ consumed'[x] \in Seq(issued')
                        /\ Len(sent'[x]) = fab'.tx_seq[x] /\ Len(consumed'[x]) = fab'.rx_seq[x]
                        /\ \A i \in 1 .. Len(sent'[x]) :
                              /\ sent'[x][i].requester = x
                              /\ sent'[x][i].sequence = i
                              /\ sent'[x][i].epoch = fab'.epoch
      BY <1>1, <2>7, <2>9 DEF Session
    <3>1. /\ sent[x] \in Seq(issued) /\ consumed[x] \in Seq(issued)
          /\ Len(sent[x]) = fab.tx_seq[x] /\ Len(consumed[x]) = fab.rx_seq[x]
          /\ \A i \in 1 .. Len(sent[x]) :
                /\ sent[x][i].requester = x
                /\ sent[x][i].sequence = i
                /\ sent[x][i].epoch = fab.epoch
      BY DEF IInv, Protocol, Session
    <3>2. consumed'[x] \in Seq(issued') /\ Len(consumed'[x]) = fab'.rx_seq[x]
      BY <1>1, <1>5, <2>4, <3>1
    <3>3. CASE x # r
      <4>1. sent'[x] = sent[x] /\ fab'.tx_seq[x] = fab.tx_seq[x] /\ sent[x] \in Seq(issued')
        BY <1>5, <2>2, <2>3, <2>9, <3>1, <3>3
      <4>2. QED
        BY <2>4, <3>1, <3>2, <4>1
    <3>4. CASE x = r
      <4>1. fab'.tx_seq[r] = n + 1
        BY <1>7, <2>2, <2>3, <2>7, <2>8
      <4>2. q.requester = r /\ q.sequence = n + 1 /\ q.epoch = fab.epoch
        BY <1>3, <1>7, <2>7, <2>8
      <4>3. ASSUME NEW i \in 1 .. n + 1
            PROVE  /\ sent'[r][i].requester = r /\ sent'[r][i].sequence = i
                   /\ sent'[r][i].epoch = fab'.epoch
        <5>1. CASE i \in 1 .. n
          BY <2>4, <2>8, <2>10, <3>1, <3>4, <5>1
        <5>2. CASE i = n + 1
          BY <2>4, <2>10, <4>2, <5>2
        <5>3. QED
          BY <4>3, <5>1, <5>2
      <4>4. QED
        BY <2>10, <3>2, <3>4, <4>1, <4>3
    <3>5. QED
      BY <3>3, <3>4
  <2>12. \A x \in ALLREQ : \A y \in ToSet(sent[x]) : y \in ToSet(sent'[x])
    <3>1. ASSUME NEW y \in ToSet(sent[r]) PROVE y \in ToSet(sent'[r])
      <4>1. PICK i \in 1 .. n : sent[r][i] = y
        BY <2>7, <2>8, <3>1 DEF ToSet
      <4>2. i \in DOMAIN sent'[r] /\ sent'[r][i] = y
        BY <2>10, <4>1
      <4>3. QED
        BY <4>2 DEF ToSet
    <3>2. QED
      BY <2>9, <3>1
  <2>13. q \in ToSet(sent'[r])
    <3>1. n + 1 \in DOMAIN sent'[r]
      BY <2>10
    <3>2. QED
      BY <2>10, <3>1 DEF ToSet
  <2>14. Fresh'
    <3> SUFFICES ASSUME ~reused, NEW x \in issued', Passes(fab, x)
                 PROVE  x \in ToSet(sent'[x.requester])
      BY <1>1, <2>5 DEF Fresh
    <3>1. CASE x = q
      BY <1>3, <2>13, <3>1
    <3>2. CASE x \in issued
      BY <2>12, <3>2 DEF IInv, Protocol, Fresh, Passes
    <3>3. QED
      BY <1>2, <3>1, <3>2
  <2>15. \A x \in ALLREQ : \A i \in 1 .. Len(sent[x]) :
            i \in 1 .. Len(sent'[x]) /\ sent'[x][i] = sent[x][i]
    <3>1. \A i \in 1 .. n : i \in 1 .. n + 1
      OBVIOUS
    <3>2. QED
      BY <2>8, <2>9, <2>10, <3>1
  <2>16. TakenInOrder'
    <3> SUFFICES ASSUME ~reused, NEW x \in ALLREQ, NEW i \in 1 .. Len(consumed[x])
                 PROVE  i <= Len(sent'[x]) /\ consumed[x][i] = sent'[x][i]
      BY <1>1 DEF TakenInOrder
    <3>1. i <= Len(sent[x]) /\ consumed[x][i] = sent[x][i]
      BY DEF IInv, Protocol, TakenInOrder
    <3>2. sent[x] \in Seq(issued) /\ consumed[x] \in Seq(issued)
      BY DEF IInv, Protocol, Session
    <3>3. i \in 1 .. Len(sent[x])
      BY <3>1, <3>2
    <3>4. i \in 1 .. Len(sent'[x]) /\ sent'[x][i] = sent[x][i]
      BY <2>15, <3>3
    <3>5. QED
      BY <3>1, <3>4
  <2>17. Quiet'
    <3> SUFFICES ASSUME ~cause, NEW x \in ALLREQ, NEW i \in 1 .. Len(sent'[x]),
                        i > Len(consumed[x])
                 PROVE  ~fab.lockdown /\ requestTagValid(fab, sent'[x][i])
      BY <1>1, <2>4, <2>5 DEF Quiet, IInv
    <3>1. CASE i \in 1 .. Len(sent[x])
      BY <2>15, <3>1 DEF IInv, Quiet
    <3>2. CASE i \notin 1 .. Len(sent[x])
      <4>1. x = r /\ i = n + 1
        BY <2>8, <2>9, <2>10, <3>2
      <4>2. QED
        BY <1>3, <2>10, <4>1 DEF IInv, Quiet
    <3>3. QED
      BY <3>1, <3>2
  <2>18. SentinelsOK'
    <3>1. FirstSentinelTier(fab', mem') = FirstSentinelTier(fab, mem)
      BY <1>1, <2>4, SameTier
    <3>2. QED
      BY <1>1, <2>4, <3>1 DEF IInv, SentinelsOK, SentinelsDiffer
  <2>19. QED
    BY <1>1, <1>4, <2>5, <2>6, <2>11, <2>14, <2>16, <2>17, <2>18 DEF IInv, Protocol, WipedOK
<1>8. QED
  BY <1>6, <1>7

-----------------------------------------------------------------------------
(* Delivering a request.                                                     *)

\* A tag vouches for every field: what was altered under way passes only if it was not.
LEMMA Authentic ==
    ASSUME NEW f, NEW q, Issued(q), NEW x \in Altered(q), requestTagValid(f, x)
    PROVE  x = q
<1>1. DOMAIN q = ReqFields /\ q = [y \in ReqFields |-> q[y]] /\ q.tag[2] = serializeRequest(q)
  BY DEF Issued
<1>2. PICK y, z : y \in ReqFields \ {"tag"} /\ x = [q EXCEPT ![y] = z]
  BY DEF Altered, ReqFields
<1>3. /\ DOMAIN x = ReqFields /\ x.tag = q.tag
  BY <1>1, <1>2 DEF ReqFields
<1>4. signRequest(f, x).tag = <<requestKey(f, x.requester), serializeRequest(x)>>
  BY <1>3 DEF signRequest, ReqFields
<1>5. serializeRequest(x) = serializeRequest(q)
  BY <1>1, <1>3, <1>4 DEF requestTagValid
<1>6. /\ x.requester = q.requester /\ x.operation = q.operation /\ x.layer = q.layer
      /\ x.addr = q.addr /\ x.data = q.data /\ x.sequence = q.sequence /\ x.epoch = q.epoch
      /\ x.route_nonce = q.route_nonce
  BY <1>5 DEF serializeRequest
<1>7. x[y] = q[y] /\ x[y] = z
  BY <1>1, <1>2, <1>6 DEF ReqFields
<1>8. QED
  BY <1>1, <1>2, <1>7

\* The memory's words move only where the fabric lets them.
LEMMA ExecuteMemory ==
    ASSUME IInv, NEW q, execute(q), ~validateRequest(fab, mem, q).trip
    PROVE  /\ IsMem(mem') /\ WipedOK'
<1>1. wiped' = wiped /\ (mem' = mem \/ mem' = write(mem, q.layer, q.addr, q.data))
  BY DEF execute, memVars
<1>2. CASE mem' = mem
  BY <1>1, <1>2 DEF IInv, WipedOK
<1>3. CASE mem' = write(mem, q.layer, q.addr, q.data)
  <2>1. PICK l, a, w : l = q.layer /\ a = q.addr /\ w = q.data
    OBVIOUS
  <2>2. /\ Keeps(mem, write(mem, l, a, w))
        /\ \A x \in MemFields \ {"memory"} : write(mem, l, a, w)[x] = mem[x]
        /\ \A x \in Layers : ~mem.access[x] => write(mem, l, a, w).memory[x] = mem.memory[x]
    BY WriteKeeps DEF IInv
  <2>3. /\ IsMem(mem') /\ mem'.num_words = mem.num_words /\ mem'.access = mem.access
        /\ \A x \in Layers : ~mem.access[x] => mem'.memory[x] = mem.memory[x]
    BY <1>3, <2>1, <2>2 DEF Keeps, MemFields
  <2>4. Used(mem') = Used(mem)
    BY <2>3 DEF Used
  <2>5. QED
    BY <1>1, <2>3, <2>4 DEF IInv, WipedOK
<1>4. QED
  BY <1>1, <1>2, <1>3

\* A request that comes in order, unaltered and with valid fields is no reason to lock.
LEMMA InOrderPasses ==
    ASSUME IInv, ~cause, NEW q, InOrder(q)
    PROVE  /\ q.epoch = fab.epoch /\ requestTagValid(fab, q)
           /\ q.sequence = fab.rx_seq[q.requester] + 1
<1>1. PICK r \in ALLREQ : Pending(r) # <<>> /\ Head(Pending(r)) = q
  BY DEF InOrder
<1>2. Len(consumed[r]) < Len(sent[r]) /\ q = sent[r][Len(consumed[r]) + 1]
  BY <1>1, PendingIs DEF IInv, Protocol
<1>3. /\ sent[r] \in Seq(issued) /\ consumed[r] \in Seq(issued)
      /\ Len(consumed[r]) = fab.rx_seq[r]
      /\ \A i \in 1 .. Len(sent[r]) :
            /\ sent[r][i].requester = r /\ sent[r][i].sequence = i
            /\ sent[r][i].epoch = fab.epoch
  BY DEF IInv, Protocol, Session
<1>4. PICK i \in 1 .. Len(sent[r]) : i = Len(consumed[r]) + 1
  BY <1>2, <1>3
<1>5. i > Len(consumed[r])
  BY <1>3, <1>4
<1>6. requestTagValid(fab, sent[r][i])
  BY <1>5 DEF IInv, Quiet
<1>7. QED
  BY <1>2, <1>3, <1>4, <1>6

\* A request that passes is taken: it is the next of those its requester sent.
LEMMA AcceptedInv ==
    ASSUME IInv, NEW q \in issued, q.requester \in ALLREQ,
           q.epoch = fab.epoch, requestTagValid(fab, q),
           q.sequence = fab.rx_seq[q.requester] + 1,
           DOMAIN fab' = FabFields, Same(fab, fab', FabFields \ {"rx_seq", "last_reason"}),
           fab'.rx_seq = [fab.rx_seq EXCEPT ![q.requester] = q.sequence],
           consumed' = [consumed EXCEPT ![q.requester] = Append(@, q)],
           cause => cause', cause' \in BOOLEAN, UNCHANGED <<issued, sent, reused>>
    PROVE  Protocol' /\ Quiet'
<1>1. PICK r \in ALLREQ : r = q.requester
  OBVIOUS
<1>2. /\ fab'.tx_seq = fab.tx_seq /\ fab'.lockdown = fab.lockdown /\ fab'.epoch = fab.epoch
      /\ Same(fab, fab', KeyFields)
  BY DEF Same, FabFields, KeyFields
<1>3. /\ KeysDerived(fab')
      /\ \A x : requestTagValid(fab', x) <=> requestTagValid(fab, x)
      /\ \A x : Passes(fab', x) <=> Passes(fab, x)
  BY <1>2, SameKeys DEF IInv, Protocol
<1>4. /\ fab.rx_seq \in [ALLREQ -> Nat] /\ fab.tx_seq \in [ALLREQ -> Nat]
      /\ fab.lockdown \in BOOLEAN /\ reused \in BOOLEAN
  BY DEF IInv, Protocol, FabOK
<1>5. PICK n \in Nat : n = Len(consumed[r]) /\ n = fab.rx_seq[r] /\ consumed[r] \in Seq(issued)
  BY <1>4 DEF IInv, Protocol, Session
<1>6. /\ fab'.rx_seq \in [ALLREQ -> Nat] /\ fab'.rx_seq[r] = n + 1 /\ q.sequence = n + 1
      /\ \A x \in ALLREQ : x # r => fab'.rx_seq[x] = fab.rx_seq[x]
  BY <1>1, <1>4, <1>5
<1>7. /\ DOMAIN consumed' = ALLREQ
      /\ \A x \in ALLREQ : x # r => consumed'[x] = consumed[x]
      /\ consumed'[r] = Append(consumed[r], q)
  BY <1>1 DEF IInv, Protocol, Session
<1>8. /\ consumed'[r] \in Seq(issued) /\ Len(consumed'[r]) = n + 1
      /\ \A i \in 1 .. n : consumed'[r][i] = consumed[r][i]
      /\ consumed'[r][n + 1] = q
  <2>1. PICK s : s = consumed[r]
    OBVIOUS
  <2>2. s \in Seq(issued)
    BY <1>5, <2>1
  <2>3. /\ Append(s, q) \in Seq(issued) /\ Len(Append(s, q)) = Len(s) + 1
        /\ \A i \in 1 .. Len(s) : Append(s, q)[i] = s[i]
        /\ Append(s, q)[Len(s) + 1] = q
    BY <2>2, AppendProperties
  <2>4. QED
    BY <1>5, <1>7, <2>1, <2>3
<1>9. FabOK'
  BY <1>2, <1>4, <1>6 DEF FabOK
<1>10. Wire' /\ Fresh' /\ reused' \in BOOLEAN
  BY <1>3, <1>4 DEF IInv, Protocol, Wire, Fresh
<1>11. Session'
  <2>1. \A x \in ALLREQ : consumed'[x] \in Seq(issued) /\ Len(consumed'[x]) = fab'.rx_seq[x]
    BY <1>6, <1>7, <1>8 DEF IInv, Protocol, Session
  <2>2. QED
    BY <1>2, <1>7, <2>1 DEF IInv, Protocol, Session
<1>12. TakenInOrder'
  <2> SUFFICES ASSUME ~reused, NEW x \in ALLREQ, NEW i \in 1 .. Len(consumed'[x])
               PROVE  i <= Len(sent[x]) /\ consumed'[x][i] = sent[x][i]
    BY DEF TakenInOrder
  <2>1. CASE x # r \/ i \in 1 .. n
    <3>1. i \in 1 .. Len(consumed[x]) /\ consumed'[x][i] = consumed[x][i]
      BY <1>5, <1>7, <1>8, <2>1
    <3>2. QED
      BY <3>1 DEF IInv, Protocol, TakenInOrder
  <2>2. CASE x = r /\ i = n + 1
    <3>1. q \in ToSet(sent[r])
      BY <1>1 DEF IInv, Protocol, Fresh, Passes
    <3>2. sent[r] \in Seq(issued)
      BY DEF IInv, Protocol, Session
    <3>3. PICK j \in 1 .. Len(sent[r]) : sent[r][j] = q
      BY <3>1, <3>2 DEF ToSet
    <3>4. q.sequence = j
      BY <3>3 DEF IInv, Protocol, Session
    <3>5. j = i /\ consumed'[r][i] = q
      BY <1>6, <1>8, <2>2, <3>4
    <3>6. QED
      BY <2>2, <3>2, <3>3, <3>5
  <2>3. QED
    BY <1>8, <2>1, <2>2
<1>13. Quiet'
  <2> SUFFICES ASSUME ~cause, NEW x \in ALLREQ, NEW i \in 1 .. Len(sent[x]),
                      i > Len(consumed'[x])
               PROVE  requestTagValid(fab, sent[x][i])
    BY <1>2, <1>3 DEF Quiet, IInv
  <2>1. i > Len(consumed[x])
    <3>1. CASE x = r
      BY <1>5, <1>8, <3>1
    <3>2. CASE x # r
      BY <1>7, <3>2
    <3>3. QED
      BY <3>1, <3>2
  <2>2. QED
    BY <2>1 DEF IInv, Quiet
<1>14. QED
  BY <1>3, <1>9, <1>10, <1>11, <1>12, <1>13 DEF Protocol

\* Whatever arrives: a request that was issued, or one whose tag does not verify.
LEMMA ExecuteInv ==
    ASSUME IInv, NEW q, execute(q), q \in issued \/ ~requestTagValid(fab, q)
    PROVE  IInv'
<1>1. PICK v : v = validateRequest(fab, mem, q)
  OBVIOUS
<1>2. /\ fab' = v.fab /\ UNCHANGED <<issued, sent, reused>>
      /\ cause' = (cause \/ ~InOrder(q) \/ InvalidFields(mem, q))
      /\ clean' = (clean /\ TierUndisturbed)
      /\ consumed' = IF fab' = fab \/ v.trip \/ fab.lockdown THEN consumed
                     ELSE [consumed EXCEPT ![q.requester] = Append(@, q)]
  BY <1>1 DEF execute
<1>3. v.trip => Zeroized
  BY <1>1 DEF execute
<1>4. DOMAIN fab = FabFields /\ fab.lockdown \in BOOLEAN
  BY DEF IInv, Protocol, FabOK
<1>5. cause' \in BOOLEAN /\ (cause => cause') /\ Quiet /\ Protocol
  BY <1>2 DEF IInv
<1>6. ~v.trip => IsMem(mem') /\ WipedOK'
  BY <1>1, ExecuteMemory
<1>7. CASE Ignored(fab, v)
  <2>1. DOMAIN fab' = FabFields /\ Same(fab, fab', FabFields \ {"last_reason"})
    BY <1>2, <1>7 DEF Ignored
  <2>2. consumed' = consumed
    BY <1>2, <1>7 DEF Ignored
  <2>3. ProtocolSame /\ fab'.sentinel = fab.sentinel /\ fab'.lockdown = fab.lockdown
    BY <1>2, <1>4, <2>1, <2>2 DEF ProtocolSame, Same, FabFields, KeyFields
  <2>4. fab'.lockdown => cause'
    BY <1>5, <2>3 DEF Quiet
  <2>5. Protocol' /\ Quiet'
    BY <1>5, <2>3, <2>4, ProtocolFrame
  <2>6. SentinelsOK'
    BY <1>2, <2>3, TierStays DEF IInv
  <2>7. QED
    BY <1>5, <1>6, <1>7, <2>5, <2>6 DEF IInv, Ignored
<1>8. CASE Locked(fab, mem, q, v)
  <2>1. /\ DOMAIN fab' = FabFields /\ fab'.lockdown = TRUE
        /\ Same(fab, fab', FabFields \ {"lockdown", "last_reason"})
    BY <1>2, <1>8 DEF Locked
  <2>2. consumed' = consumed /\ Zeroized
    BY <1>2, <1>3, <1>8 DEF Locked
  <2>3. ProtocolSame /\ fab'.sentinel = fab.sentinel /\ fab'.roles = fab.roles
    BY <1>2, <2>1, <2>2 DEF ProtocolSame, Same, FabFields, KeyFields
  <2>4. cause'
    BY <1>2, <1>8, InOrderPasses DEF Locked
  <2>5. Protocol' /\ Quiet'
    BY <1>5, <2>3, <2>4, ProtocolFrame
  <2>6. SentinelsOK'
    BY <1>2, <2>3, TierStays DEF IInv
  <2>7. IsMem(mem') /\ WipedOK'
    BY <2>2, <2>3, ZeroizedInv DEF IInv
  <2>8. QED
    BY <1>5, <2>5, <2>6, <2>7 DEF IInv
<1>9. CASE Accepted(fab, mem, q, v)
  <2>1. q \in issued /\ q.requester \in ALLREQ
    BY <1>9 DEF InvalidFields, Accepted
  <2>2. /\ DOMAIN fab' = FabFields
        /\ Same(fab, fab', FabFields \ {"rx_seq", "last_reason"})
        /\ fab'.rx_seq = [fab.rx_seq EXCEPT ![q.requester] = q.sequence]
    BY <1>2, <1>9 DEF Accepted
  <2>3. fab' # fab
    <3>1. fab.rx_seq \in [ALLREQ -> Nat]
      BY DEF IInv, Protocol, FabOK
    <3>2. fab'.rx_seq[q.requester] # fab.rx_seq[q.requester]
      BY <1>9, <2>1, <2>2, <3>1 DEF Accepted
    <3>3. QED
      BY <3>2
  <2>4. consumed' = [consumed EXCEPT ![q.requester] = Append(@, q)]
    BY <1>2, <1>9, <2>3 DEF Accepted
  <2>5. Protocol' /\ Quiet'
    BY <1>2, <1>5, <1>9, <2>1, <2>2, <2>4, AcceptedInv DEF Accepted
  <2>6. fab'.sentinel = fab.sentinel
    BY <2>2 DEF Same, FabFields
  <2>7. SentinelsOK'
    BY <1>2, <2>6, TierStays DEF IInv
  <2>8. QED
    BY <1>5, <1>6, <1>9, <2>5, <2>7 DEF IInv, Accepted
<1>10. QED
  BY <1>1, <1>4, <1>7, <1>8, <1>9, Validated

LEMMA DeliverInv ==
    ASSUME IInv, Deliver \/ DeliverAltered
    PROVE  IInv'
<1>1. CASE Deliver
  <2>1. PICK q \in issued : execute(q)
    BY <1>1 DEF Deliver
  <2>2. QED
    BY <2>1, ExecuteInv
<1>2. CASE DeliverAltered
  <2>1. PICK q \in issued : \E x \in Altered(q) : execute(x)
    BY <1>2 DEF DeliverAltered
  <2>2. PICK x \in Altered(q) : execute(x)
    BY <2>1
  <2>3. Issued(q)
    BY DEF IInv, Protocol, Wire
  <2>4. x \in issued \/ ~requestTagValid(fab, x)
    BY <2>3, Authentic
  <2>5. QED
    BY <2>2, <2>4, ExecuteInv
<1>3. QED
  BY <1>1, <1>2

-----------------------------------------------------------------------------
(* The theorems.                                                             *)

LEMMA InitInv ==
    ASSUME Init
    PROVE  IInv
<1> DEFINE root == CHOOSE r \in Roots : TRUE
           v    == CHOOSE x \in Values : TRUE
           m    == Constructed(left.layers, left.words, root)
<1>1. /\ mem = [m EXCEPT !.memory = [l \in Layers |->
                    IF isValidLayer(m, l) THEN [@[l] EXCEPT ![0] = Const(v)] ELSE @[l]]]
      /\ fab = Built(root)
  BY DEF Init
<1> HIDE DEF v
<1>2. left.layers \in Nat /\ left.words \in Nat
  BY FabricAssumption DEF Init
<1>3. IsMem(m)
  BY <1>2, ConstructedIs
<1> HIDE DEF root, m
<1>4. IsMem(mem)
  <2>1. PICK ws : ws = [l \in Layers |-> IF isValidLayer(m, l)
                                         THEN [m.memory[l] EXCEPT ![0] = Const(v)]
                                         ELSE m.memory[l]]
    OBVIOUS
  <2>2. mem = [m EXCEPT !.memory = ws]
    BY <1>1, <2>1
  <2>3. DOMAIN ws = Layers /\ \A l \in Layers : DOMAIN ws[l] = Addrs
    BY <1>3, <2>1 DEF IsMem
  <2>4. QED
    BY <1>3, <2>2, <2>3 DEF IsMem, MemFields
<1>5. PICK f : f = Blank(root)
  OBVIOUS
<1>6. /\ fab = deriveDomainKeys(f) /\ DOMAIN f = FabFields
       /\ f.tx_seq = [r \in ALLREQ |-> 0] /\ f.rx_seq = [r \in ALLREQ |-> 0]
       /\ f.lockdown = FALSE
  <2>1. fab = deriveDomainKeys(f)
    BY <1>1, <1>5 DEF Built
  <2>2. DOMAIN f = FabFields
    BY <1>5 DEF Blank, FabFields
  <2>3. /\ f.tx_seq = [r \in ALLREQ |-> 0] /\ f.rx_seq = [r \in ALLREQ |-> 0]
        /\ f.lockdown = FALSE
    BY <1>5 DEF Blank
  <2>4. QED
    BY <2>1, <2>2, <2>3
<1>7. /\ DOMAIN fab = FabFields /\ KeysDerived(fab)
      /\ Same(f, fab, FabFields \ {"req_key", "rsp_key", "base_rsp_key", "epoch_req_key"})
  BY <1>6, DeriveDomainKeys
<1>8. /\ fab.tx_seq = [r \in ALLREQ |-> 0] /\ fab.rx_seq = [r \in ALLREQ |-> 0]
      /\ fab.lockdown = FALSE
  BY <1>6, <1>7 DEF Same, FabFields
<1>9. /\ DOMAIN sent = ALLREQ /\ DOMAIN consumed = ALLREQ /\ issued = {}
      /\ \A r \in ALLREQ : sent[r] = <<>> /\ consumed[r] = <<>>
      /\ reused = FALSE /\ cause = FALSE /\ clean = FALSE /\ wiped = {}
  BY DEF Init, NoneSent
<1>10. \A r \in ALLREQ : /\ sent[r] \in Seq(issued) /\ consumed[r] \in Seq(issued)
                        /\ Len(sent[r]) = 0 /\ Len(consumed[r]) = 0
  <2>1. \A S : <<>> \in Seq(S)
    OBVIOUS
  <2>2. Len(<<>>) = 0
    OBVIOUS
  <2>3. QED
    BY <1>9, <2>1, <2>2, Zenon
<1>11. \A r \in ALLREQ : 1 .. Len(sent[r]) = {} /\ 1 .. Len(consumed[r]) = {}
  BY <1>10
<1>12. FabOK /\ Wire /\ Fresh
  <2>1. [r \in ALLREQ |-> 0] \in [ALLREQ -> Nat]
    OBVIOUS
  <2>2. FabOK
    BY <1>7, <1>8, <2>1 DEF FabOK
  <2>3. QED
    BY <1>9, <2>2 DEF Wire, Fresh
<1>13. Session /\ TakenInOrder /\ Quiet
  BY <1>8, <1>9, <1>10, <1>11 DEF Session, TakenInOrder, Quiet
<1>14. QED
  BY <1>4, <1>7, <1>9, <1>12, <1>13 DEF IInv, Protocol, SentinelsOK, WipedOK

LEMMA StutterInv ==
    ASSUME IInv, UNCHANGED vars
    PROVE  IInv'
<1>1. UNCHANGED <<mem, fab, issued, sent, consumed, reused, cause, clean, wiped>>
  BY DEF vars, memVars, ghostVars
<1>2. ProtocolSame
  BY <1>1 DEF ProtocolSame, Same, IInv, Protocol, FabOK
<1>3. Quiet /\ cause' \in BOOLEAN /\ (cause => cause') /\ (fab'.lockdown => cause')
  BY <1>1 DEF IInv, Quiet
<1>4. Protocol' /\ Quiet'
  BY <1>2, <1>3, ProtocolFrame DEF IInv
<1>5. SentinelsOK' /\ WipedOK'
  BY <1>1 DEF IInv, SentinelsOK, WipedOK
<1>6. QED
  BY <1>1, <1>3, <1>4, <1>5 DEF IInv

\* What the fabric's counters, keys and tags have to do with the requests on their way,
\* in every reachable state.
THEOREM Invariant == Spec => []IInv
<1>1. Init => IInv
  BY InitInv
<1>2. IInv /\ [Next]_vars => IInv'
  <2> SUFFICES ASSUME IInv, [Next]_vars PROVE IInv'
    OBVIOUS
  <2>1. CASE Host
    BY <2>1, HostInv
  <2>2. CASE resetProtocolStateForSimulation
    BY <2>2, SimulationResetInv
  <2>3. CASE setRootKeyForSimulation
    BY <2>3, SetRootInv
  <2>4. CASE advanceEpoch
    BY <2>4, AdvanceEpochInv
  <2>5. CASE setEpochKeyHierarchy
    BY <2>5, HierarchyInv
  <2>6. CASE Settings
    BY <2>6, SettingsInv
  <2>7. CASE installSentinels
    BY <2>7, InstallSentinelsInv
  <2>8. CASE verifySentinels
    BY <2>8, VerifySentinelsInv
  <2>9. CASE updateTemperatureMilliC \/ reportPhysicalFault
    BY <2>9, EventInv
  <2>10. CASE Issue
    BY <2>10, IssueInv
  <2>11. CASE Deliver \/ DeliverAltered
    BY <2>11, DeliverInv
  <2>12. CASE UNCHANGED vars
    BY <2>12, StutterInv
  <2>13. QED
    BY <2>1, <2>2, <2>3, <2>4, <2>5, <2>6, <2>7, <2>8, <2>9, <2>10, <2>11, <2>12 DEF Next
<1>3. QED
  BY <1>1, <1>2, PTL DEF Spec

\* After any sequence of root, epoch and hierarchy changes (setRootKeyForSimulation,
\* advanceEpoch, setEpochKeyHierarchy) the working keys are those of the key schedule.
THEOREM KeysFollow == Spec => []KeysFollowRootAndEpoch
<1>1. IInv => KeysFollowRootAndEpoch
  BY DEF IInv, Protocol, KeysDerived, KeysFollowRootAndEpoch, requestKey, ReqDomain, RspDomain,
         Kdf, ALLREQ
<1>2. QED
  BY <1>1, Invariant, PTL

\* validateRequest takes the requests of a requester in the order they were issued, each
\* once and unaltered, whatever was lost, delayed, duplicated or altered, as long as no
\* change of keys lets a request of an earlier session pass.
THEOREM TakenOnceInOrder == Spec => []InOrderExactlyOnce
<1>1. IInv => InOrderExactlyOnce
  <2> SUFFICES ASSUME IInv, ~reused, NEW r \in ALLREQ
               PROVE  IsPrefix(consumed[r], sent[r])
    BY DEF InOrderExactlyOnce
  <2>1. PICK s, t : s = consumed[r] /\ t = sent[r]
    OBVIOUS
  <2>2. s \in Seq(issued) /\ t \in Seq(issued)
    BY <2>1 DEF IInv, Protocol, Session
  <2>3. \A i \in 1 .. Len(s) : i <= Len(t) /\ s[i] = t[i]
    BY <2>1 DEF IInv, Protocol, TakenInOrder
  <2>4. Len(s) <= Len(t)
    <3>1. CASE Len(s) = 0
      BY <2>2, <3>1
    <3>2. CASE Len(s) # 0
      <4>1. Len(s) \in 1 .. Len(s)
        BY <2>2, <3>2
      <4>2. QED
        BY <2>3, <4>1
    <3>3. QED
      BY <3>1, <3>2
  <2>5. SubSeq(s, 1, Len(s)) = SubSeq(t, 1, Len(s))
    <3>1. PICK n \in Nat : n = Len(s)
      BY <2>2
    <3>2. [i \in 1 .. n |-> s[i]] = [i \in 1 .. n |-> t[i]]
      BY <2>3, <3>1
    <3>3. \A u : SubSeq(u, 1, n) = [i \in 1 .. n |-> u[i]]
      BY <3>1
    <3>4. QED
      BY <3>1, <3>2, <3>3
  <2>6. QED
    BY <2>1, <2>4, <2>5 DEF IsPrefix
<1>2. QED
  BY <1>1, Invariant, PTL

\* A key tier that zeroizeCriticalTier emptied stays empty and closed until the reset.
THEOREM WipedTierStaysWiped == Spec => []KeyTierStaysWiped
<1>1. IInv => KeyTierStaysWiped
  <2> SUFFICES ASSUME IInv, NEW l \in wiped
               PROVE  ~mem.access[l] /\ \A a \in Used(mem) : rawRead(mem, l, a) = Zero
    BY DEF KeyTierStaysWiped
  <2>1. ~mem.access[l] /\ \A a \in Used(mem) : mem.memory[l][a] = Zero
    BY DEF IInv, WipedOK
  <2>2. \A a \in Used(mem) : rawRead(mem, l, a) = Zero
    BY <2>1 DEF rawRead
  <2>3. QED
    BY <2>1, <2>2
<1>2. QED
  BY <1>1, Invariant, PTL

\* Requests in order and unaltered, sentinels nobody touched, and a quiet chip never lock
\* the fabric: validateRequest and verifySentinels raise no false alarm.
THEOREM NoFalseAlarms == Spec => []NoFalseAlarm
<1>1. IInv => NoFalseAlarm
  BY DEF IInv, Quiet, NoFalseAlarm
<1>2. QED
  BY <1>1, Invariant, PTL

-----------------------------------------------------------------------------
(* Words.                                                                    *)

\* A word that did not come out of AES.
PlainWord(w) == w = [base |-> w.base, mask |-> w.mask] /\ w.base[1] \notin {"enc", "dec"}

LEMMA XorTwice ==
    ASSUME NEW w, w = [base |-> w.base, mask |-> w.mask], NEW k
    PROVE  Xor(Xor(w, k), k) = w
<1>1. PICK u : u = Xor(w, k)
  OBVIOUS
<1>2. /\ u = [base |-> u.base, mask |-> u.mask] /\ u.base = w.base
      /\ u.mask = (w.mask \cup {k}) \ (w.mask \cap {k})
  BY <1>1 DEF Xor
<1>3. (u.mask \cup {k}) \ (u.mask \cap {k}) = w.mask
  BY <1>2
<1>4. Xor(u, k) = [base |-> u.base, mask |-> (u.mask \cup {k}) \ (u.mask \cap {k})]
  BY <1>2 DEF Xor
<1>5. QED
  BY <1>1, <1>2, <1>3, <1>4

LEMMA XorPlain ==
    ASSUME NEW w, PlainWord(w), NEW k
    PROVE  PlainWord(Xor(w, k)) /\ Xor(w, k).base = w.base
BY DEF PlainWord, Xor

LEMMA ConstPlain ==
    ASSUME NEW v
    PROVE  PlainWord(Const(v))
BY DEF PlainWord, Const

-----------------------------------------------------------------------------
(* Blocks.                                                                   *)

First(a) == (a \div INSTRS_PER_BLOCK) * INSTRS_PER_BLOCK
InABlock == 1 .. INSTRS_PER_BLOCK

\* The number of words is a multiple of the block.
Blocks(m) == \E n \in Nat : m.num_words = n * INSTRS_PER_BLOCK

LEMMA BlockArithmetic ==
    ASSUME NEW a \in Nat
    PROVE  /\ First(a) \in Nat /\ InBlock(a) \in InABlock /\ First(a) + InBlock(a) - 1 = a
           /\ \A i \in InABlock : /\ First(a) + i - 1 \in Nat
                                  /\ First(First(a) + i - 1) = First(a)
                                  /\ InBlock(First(a) + i - 1) = i
<1>1. PICK n \in Nat \ {0} : n = INSTRS_PER_BLOCK
  BY StackAssumption
<1>2. PICK d \in Nat : d = a \div n
  BY <1>1
<1>3. a % n \in 0 .. n - 1 /\ a = d * n + (a % n)
  BY <1>2
<1>4. d * n \in Nat
  BY <1>1, <1>2
<1>5. First(a) = d * n /\ InBlock(a) = (a % n) + 1
  BY <1>1, <1>2 DEF First, InBlock
<1>6. ASSUME NEW i \in 1 .. n
      PROVE  /\ d * n + i - 1 \in Nat
             /\ First(d * n + i - 1) = d * n /\ InBlock(d * n + i - 1) = i
  <2>1. PICK j \in 0 .. n - 1 : j = i - 1
    OBVIOUS
  <2>2. d * n + i - 1 = d * n + j
    BY <1>4, <2>1
  <2>3. (d * n + j) \div n = d /\ (d * n + j) % n = j
    BY <1>1, <1>2, <2>1
  <2>4. QED
    BY <1>1, <1>4, <2>1, <2>2, <2>3 DEF First, InBlock
<1>7. QED
  BY <1>1, <1>3, <1>4, <1>5, <1>6 DEF InABlock

LEMMA BlockInside ==
    ASSUME NEW m, IsMem(m), Blocks(m), NEW a \in Used(m), NEW i \in InABlock
    PROVE  a \in Nat /\ First(a) + i - 1 \in Used(m)
<1>1. PICK n \in Nat \ {0} : n = INSTRS_PER_BLOCK
  BY StackAssumption
<1>2. PICK k \in Nat : m.num_words = k * n
  BY <1>1 DEF Blocks
<1>3. a \in Nat /\ a < k * n
  BY <1>1, <1>2 DEF Used, IsMem
<1>4. PICK d \in Nat : d = a \div n
  BY <1>1, <1>3
<1>5. a % n \in 0 .. n - 1 /\ a = d * n + (a % n)
  BY <1>1, <1>3, <1>4
<1>6. d < k
  <2>1. SUFFICES ASSUME d >= k PROVE FALSE
    BY <1>2, <1>4
  <2>2. d * n >= k * n
    BY <1>1, <1>2, <1>4, <2>1
  <2>3. QED
    BY <1>1, <1>2, <1>3, <1>4, <1>5, <2>2
<1>7. d * n + n <= k * n
  <2>1. k - d - 1 \in Nat
    BY <1>2, <1>4, <1>6
  <2>2. (k - d - 1) * n >= 0
    BY <1>1, <2>1
  <2>3. (k - d - 1) * n = k * n - d * n - n
    BY <1>1, <1>2, <1>4
  <2>4. QED
    BY <1>1, <1>2, <1>4, <2>2, <2>3
<1>8. First(a) = d * n /\ i \in 1 .. n /\ d * n \in Nat /\ k * n \in Nat
  BY <1>1, <1>2, <1>4 DEF First, InABlock
<1>9. QED
  BY <1>1, <1>2, <1>3, <1>7, <1>8 DEF Used
LEMMA BlockIs ==
    ASSUME NEW ws, NEW a \in Nat
    PROVE  /\ BlockAt(ws, a) = [i \in InABlock |-> ws[First(a) + i - 1]]
           /\ BlockAt(ws, a)[InBlock(a)] = ws[a]
           /\ \A i \in InABlock : BlockAt(ws, First(a) + i - 1) = BlockAt(ws, a)
<1>1. \A x : BlockAt(ws, x) = [i \in InABlock |-> ws[First(x) + i - 1]]
  BY DEF BlockAt, First, InABlock
<1>2. BlockAt(ws, a)[InBlock(a)] = ws[a]
  <2>1. PICK i \in InABlock : i = InBlock(a) /\ First(a) + i - 1 = a
    BY BlockArithmetic
  <2>2. BlockAt(ws, a)[i] = ws[First(a) + i - 1]
    BY <1>1
  <2>3. QED
    BY <2>1, <2>2
<1>3. ASSUME NEW i \in InABlock PROVE BlockAt(ws, First(a) + i - 1) = BlockAt(ws, a)
  <2>1. PICK x : x = First(a) + i - 1 /\ First(x) = First(a)
    BY BlockArithmetic
  <2>2. BlockAt(ws, x) = BlockAt(ws, a)
    BY <1>1, <2>1
  <2>3. QED
    BY <2>1, <2>2
<1>4. QED
  BY <1>1, <1>2, <1>3

-----------------------------------------------------------------------------
(* AES.                                                                      *)

\* A block of a layer as it is stored: masked, then encrypted.
Sealed(key, l, block) == Image("enc", key, XorAll(block, CafeKey(l)))

PlainBlock(b) == b = [i \in InABlock |-> b[i]] /\ \A i \in InABlock : PlainWord(b[i])

LEMMA ImageIs ==
    ASSUME NEW kind, NEW key, NEW b
    PROVE  /\ Image(kind, key, b) = [i \in InABlock |-> Image(kind, key, b)[i]]
           /\ \A i \in InABlock : Image(kind, key, b)[i].base = <<kind, key, b, i>>
BY DEF Image, InABlock

LEMMA OneInBlock == 1 \in InABlock
BY StackAssumption DEF InABlock

\* What was encrypted under a key decrypts under it.
LEMMA Opened ==
    ASSUME NEW key, NEW b
    PROVE  aes_decrypt_block(key, Image("enc", key, b)) = b
<1>1. PICK c : c = Image("enc", key, b)
  OBVIOUS
<1>2. c[1].base = <<"enc", key, b, 1>>
  BY <1>1, ImageIs, OneInBlock
<1>3. QED
  BY <1>1, <1>2 DEF aes_decrypt_block, Aes

LEMMA MaskedTwice ==
    ASSUME NEW b, PlainBlock(b), NEW k
    PROVE  /\ PlainBlock(XorAll(b, k))
           /\ XorAll(XorAll(b, k), k) = b
<1>1. XorAll(b, k) = [i \in InABlock |-> Xor(b[i], k)]
  BY DEF XorAll, PlainBlock
<1>2. \A i \in InABlock : PlainWord(Xor(b[i], k))
  BY XorPlain DEF PlainBlock
<1>3. PICK c : c = XorAll(b, k)
  OBVIOUS
<1>4. PlainBlock(c)
  BY <1>1, <1>2, <1>3 DEF PlainBlock
<1>5. XorAll(c, k) = [i \in InABlock |-> Xor(c[i], k)]
  BY <1>4 DEF XorAll, PlainBlock
<1>6. \A i \in InABlock : Xor(c[i], k) = b[i]
  <2> SUFFICES ASSUME NEW i \in InABlock PROVE Xor(c[i], k) = b[i]
    OBVIOUS
  <2>1. c[i] = Xor(b[i], k)
    BY <1>1, <1>3
  <2>2. b[i] = [base |-> b[i].base, mask |-> b[i].mask]
    BY DEF PlainBlock, PlainWord
  <2>3. Xor(Xor(b[i], k), k) = b[i]
    BY <2>2, XorTwice
  <2>4. QED
    BY <2>1, <2>3
<1>7. XorAll(c, k) = b
  BY <1>5, <1>6 DEF PlainBlock
<1>8. QED
  BY <1>3, <1>4, <1>7

\* A block of plain words is stored sealed, and read back as it was.
LEMMA SealAndOpen ==
    ASSUME NEW key, NEW l, NEW b, PlainBlock(b)
    PROVE  /\ aes_encrypt_block(key, XorAll(b, CafeKey(l))) = Sealed(key, l, b)
           /\ XorAll(aes_decrypt_block(key, Sealed(key, l, b)), CafeKey(l)) = b
<1>1. PICK c : c = XorAll(b, CafeKey(l))
  OBVIOUS
<1>2. PlainBlock(c) /\ XorAll(c, CafeKey(l)) = b
  BY <1>1, MaskedTwice
<1>3. c[1].base[1] # "dec"
  BY <1>2, OneInBlock DEF PlainBlock, PlainWord
<1>4. aes_encrypt_block(key, c) = Image("enc", key, c)
  BY <1>3 DEF aes_encrypt_block, Aes
<1>5. aes_decrypt_block(key, Image("enc", key, c)) = c
  BY Opened
<1>6. QED
  BY <1>1, <1>2, <1>4, <1>5 DEF Sealed
-----------------------------------------------------------------------------
(* What a layer holds.                                                       *)

\* The stack without AES.
PlainStack(p) ==
    /\ DOMAIN p = Layers
    /\ \A l \in Layers : DOMAIN p[l] = Addrs /\ \A a \in Addrs : PlainWord(p[l][a])

Seen(m, p, l) ==
    IF m.encrypted[l]
    THEN \A a \in Used(m) : BlockAt(m.memory[l], a) = Sealed(m.keys[l], l, BlockAt(p[l], a))
    ELSE \A a \in Used(m) : m.memory[l][a] = p[l][a]

LEMMA UsedNat ==
    ASSUME NEW m, IsMem(m)
    PROVE  \A a \in Used(m) : a \in Nat
BY DEF Used, IsMem

\* The words of a block are all in use.
LEMMA SameBlock ==
    ASSUME NEW m, IsMem(m), Blocks(m), NEW ws, NEW us, \A a \in Used(m) : ws[a] = us[a]
    PROVE  \A a \in Used(m) : BlockAt(ws, a) = BlockAt(us, a)
<1> SUFFICES ASSUME NEW a \in Used(m) PROVE BlockAt(ws, a) = BlockAt(us, a)
  OBVIOUS
<1>1. a \in Nat
  BY UsedNat
<1>2. \A i \in InABlock : ws[First(a) + i - 1] = us[First(a) + i - 1]
  BY BlockInside
<1>3. /\ BlockAt(ws, a) = [i \in InABlock |-> ws[First(a) + i - 1]]
      /\ BlockAt(us, a) = [i \in InABlock |-> us[First(a) + i - 1]]
  BY <1>1, BlockIs
<1>4. QED
  BY <1>2, <1>3

LEMMA PlainBlockAt ==
    ASSUME NEW m, IsMem(m), Blocks(m), NEW ws, \A a \in Used(m) : PlainWord(ws[a]),
           NEW a \in Used(m)
    PROVE  PlainBlock(BlockAt(ws, a))
<1>1. a \in Nat
  BY UsedNat
<1>2. BlockAt(ws, a) = [i \in InABlock |-> ws[First(a) + i - 1]]
  BY <1>1, BlockIs
<1>3. \A i \in InABlock : PlainWord(ws[First(a) + i - 1])
  BY BlockInside
<1>4. PICK b : b = BlockAt(ws, a)
  OBVIOUS
<1>5. \A i \in InABlock : b[i] = ws[First(a) + i - 1]
  BY <1>2, <1>4
<1>6. b = [i \in InABlock |-> b[i]]
  BY <1>2, <1>4
<1>7. QED
  BY <1>3, <1>4, <1>5, <1>6 DEF PlainBlock

\* A layer written block by block holds those blocks.
LEMMA SealedLayer ==
    ASSUME NEW m, IsMem(m), Blocks(m), NEW ws, NEW ps, NEW key, NEW l,
           \A a \in Used(m) : ws[a] = Sealed(key, l, BlockAt(ps, a))[InBlock(a)]
    PROVE  \A a \in Used(m) : BlockAt(ws, a) = Sealed(key, l, BlockAt(ps, a))
<1> SUFFICES ASSUME NEW a \in Used(m) PROVE BlockAt(ws, a) = Sealed(key, l, BlockAt(ps, a))
  OBVIOUS
<1>1. a \in Nat
  BY UsedNat
<1>2. PICK b : b = Sealed(key, l, BlockAt(ps, a))
  OBVIOUS
<1>3. b = [i \in InABlock |-> b[i]]
  BY <1>2, ImageIs DEF Sealed
<1>4. ASSUME NEW i \in InABlock PROVE ws[First(a) + i - 1] = b[i]
  <2>1. PICK x : x = First(a) + i - 1 /\ x \in Used(m) /\ InBlock(x) = i
    BY <1>1, BlockInside, BlockArithmetic
  <2>2. BlockAt(ps, x) = BlockAt(ps, a)
    BY <1>1, <2>1, BlockIs
  <2>3. ws[x] = Sealed(key, l, BlockAt(ps, x))[InBlock(x)]
    BY <2>1
  <2>4. QED
    BY <1>2, <2>1, <2>2, <2>3
<1>5. BlockAt(ws, a) = [i \in InABlock |-> ws[First(a) + i - 1]]
  BY <1>1, BlockIs
<1>6. BlockAt(ws, a) = b
  BY <1>3, <1>4, <1>5
<1>7. QED
  BY <1>2, <1>6

\* A layer whose words, flag and key stay is seen as before.
LEMMA SeenSame ==
    ASSUME NEW m, IsMem(m), Blocks(m), NEW n, n.num_words = m.num_words, NEW p, NEW q, NEW l,
           n.encrypted[l] = m.encrypted[l], m.encrypted[l] => n.keys[l] = m.keys[l],
           \A a \in Used(m) : n.memory[l][a] = m.memory[l][a] /\ q[l][a] = p[l][a],
           Seen(m, p, l)
    PROVE  Seen(n, q, l)
<1>1. Used(n) = Used(m)
  BY DEF Used
<1>2. CASE ~m.encrypted[l]
  BY <1>1, <1>2 DEF Seen
<1>3. CASE m.encrypted[l]
  <2>1. PICK ws, us : ws = n.memory[l] /\ us = m.memory[l]
    OBVIOUS
  <2>2. PICK ps, qs : ps = p[l] /\ qs = q[l]
    OBVIOUS
  <2>3. \A a \in Used(m) : BlockAt(ws, a) = BlockAt(us, a)
    BY <2>1, SameBlock
  <2>4. \A a \in Used(m) : BlockAt(qs, a) = BlockAt(ps, a)
    BY <2>2, SameBlock
  <2>5. QED
    BY <1>1, <1>3, <2>1, <2>2, <2>3, <2>4 DEF Seen
<1>4. QED
  BY <1>2, <1>3

\* A word of a layer that is seen reads as in the stack without AES.
LEMMA ReadSeen ==
    ASSUME NEW m, IsMem(m), Blocks(m), NEW p, PlainStack(p), NEW l, isValidLayer(m, l),
           Seen(m, p, l), NEW a \in Used(m)
    PROVE  logicalReadNoAccessCheck(m, l, a) = p[l][a]
<1>1. l \in Layers /\ a \in Addrs /\ a \in Nat
  BY ValidLayers, UsedAddrs, UsedNat
<1>2. CASE ~m.encrypted[l]
  BY <1>2 DEF Seen, logicalReadNoAccessCheck
<1>3. CASE m.encrypted[l]
  <2>1. PICK b : b = BlockAt(p[l], a)
    OBVIOUS
  <2>2. BlockAt(m.memory[l], a) = Sealed(m.keys[l], l, b)
    BY <1>3, <2>1 DEF Seen
  <2>3. PlainBlock(b)
    <3>1. \A x \in Used(m) : PlainWord(p[l][x])
      BY <1>1, UsedAddrs DEF PlainStack
    <3>2. PICK ps : ps = p[l]
      OBVIOUS
    <3>3. QED
      BY <2>1, <3>1, <3>2, PlainBlockAt
  <2>4. PICK key : key = m.keys[l]
    OBVIOUS
  <2>5. PICK c : c = aes_decrypt_block(key, Sealed(key, l, b))
    OBVIOUS
  <2>6. XorAll(c, CafeKey(l)) = b
    BY <2>3, <2>5, SealAndOpen
  <2>7. logicalReadNoAccessCheck(m, l, a) = Xor(c[InBlock(a)], CafeKey(l))
    BY <1>3, <2>2, <2>4, <2>5 DEF logicalReadNoAccessCheck
  <2>8. InBlock(a) \in DOMAIN c
    <3>1. DOMAIN b = InABlock /\ DOMAIN XorAll(c, CafeKey(l)) = DOMAIN c
      BY <2>3 DEF PlainBlock, XorAll
    <3>2. QED
      BY <1>1, <2>6, <3>1, BlockArithmetic
  <2>9. Xor(c[InBlock(a)], CafeKey(l)) = b[InBlock(a)]
    BY <2>6, <2>8 DEF XorAll
  <2>10. b[InBlock(a)] = p[l][a]
    BY <1>1, <2>1, BlockIs
  <2>11. QED
    BY <2>7, <2>9, <2>10
<1>4. QED
  BY <1>2, <1>3
\* Every layer that can be read holds what it should.
Stored(m, p, lo) ==
    /\ Blocks(m)
    /\ PlainStack(p)
    /\ \A l \in Layers \ lo : isValidLayer(m, l) => Seen(m, p, l)

\* Neither stack changes in layer l.
LayerSame(m, n, p, q, l) ==
    /\ n.encrypted[l] = m.encrypted[l] /\ n.keys[l] = m.keys[l]
    /\ \A a \in Used(m) : n.memory[l][a] = m.memory[l][a] /\ q[l][a] = p[l][a]

LEMMA LayerSameSeen ==
    ASSUME NEW m, IsMem(m), Blocks(m), NEW n, n.num_words = m.num_words,
           NEW p, NEW q, NEW l, LayerSame(m, n, p, q, l), Seen(m, p, l)
    PROVE  Seen(n, q, l)
BY SeenSame DEF LayerSame

\* The object with the words of the stack without AES.
WithPlain(m, p) == [m EXCEPT !.memory = p]

LEMMA WithPlainIs ==
    ASSUME NEW m, IsMem(m), NEW p, PlainStack(p)
    PROVE  /\ IsMem(WithPlain(m, p)) /\ WithPlain(m, p).memory = p
           /\ \A x \in MemFields \ {"memory"} : WithPlain(m, p)[x] = m[x]
           /\ Used(WithPlain(m, p)) = Used(m)
           /\ \A l : isValidLayer(WithPlain(m, p), l) <=> isValidLayer(m, l)
<1>1. PICK n : n = WithPlain(m, p)
  OBVIOUS
<1>2. /\ DOMAIN n = MemFields /\ n.memory = p
      /\ \A x \in MemFields \ {"memory"} : n[x] = m[x]
  BY <1>1 DEF WithPlain, IsMem, MemFields
<1>3. /\ n.num_words = m.num_words /\ n.num_layers = m.num_layers /\ n.access = m.access
      /\ n.encrypted = m.encrypted /\ n.hidden = m.hidden /\ n.keys = m.keys
  BY <1>2 DEF MemFields
<1>4. IsMem(n)
  BY <1>2, <1>3 DEF IsMem, PlainStack
<1>5. Used(n) = Used(m) /\ \A l : isValidLayer(n, l) <=> isValidLayer(m, l)
  BY <1>3 DEF Used, isValidLayer
<1>6. QED
  BY <1>1, <1>2, <1>4, <1>5

\* Steps are shown layer by layer.
LEMMA StoredStep ==
    ASSUME NEW m, IsMem(m), NEW p, NEW lo, Stored(m, p, lo),
           NEW n, n.num_words = m.num_words, NEW q, PlainStack(q), NEW nlo,
           \A l \in Layers \ nlo : isValidLayer(n, l) =>
              \/ l \notin lo /\ isValidLayer(m, l) /\ LayerSame(m, n, p, q, l)
              \/ Seen(n, q, l)
    PROVE  Stored(n, q, nlo)
<1>1. Blocks(n)
  BY DEF Stored, Blocks
<1>2. ASSUME NEW l \in Layers \ nlo, isValidLayer(n, l),
             l \notin lo, isValidLayer(m, l), LayerSame(m, n, p, q, l)
      PROVE  Seen(n, q, l)
  BY <1>2, SeenSame DEF Stored, LayerSame
<1>3. QED
  BY <1>1, <1>2 DEF Stored

\* The same word is put in both stacks.
PutWord(p, l, a, w) == [p EXCEPT ![l] = [@ EXCEPT ![a] = w]]

LEMMA PutWordIs ==
    ASSUME NEW p, PlainStack(p), NEW l \in Layers, NEW a \in Addrs, NEW w, PlainWord(w)
    PROVE  /\ PlainStack(PutWord(p, l, a, w))
           /\ PutWord(p, l, a, w)[l][a] = w
           /\ \A x \in Layers, y \in Addrs :
                 (x # l \/ y # a) => PutWord(p, l, a, w)[x][y] = p[x][y]
BY DEF PlainStack, PutWord

\* The stack without AES as an object.
Unsealed(m, p) == [m EXCEPT !.memory = p, !.encrypted = [x \in Layers |-> FALSE]]

LEMMA WriteOnPlain ==
    ASSUME NEW m, IsMem(m), NEW p, PlainStack(p), NEW l, NEW a, NEW w, NEW q,
           q = write(Unsealed(m, p), l, a, w).memory
    PROVE  q = IF ~isValidLayer(m, l) \/ a \notin Used(m) \/ ~m.access[l] THEN p
               ELSE PutWord(p, l, a, w)
<1>1. PICK n : n = Unsealed(m, p)
  OBVIOUS
<1>2. /\ DOMAIN n = MemFields /\ n.memory = p /\ n.encrypted = [x \in Layers |-> FALSE]
      /\ n.num_words = m.num_words /\ n.num_layers = m.num_layers /\ n.access = m.access
  BY <1>1 DEF IsMem, MemFields, Unsealed
<1>3. Used(n) = Used(m) /\ (isValidLayer(n, l) <=> isValidLayer(m, l))
  BY <1>2 DEF Used, isValidLayer
<1>4. isValidLayer(m, l) => ~n.encrypted[l]
  BY <1>2, ValidLayers
<1>5. q = write(n, l, a, w).memory
  BY <1>1
<1>6. CASE ~isValidLayer(m, l) \/ a \notin Used(m) \/ ~m.access[l]
  BY <1>2, <1>3, <1>5, <1>6 DEF write
<1>7. CASE ~(~isValidLayer(m, l) \/ a \notin Used(m) \/ ~m.access[l])
  <2>1. write(n, l, a, w) = [n EXCEPT !.memory[l][a] = w]
    BY <1>2, <1>3, <1>4, <1>7 DEF write
  <2>2. write(n, l, a, w).memory = PutWord(n.memory, l, a, w)
    BY <1>2, <2>1 DEF PutWord, MemFields
  <2>3. QED
    BY <1>2, <1>5, <1>7, <2>2
<1>8. QED
  BY <1>6, <1>7

\* A write through the encryption is a write.
LEMMA WriteSeen ==
    ASSUME NEW m, IsMem(m), NEW p, NEW lo, Stored(m, p, lo), NEW l, NEW a, NEW w, PlainWord(w),
           NEW q, q = write(Unsealed(m, p), l, a, w).memory
    PROVE  /\ Stored(write(m, l, a, w), q, lo)
           /\ \A x \in Layers, y \in Addrs : (x # l \/ y # a) => q[x][y] = p[x][y]
<1>1. PICK n : n = write(m, l, a, w)
  OBVIOUS
<1>2. /\ q = IF ~isValidLayer(m, l) \/ a \notin Used(m) \/ ~m.access[l] THEN p
             ELSE PutWord(p, l, a, w)
      /\ PlainStack(p) /\ Blocks(m)
  BY WriteOnPlain DEF Stored
<1>3. CASE ~isValidLayer(m, l) \/ a \notin Used(m) \/ ~m.access[l]
  <2>1. n = m /\ q = p
    BY <1>1, <1>2, <1>3 DEF write
  <2>2. QED
    BY <1>1, <2>1
<1>4. CASE ~(~isValidLayer(m, l) \/ a \notin Used(m) \/ ~m.access[l])
  <2>1. l \in Layers /\ a \in Used(m) /\ a \in Addrs /\ a \in Nat /\ isValidLayer(m, l)
    BY <1>4, ValidLayers, UsedAddrs, UsedNat
  <2>2. q = PutWord(p, l, a, w)
    BY <1>2, <1>4
  <2>3. /\ PlainStack(q) /\ q[l][a] = w
        /\ \A x \in Layers, y \in Addrs : (x # l \/ y # a) => q[x][y] = p[x][y]
    BY <1>2, <2>1, <2>2, PutWordIs
  <2>4. /\ Keeps(m, n) /\ \A x \in MemFields \ {"memory"} : n[x] = m[x]
    BY <1>1, WriteKeeps
  <2>5. /\ n.num_words = m.num_words /\ n.num_layers = m.num_layers
        /\ n.encrypted = m.encrypted /\ n.keys = m.keys /\ Used(n) = Used(m)
    BY <2>4 DEF MemFields, Used
  <2>6. \A x \in Layers : x # l => n.memory[x] = m.memory[x]
    <3>1. DOMAIN m = MemFields /\ DOMAIN m.memory = Layers
      BY DEF IsMem
    <3>2. \E ws : n = WithWords(m, l, ws)
      BY <1>1, <1>4 DEF write, WithWords
    <3>3. QED
      BY <2>1, <3>1, <3>2 DEF WithWords, MemFields
  <2>7. \A x \in Layers : x # l => LayerSame(m, n, p, q, x)
    BY <2>3, <2>5, <2>6, UsedAddrs DEF LayerSame
  <2>8. ASSUME l \notin lo PROVE Seen(n, q, l)
    <3>1. Seen(m, p, l)
      BY <2>1, <2>8 DEF Stored
    <3>2. CASE ~m.encrypted[l]
      <4>1. n = [m EXCEPT !.memory[l][a] = w]
        BY <1>1, <1>4, <3>2 DEF write
      <4>2. \A y \in Addrs : n.memory[l][y] = IF y = a THEN w ELSE m.memory[l][y]
        BY <2>1, <4>1 DEF IsMem, MemFields
      <4>3. QED
        BY <2>1, <2>3, <2>5, <3>1, <3>2, <4>2, UsedAddrs DEF Seen
    <3>3. CASE m.encrypted[l]
      <4>1. PICK key, ps, qs : key = m.keys[l] /\ ps = p[l] /\ qs = q[l]
        OBVIOUS
      <4>2. PICK b, c : b = BlockAt(ps, a) /\ c = BlockAt(qs, a)
        OBVIOUS
      <4>3. PlainBlock(b) /\ PlainBlock(c)
        <5>1. \A x \in Used(m) : PlainWord(ps[x]) /\ PlainWord(qs[x])
          BY <1>2, <2>1, <2>3, <4>1, UsedAddrs DEF PlainStack
        <5>2. QED
          BY <1>2, <2>1, <4>2, <5>1, PlainBlockAt
      <4>4. BlockAt(m.memory[l], a) = Sealed(key, l, b)
        BY <2>1, <3>1, <3>3, <4>1, <4>2 DEF Seen
      <4>5. XorAll(aes_decrypt_block(key, Sealed(key, l, b)), CafeKey(l)) = b
        BY <4>3, SealAndOpen
      <4>6. [b EXCEPT ![InBlock(a)] = w] = c
        <5>1. /\ b = [i \in InABlock |-> ps[First(a) + i - 1]]
              /\ c = [i \in InABlock |-> qs[First(a) + i - 1]]
          BY <2>1, <4>2, BlockIs
        <5>2. ASSUME NEW i \in InABlock
              PROVE  c[i] = IF i = InBlock(a) THEN w ELSE b[i]
          <6>1. PICK y : y = First(a) + i - 1 /\ y \in Addrs /\ InBlock(y) = i
            BY <1>2, <2>1, BlockInside, BlockArithmetic, UsedAddrs
          <6>2. c[i] = qs[y] /\ b[i] = ps[y]
            BY <5>1, <6>1
          <6>3. i = InBlock(a) <=> y = a
            BY <2>1, <6>1, BlockArithmetic
          <6>4. QED
            BY <2>1, <2>3, <4>1, <6>1, <6>2, <6>3
        <5>3. InBlock(a) \in InABlock
          BY <2>1, BlockArithmetic
        <5>4. QED
          BY <5>1, <5>2, <5>3
      <4>7. aes_encrypt_block(key, XorAll(c, CafeKey(l))) = Sealed(key, l, c)
        BY <4>3, SealAndOpen
      <4>8. PICK d : d = a - InBlock(a) + 1
        OBVIOUS
      <4>9. PICK ws : ws = [x \in Addrs |-> IF x - d \in 0 .. INSTRS_PER_BLOCK - 1
                                            THEN Sealed(key, l, c)[x - d + 1]
                                            ELSE m.memory[l][x]]
        OBVIOUS
      <4>10. n = WithWords(m, l, ws)
        BY <1>1, <1>4, <3>3, <4>1, <4>4, <4>5, <4>6, <4>7, <4>8, <4>9 DEF write, WithWords
      <4>11. n.memory[l] = ws
        <5>1. DOMAIN ws = Addrs
          BY <4>9
        <5>2. WithWords(m, l, ws).memory = [m.memory EXCEPT ![l] = ws]
          BY <2>1, <5>1, LayerReplaced
        <5>3. QED
          BY <2>1, <4>10, <5>2 DEF IsMem
      <4>12. \A x \in Used(m) : ws[x] = Sealed(key, l, BlockAt(qs, x))[InBlock(x)]
        <5> SUFFICES ASSUME NEW x \in Used(m)
                     PROVE  ws[x] = Sealed(key, l, BlockAt(qs, x))[InBlock(x)]
          OBVIOUS
        <5>1. x \in Addrs /\ x \in Nat
          BY UsedAddrs, UsedNat
        <5>2. d = First(a) /\ d \in Nat
          <6>1. /\ First(a) \in Nat /\ InBlock(a) \in 1 .. INSTRS_PER_BLOCK
                /\ First(a) + InBlock(a) - 1 = a
            BY <2>1, BlockArithmetic DEF InABlock
          <6>2. PICK f \in Nat, i \in 1 .. INSTRS_PER_BLOCK :
                   f = First(a) /\ i = InBlock(a) /\ f + i - 1 = a
            BY <6>1
          <6>3. QED
            BY <4>8, <6>2, StackAssumption
        <5>3. CASE x - d \in 0 .. INSTRS_PER_BLOCK - 1
          <6>1. PICK i \in InABlock : i = x - d + 1 /\ x = First(a) + i - 1
            BY <5>1, <5>2, <5>3, StackAssumption DEF InABlock
          <6>2. BlockAt(qs, x) = c /\ InBlock(x) = i
            BY <2>1, <4>2, <6>1, BlockIs, BlockArithmetic
          <6>3. QED
            BY <4>9, <5>1, <5>3, <6>1, <6>2
        <5>4. CASE x - d \notin 0 .. INSTRS_PER_BLOCK - 1
          <6>1. ws[x] = m.memory[l][x]
            BY <4>9, <5>1, <5>4
          <6>2. First(x) # First(a)
            <7>1. PICK f \in Nat, i \in 1 .. INSTRS_PER_BLOCK : f = First(x) /\ f + i - 1 = x
              BY <5>1, BlockArithmetic DEF InABlock
            <7>2. f # d
              BY <5>4, <7>1, StackAssumption
            <7>3. QED
              BY <5>2, <7>1, <7>2
          <6>3. BlockAt(qs, x) = BlockAt(ps, x)
            <7>1. ASSUME NEW i \in InABlock
                  PROVE  qs[First(x) + i - 1] = ps[First(x) + i - 1]
              <8>1. PICK y : y = First(x) + i - 1 /\ y \in Addrs /\ First(y) = First(x)
                BY <1>2, <5>1, BlockInside, BlockArithmetic, UsedAddrs
              <8>2. y # a
                BY <6>2, <8>1
              <8>3. QED
                BY <2>1, <2>3, <4>1, <8>1, <8>2
            <7>2. QED
              BY <5>1, <7>1, BlockIs
          <6>4. BlockAt(m.memory[l], x) = Sealed(key, l, BlockAt(ps, x))
            BY <3>1, <3>3, <4>1 DEF Seen
          <6>5. BlockAt(m.memory[l], x)[InBlock(x)] = m.memory[l][x]
            BY <5>1, BlockIs
          <6>6. QED
            BY <6>1, <6>3, <6>4, <6>5
        <5>5. QED
          BY <5>3, <5>4
      <4>13. \A x \in Used(m) : BlockAt(ws, x) = Sealed(key, l, BlockAt(qs, x))
        BY <1>2, <4>12, SealedLayer
      <4>14. QED
        BY <2>5, <3>3, <4>1, <4>11, <4>13 DEF Seen
    <3>4. QED
      BY <3>2, <3>3
  <2>9. \A x \in Layers \ lo : isValidLayer(n, x) =>
            \/ x \notin lo /\ isValidLayer(m, x) /\ LayerSame(m, n, p, q, x)
            \/ Seen(n, q, x)
    <3>1. \A x : isValidLayer(n, x) <=> isValidLayer(m, x)
      BY <2>5 DEF isValidLayer
    <3>2. QED
      BY <2>7, <2>8, <3>1
  <2>10. Stored(n, q, lo)
    BY <2>3, <2>5, <2>9, StoredStep
  <2>11. QED
    BY <1>1, <2>3, <2>10
<1>5. QED
  BY <1>3, <1>4
\* Nothing but layer l changes.
OneLayer(m, n, l) ==
    /\ n.num_words = m.num_words /\ n.num_layers = m.num_layers
    /\ \A x \in Layers \ {l} : /\ n.memory[x] = m.memory[x]
                               /\ n.encrypted[x] = m.encrypted[x] /\ n.keys[x] = m.keys[x]

LEMMA OneLayerStep ==
    ASSUME NEW m, IsMem(m), NEW p, NEW lo, Stored(m, p, lo),
           NEW n, NEW l, OneLayer(m, n, l), NEW q, PlainStack(q),
           \A x \in Layers \ {l} : q[x] = p[x],
           NEW nlo, lo \subseteq nlo \cup {l},
           l \in Layers \ nlo /\ isValidLayer(m, l) => Seen(n, q, l)
    PROVE  Stored(n, q, nlo)
<1>1. \A x : isValidLayer(n, x) <=> isValidLayer(m, x)
  BY DEF OneLayer, isValidLayer
<1>2. \A x \in Layers \ {l} : LayerSame(m, n, p, q, x)
  BY DEF OneLayer, LayerSame
<1>3. \A x \in Layers \ nlo : isValidLayer(n, x) =>
            \/ x \notin lo /\ isValidLayer(m, x) /\ LayerSame(m, n, p, q, x)
            \/ Seen(n, q, x)
  BY <1>1, <1>2
<1>4. n.num_words = m.num_words
  BY DEF OneLayer
<1>5. QED
  BY <1>3, <1>4, StoredStep

\* The words of one layer are replaced in the stack without AES.
PutLayer(p, l, ws) == [p EXCEPT ![l] = ws]

LEMMA PutLayerIs ==
    ASSUME NEW p, PlainStack(p), NEW l \in Layers,
           NEW ws, DOMAIN ws = Addrs, \A a \in Addrs : PlainWord(ws[a])
    PROVE  /\ PlainStack(PutLayer(p, l, ws)) /\ PutLayer(p, l, ws)[l] = ws
           /\ \A x \in Layers \ {l} : PutLayer(p, l, ws)[x] = p[x]
BY DEF PlainStack, PutLayer

LEMMA OtherWords ==
    ASSUME NEW m, IsMem(m), NEW l \in Layers, NEW ws, DOMAIN ws = Addrs
    PROVE  /\ OneLayer(m, WithWords(m, l, ws), l)
           /\ WithWords(m, l, ws).memory[l] = ws
           /\ WithWords(m, l, ws).encrypted = m.encrypted /\ WithWords(m, l, ws).keys = m.keys
<1>1. PICK n : n = WithWords(m, l, ws)
  OBVIOUS
<1>2. n.memory = [m.memory EXCEPT ![l] = ws] /\ \A x \in MemFields \ {"memory"} : n[x] = m[x]
  BY <1>1, LayerReplaced
<1>3. /\ n.num_words = m.num_words /\ n.num_layers = m.num_layers
      /\ n.encrypted = m.encrypted /\ n.keys = m.keys
  BY <1>2 DEF MemFields
<1>4. n.memory[l] = ws /\ \A x \in Layers \ {l} : n.memory[x] = m.memory[x]
  BY <1>2 DEF IsMem
<1>5. QED
  BY <1>1, <1>3, <1>4 DEF OneLayer

LEMMA WriteAllOnPlain ==
    ASSUME NEW m, IsMem(m), NEW p, PlainStack(p), NEW l, isValidLayer(m, l), m.access[l], NEW ws,
           \A a \in DOMAIN ws : PlainWord(ws[a]),
           NEW q, q = writeAll(Unsealed(m, p), l, ws).memory
    PROVE  /\ PlainStack(q) /\ \A x \in Layers \ {l} : q[x] = p[x]
           /\ \A a \in Addrs : q[l][a] = IF a \in Used(m) /\ a \in DOMAIN ws THEN ws[a]
                                         ELSE p[l][a]
<1>1. PICK n : n = Unsealed(m, p)
  OBVIOUS
<1>2. /\ DOMAIN n = MemFields /\ n.memory = p /\ n.encrypted = [x \in Layers |-> FALSE]
      /\ n.num_words = m.num_words /\ n.num_layers = m.num_layers /\ n.access = m.access
      /\ n.hidden = m.hidden /\ n.keys = m.keys
  BY <1>1 DEF IsMem, MemFields, Unsealed
<1>3. Used(n) = Used(m) /\ isValidLayer(n, l) /\ l \in Layers /\ ~n.encrypted[l]
  BY <1>2, ValidLayers DEF Used, isValidLayer
<1>4. IsMem(n)
  BY <1>2 DEF IsMem, PlainStack
<1> DEFINE view == [a \in Addrs |-> IF a \in DOMAIN ws \cap Used(n) THEN ws[a]
                                    ELSE logicalReadNoAccessCheck(n, l, a)]
           E(b) == aes_encrypt_block(n.keys[l], XorAll(b, CafeKey(l)))
           new == [a \in Addrs |-> IF a \notin Used(n) THEN n.memory[l][a]
                                   ELSE IF ~n.encrypted[l] THEN view[a]
                                   ELSE E(BlockAt(view, a))[InBlock(a)]]
<1>5. writeAll(n, l, ws) = WithWords(n, l, new) /\ DOMAIN new = Addrs
  BY <1>2, <1>3 DEF writeAll, WithWords
<1>6. ASSUME NEW a \in Addrs
      PROVE  new[a] = IF a \in Used(m) /\ a \in DOMAIN ws THEN ws[a] ELSE p[l][a]
  <2>1. a \in Used(m) => logicalReadNoAccessCheck(n, l, a) = p[l][a]
    BY <1>2, <1>3 DEF logicalReadNoAccessCheck
  <2>2. new[a] = IF a \notin Used(n) THEN n.memory[l][a] ELSE view[a]
    BY <1>3
  <2>3. view[a] = IF a \in DOMAIN ws \cap Used(n) THEN ws[a]
                  ELSE logicalReadNoAccessCheck(n, l, a)
    OBVIOUS
  <2> HIDE DEF view, new
  <2>4. QED
    BY <1>2, <1>3, <2>1, <2>2, <2>3
<1> HIDE DEF view, new
<1>7. \A a \in Addrs : PlainWord(new[a])
  BY <1>3, <1>6 DEF PlainStack
<1>8. q = PutLayer(p, l, new)
  <2>1. WithWords(n, l, new).memory = [n.memory EXCEPT ![l] = new]
    BY <1>3, <1>4, <1>5, LayerReplaced
  <2>2. QED
    BY <1>1, <1>2, <1>5, <2>1 DEF PutLayer
<1>9. QED
  BY <1>3, <1>5, <1>6, <1>7, <1>8, PutLayerIs

\* So is a write of several words.
LEMMA WriteAllSeen ==
    ASSUME NEW m, IsMem(m), NEW p, NEW lo, Stored(m, p, lo), NEW l, NEW ws,
           \A a \in DOMAIN ws : PlainWord(ws[a]),
           NEW q, q = writeAll(Unsealed(m, p), l, ws).memory
    PROVE  /\ Stored(writeAll(m, l, ws), q, lo)
           /\ \A x \in Layers, y \in Addrs : (x # l \/ y \notin DOMAIN ws) => q[x][y] = p[x][y]
<1>1. PlainStack(p) /\ Blocks(m)
  BY DEF Stored
<1>2. CASE ~isValidLayer(m, l) \/ ~m.access[l]
  <2>1. writeAll(m, l, ws) = m
    BY <1>2 DEF writeAll
  <2>2. PICK n : n = Unsealed(m, p)
    OBVIOUS
  <2>3. n.memory = p /\ n.num_layers = m.num_layers /\ n.access = m.access
    BY <2>2 DEF Unsealed, IsMem, MemFields
  <2>4. writeAll(n, l, ws) = n
    BY <1>2, <2>3 DEF writeAll, isValidLayer
  <2>5. QED
    BY <2>1, <2>2, <2>3, <2>4
<1>3. CASE isValidLayer(m, l) /\ m.access[l]
  <2>1. /\ PlainStack(q) /\ \A x \in Layers \ {l} : q[x] = p[x]
        /\ \A a \in Addrs : q[l][a] = IF a \in Used(m) /\ a \in DOMAIN ws THEN ws[a] ELSE p[l][a]
    BY <1>1, <1>3, WriteAllOnPlain
  <2>2. l \in Layers /\ \A a \in Used(m) : a \in Addrs
    BY <1>3, ValidLayers, UsedAddrs
  <2> DEFINE view == [a \in Addrs |-> IF a \in DOMAIN ws \cap Used(m) THEN ws[a]
                                      ELSE logicalReadNoAccessCheck(m, l, a)]
             E(b) == aes_encrypt_block(m.keys[l], XorAll(b, CafeKey(l)))
             new == [a \in Addrs |-> IF a \notin Used(m) THEN m.memory[l][a]
                                     ELSE IF ~m.encrypted[l] THEN view[a]
                                     ELSE E(BlockAt(view, a))[InBlock(a)]]
  <2>3. writeAll(m, l, ws) = WithWords(m, l, new) /\ DOMAIN new = Addrs
    BY <1>3 DEF writeAll, WithWords
  <2>4. PICK n : n = WithWords(m, l, new)
    OBVIOUS
  <2>5. /\ OneLayer(m, n, l) /\ n.memory[l] = new
        /\ n.encrypted = m.encrypted /\ n.keys = m.keys
    <3> HIDE DEF new
    <3>1. QED
      BY <2>2, <2>3, <2>4, OtherWords
  <2>6. ASSUME l \notin lo PROVE Seen(n, q, l)
    <3>1. Seen(m, p, l)
      BY <1>3, <2>2, <2>6 DEF Stored
    <3>2. \A a \in Used(m) : logicalReadNoAccessCheck(m, l, a) = p[l][a]
      BY <1>1, <1>3, <3>1, ReadSeen
    <3>3. \A a \in Used(m) : view[a] = q[l][a]
      BY <2>1, <2>2, <3>2
    <3>4. \A a \in Used(m) : new[a] = IF ~m.encrypted[l] THEN view[a]
                                      ELSE E(BlockAt(view, a))[InBlock(a)]
      BY <2>2
    <3>5. Used(n) = Used(m)
      BY <2>5 DEF OneLayer, Used
    <3> HIDE DEF view, new
    <3>6. CASE ~m.encrypted[l]
      BY <2>5, <3>3, <3>4, <3>5, <3>6 DEF Seen
    <3>7. CASE m.encrypted[l]
      <4>1. PICK key, qs : key = m.keys[l] /\ qs = q[l]
        OBVIOUS
      <4>2. \A a \in Used(m) : BlockAt(view, a) = BlockAt(qs, a)
        BY <1>1, <3>3, <4>1, SameBlock
      <4>3. \A a \in Used(m) : PlainWord(qs[a])
        BY <2>1, <2>2, <4>1 DEF PlainStack
      <4>4. \A a \in Used(m) : PlainBlock(BlockAt(qs, a))
        BY <1>1, <4>3, PlainBlockAt
      <4>5. \A a \in Used(m) : aes_encrypt_block(key, XorAll(BlockAt(qs, a), CafeKey(l))) =
                               Sealed(key, l, BlockAt(qs, a))
        BY <4>4, SealAndOpen
      <4>6. \A a \in Used(m) : new[a] = Sealed(key, l, BlockAt(qs, a))[InBlock(a)]
        BY <3>4, <3>7, <4>1, <4>2, <4>5
      <4>7. \A a \in Used(m) : BlockAt(new, a) = Sealed(key, l, BlockAt(qs, a))
        BY <1>1, <4>6, SealedLayer
      <4>8. QED
        BY <2>5, <3>5, <3>7, <4>1, <4>7 DEF Seen
    <3>8. QED
      BY <3>6, <3>7
  <2>7. Stored(n, q, lo)
    BY <2>1, <2>5, <2>6, OneLayerStep
  <2>8. \A x \in Layers, y \in Addrs : (x # l \/ y \notin DOMAIN ws) => q[x][y] = p[x][y]
    BY <2>1
  <2>9. QED
    BY <2>3, <2>4, <2>7, <2>8
<1>4. QED
  BY <1>2, <1>3
-----------------------------------------------------------------------------
(* Encryption and masks.                                                     *)

LEMMA MaskedBlock ==
    ASSUME NEW m, IsMem(m), Blocks(m), NEW ws, NEW ps, NEW k,
           \A a \in Used(m) : ws[a] = Xor(ps[a], k)
    PROVE  \A a \in Used(m) : BlockAt(ws, a) = XorAll(BlockAt(ps, a), k)
<1> SUFFICES ASSUME NEW a \in Used(m) PROVE BlockAt(ws, a) = XorAll(BlockAt(ps, a), k)
  OBVIOUS
<1>1. a \in Nat
  BY UsedNat
<1>2. /\ BlockAt(ws, a) = [i \in InABlock |-> ws[First(a) + i - 1]]
      /\ BlockAt(ps, a) = [i \in InABlock |-> ps[First(a) + i - 1]]
  BY <1>1, BlockIs
<1>3. \A i \in InABlock : ws[First(a) + i - 1] = Xor(ps[First(a) + i - 1], k)
  BY BlockInside
<1>4. PICK b : b = BlockAt(ps, a)
  OBVIOUS
<1>5. DOMAIN b = InABlock /\ \A i \in InABlock : b[i] = ps[First(a) + i - 1]
  BY <1>2, <1>4
<1>6. XorAll(b, k) = [i \in InABlock |-> Xor(b[i], k)]
  BY <1>5 DEF XorAll
<1>7. QED
  BY <1>2, <1>3, <1>4, <1>5, <1>6

\* The flag of the layer changes with its words.
Recoded(m, l, ws, b) == [m EXCEPT !.memory[l] = ws, !.encrypted[l] = b]

LEMMA RecodedIs ==
    ASSUME NEW m, IsMem(m), NEW l \in Layers, NEW ws, DOMAIN ws = Addrs, NEW b,
           NEW n, n = Recoded(m, l, ws, b)
    PROVE  OneLayer(m, n, l) /\ n.memory[l] = ws /\ n.encrypted[l] = b /\ n.keys = m.keys
           /\ n.hidden = m.hidden
<1>1. /\ n.memory = [m.memory EXCEPT ![l] = ws] /\ n.encrypted = [m.encrypted EXCEPT ![l] = b]
      /\ n.num_words = m.num_words /\ n.num_layers = m.num_layers /\ n.keys = m.keys
      /\ n.hidden = m.hidden
  BY DEF Recoded, IsMem, MemFields
<1>2. QED
  BY <1>1 DEF OneLayer, IsMem

\* Masking and encrypting a layer does not show.
LEMMA EncryptSeen ==
    ASSUME NEW m, IsMem(m), NEW p, NEW lo, Stored(m, p, lo), NEW l
    PROVE  Stored(encryptLayer(m, l), p, lo) /\ encryptLayer(m, l).hidden = m.hidden
           /\ encryptLayer(m, l).num_layers = m.num_layers
<1>1. CASE ~isValidLayer(m, l) \/ m.encrypted[l]
  BY <1>1 DEF encryptLayer
<1>2. CASE isValidLayer(m, l) /\ ~m.encrypted[l]
  <2>1. l \in Layers /\ Blocks(m) /\ PlainStack(p) /\ \A a \in Used(m) : a \in Addrs
    BY <1>2, ValidLayers, UsedAddrs DEF Stored
  <2>2. PICK us : us = OnUsed(m, m.memory[l], CafeKey(l))
    OBVIOUS
  <2>3. DOMAIN us = Addrs /\ \A a \in Used(m) : us[a] = Xor(m.memory[l][a], CafeKey(l))
    BY <2>1, <2>2 DEF OnUsed
  <2>4. PICK s : s = WithWords(m, l, us)
    OBVIOUS
  <2>5. s = scrambleLayerWithKey(m, l, CafeKey(l))
    BY <1>2, <2>2, <2>4 DEF scrambleLayerWithKey, WithWords
  <2>6. s.memory[l] = us
    BY <2>1, <2>3, <2>4, OtherWords
  <2> DEFINE E(b) == aes_encrypt_block(m.keys[l], b)
             ws == ByBlock(m, us, E)
  <2>7. /\ encryptLayer(m, l) = Recoded(s, l, ws, TRUE)
        /\ DOMAIN ws = Addrs
        /\ \A a \in Used(m) : ws[a] = aes_encrypt_block(m.keys[l], BlockAt(us, a))[InBlock(a)]
    <3>1. encryptLayer(m, l) = [s EXCEPT !.memory[l] = ByBlock(m, s.memory[l], E),
                                         !.encrypted[l] = TRUE]
      BY <1>2, <2>5 DEF encryptLayer
    <3>2. QED
      BY <2>1, <2>6, <3>1 DEF ByBlock, Recoded
  <2> HIDE DEF ws
  <2>8. PICK n : n = Recoded(m, l, ws, TRUE)
    OBVIOUS
  <2>9. encryptLayer(m, l) = n
    <3>1. Recoded(s, l, ws, TRUE) = n
      BY <2>1, <2>4, <2>8 DEF Recoded, WithWords, IsMem, MemFields
    <3>2. QED
      BY <2>7, <3>1
  <2>10. /\ OneLayer(m, n, l) /\ n.memory[l] = ws /\ n.encrypted[l] = TRUE /\ n.keys = m.keys
         /\ n.hidden = m.hidden
    <3>1. PICK b : b = TRUE
      OBVIOUS
    <3>2. n = Recoded(m, l, ws, b)
      BY <2>8, <3>1
    <3>3. /\ OneLayer(m, n, l) /\ n.memory[l] = ws /\ n.encrypted[l] = b /\ n.keys = m.keys
          /\ n.hidden = m.hidden
      BY <2>1, <2>7, <3>2, RecodedIs
    <3>4. QED
      BY <3>1, <3>3
  <2>11. ASSUME l \notin lo PROVE Seen(n, p, l)
    <3>1. \A a \in Used(m) : m.memory[l][a] = p[l][a]
      BY <1>2, <2>1, <2>11 DEF Stored, Seen
    <3>2. PICK key, ps : key = m.keys[l] /\ ps = p[l]
      OBVIOUS
    <3>3. \A a \in Used(m) : PlainWord(ps[a]) /\ us[a] = Xor(ps[a], CafeKey(l))
      BY <2>1, <2>3, <3>1, <3>2 DEF PlainStack
    <3>4. \A a \in Used(m) : BlockAt(us, a) = XorAll(BlockAt(ps, a), CafeKey(l))
      BY <2>1, <3>3, MaskedBlock
    <3>5. \A a \in Used(m) : PlainBlock(BlockAt(ps, a))
      BY <2>1, <3>3, PlainBlockAt
    <3>6. \A a \in Used(m) : aes_encrypt_block(key, XorAll(BlockAt(ps, a), CafeKey(l))) =
                             Sealed(key, l, BlockAt(ps, a))
      BY <3>5, SealAndOpen
    <3>7. \A a \in Used(m) : ws[a] = Sealed(key, l, BlockAt(ps, a))[InBlock(a)]
      BY <2>7, <3>2, <3>4, <3>6
    <3>8. \A a \in Used(m) : BlockAt(ws, a) = Sealed(key, l, BlockAt(ps, a))
      BY <2>1, <3>7, SealedLayer
    <3>9. Used(n) = Used(m)
      BY <2>10 DEF OneLayer, Used
    <3>10. QED
      BY <2>10, <3>2, <3>8, <3>9 DEF Seen
  <2>12. Stored(n, p, lo)
    BY <2>1, <2>10, <2>11, OneLayerStep
  <2>13. QED
    BY <2>9, <2>10, <2>12 DEF OneLayer
<1>3. QED
  BY <1>1, <1>2

\* Decrypting a layer gives the words back.
LEMMA DecryptSeen ==
    ASSUME NEW m, IsMem(m), NEW p, NEW lo, Stored(m, p, lo), NEW l
    PROVE  Stored(decryptLayer(m, l), p, lo) /\ decryptLayer(m, l).hidden = m.hidden
           /\ decryptLayer(m, l).num_layers = m.num_layers
<1>1. CASE ~isValidLayer(m, l) \/ ~m.encrypted[l]
  BY <1>1 DEF decryptLayer
<1>2. CASE isValidLayer(m, l) /\ m.encrypted[l]
  <2>1. l \in Layers /\ Blocks(m) /\ PlainStack(p) /\ \A a \in Used(m) : a \in Addrs
    BY <1>2, ValidLayers, UsedAddrs DEF Stored
  <2> DEFINE D(b) == aes_decrypt_block(m.keys[l], b)
             ds == ByBlock(m, m.memory[l], D)
  <2>2. /\ DOMAIN ds = Addrs
        /\ \A a \in Used(m) : ds[a] = aes_decrypt_block(m.keys[l], BlockAt(m.memory[l], a))[InBlock(a)]
        /\ decryptLayer(m, l) = [unscrambleLayerWithKey(WithWords(m, l, ds), l, CafeKey(l))
                                    EXCEPT !.encrypted[l] = FALSE]
    BY <1>2, <2>1 DEF decryptLayer, ByBlock, WithWords
  <2> HIDE DEF ds
  <2>3. PICK d : d = WithWords(m, l, ds)
    OBVIOUS
  <2>4. OneLayer(m, d, l) /\ d.memory[l] = ds /\ d.encrypted = m.encrypted
    BY <2>1, <2>2, <2>3, OtherWords
  <2>5. PICK ws : ws = OnUsed(d, d.memory[l], CafeKey(l))
    OBVIOUS
  <2>6. Used(d) = Used(m) /\ isValidLayer(d, l)
    BY <1>2, <2>4 DEF OneLayer, Used, isValidLayer
  <2>7. DOMAIN ws = Addrs /\ \A a \in Used(m) : ws[a] = Xor(ds[a], CafeKey(l))
    BY <2>1, <2>4, <2>5, <2>6 DEF OnUsed
  <2>8. unscrambleLayerWithKey(d, l, CafeKey(l)) = WithWords(d, l, ws)
    BY <2>5, <2>6 DEF unscrambleLayerWithKey, WithWords
  <2>9. PICK n : n = Recoded(m, l, ws, FALSE)
    OBVIOUS
  <2>10. decryptLayer(m, l) = n
    <3>1. [WithWords(d, l, ws) EXCEPT !.encrypted[l] = FALSE] = n
      BY <2>1, <2>3, <2>9 DEF Recoded, WithWords, IsMem, MemFields
    <3>2. QED
      BY <2>2, <2>3, <2>8, <3>1
  <2>11. /\ OneLayer(m, n, l) /\ n.memory[l] = ws /\ n.encrypted[l] = FALSE
         /\ n.hidden = m.hidden
    <3>1. PICK b : b = FALSE
      OBVIOUS
    <3>2. n = Recoded(m, l, ws, b)
      BY <2>9, <3>1
    <3>3. /\ OneLayer(m, n, l) /\ n.memory[l] = ws /\ n.encrypted[l] = b /\ n.keys = m.keys
          /\ n.hidden = m.hidden
      BY <2>1, <2>7, <3>2, RecodedIs
    <3>4. QED
      BY <3>1, <3>3
  <2>12. ASSUME l \notin lo PROVE Seen(n, p, l)
    <3>1. \A a \in Used(m) : logicalReadNoAccessCheck(m, l, a) = p[l][a]
      BY <1>2, <2>1, <2>12, ReadSeen DEF Stored
    <3>2. \A a \in Used(m) : ws[a] = logicalReadNoAccessCheck(m, l, a)
      BY <1>2, <2>2, <2>7 DEF logicalReadNoAccessCheck
    <3>3. Used(n) = Used(m)
      BY <2>11 DEF OneLayer, Used
    <3>4. QED
      BY <2>11, <3>1, <3>2, <3>3 DEF Seen
  <2>13. Stored(n, p, lo)
    BY <2>1, <2>11, <2>12, OneLayerStep
  <2>14. QED
    BY <2>10, <2>11, <2>13 DEF OneLayer
<1>3. QED
  BY <1>1, <1>2
-----------------------------------------------------------------------------
(* Hidden keys.                                                              *)

\* The word carries bits of the key and no mask.
Hides(w, key) == w.base[1] = "hid" /\ w.base[2] = key /\ w.mask = {}

StashOK(m, p, st, lo) ==
    /\ DOMAIN st = Layers
    /\ \A l \in Layers : st[l] # NoKey =>
          /\ isValidLayer(m, l) /\ m.hidden[l]
          /\ l \notin lo => \A a \in HidePositions \cap Used(m) : Hides(p[l][a], st[l])

\* Outside the layers ls no hidden key is disturbed.
HiddenStay(m, n, p, q, ls) ==
    /\ n.num_words = m.num_words
    /\ \A l \in Layers \ ls : isValidLayer(m, l) =>
          /\ isValidLayer(n, l) /\ n.hidden[l] = m.hidden[l]
          /\ \A a \in HidePositions \cap Used(m) : q[l][a] = p[l][a]

LEMMA StashStep ==
    ASSUME NEW m, NEW p, NEW st, NEW lo, StashOK(m, p, st, lo),
           NEW n, NEW q, NEW ls, HiddenStay(m, n, p, q, ls), NEW nst, DOMAIN nst = Layers,
           \A l \in Layers : nst[l] # NoKey => l \notin ls /\ nst[l] = st[l],
           NEW nlo, lo \subseteq nlo \cup ls
    PROVE  StashOK(n, q, nst, nlo)
<1>1. Used(n) = Used(m)
  BY DEF Used, HiddenStay
<1>2. ASSUME NEW l \in Layers, nst[l] # NoKey
      PROVE  /\ isValidLayer(n, l) /\ n.hidden[l]
             /\ l \notin nlo => \A a \in HidePositions \cap Used(n) : Hides(q[l][a], nst[l])
  <2>1. l \notin ls /\ nst[l] = st[l] /\ st[l] # NoKey
    BY <1>2
  <2>2. /\ isValidLayer(m, l) /\ m.hidden[l]
        /\ l \notin lo => \A a \in HidePositions \cap Used(m) : Hides(p[l][a], st[l])
    BY <2>1 DEF StashOK
  <2>3. /\ isValidLayer(n, l) /\ n.hidden[l] = m.hidden[l]
        /\ \A a \in HidePositions \cap Used(m) : q[l][a] = p[l][a]
    BY <2>1, <2>2 DEF HiddenStay
  <2>4. QED
    BY <1>1, <2>1, <2>2, <2>3
<1>3. QED
  BY <1>2 DEF StashOK

-----------------------------------------------------------------------------
(* Masks.                                                                    *)

\* A mask on an encrypted layer makes it unreadable.
MaskLoses(m, l, lo, nlo) == lo \subseteq nlo /\ (l \in nlo \/ ~m.encrypted[l])

LEMMA MaskSeen ==
    ASSUME NEW m, IsMem(m), NEW p, NEW lo, Stored(m, p, lo), NEW l, isValidLayer(m, l), NEW k,
           NEW n, n = WithWords(m, l, OnUsed(m, m.memory[l], k)),
           NEW q, q = PutLayer(p, l, OnUsed(m, p[l], k)),
           NEW nlo, MaskLoses(m, l, lo, nlo)
    PROVE  Stored(n, q, nlo) /\ HiddenStay(m, n, p, q, {l})
<1>1. l \in Layers /\ Blocks(m) /\ PlainStack(p) /\ \A a \in Used(m) : a \in Addrs
  BY ValidLayers, UsedAddrs DEF Stored
<1>2. PICK us : us = OnUsed(m, m.memory[l], k)
  OBVIOUS
<1>3. PICK vs : vs = OnUsed(m, p[l], k)
  OBVIOUS
<1>4. /\ DOMAIN us = Addrs /\ \A a \in Used(m) : us[a] = Xor(m.memory[l][a], k)
      /\ DOMAIN vs = Addrs /\ \A a \in Used(m) : vs[a] = Xor(p[l][a], k)
      /\ \A a \in Addrs : vs[a] = p[l][a] \/ vs[a] = Xor(p[l][a], k)
  BY <1>1, <1>2, <1>3 DEF OnUsed
<1>5. \A a \in Addrs : PlainWord(vs[a])
  BY <1>1, <1>4, XorPlain DEF PlainStack
<1>6. PlainStack(q) /\ q[l] = vs /\ \A x \in Layers \ {l} : q[x] = p[x]
  BY <1>1, <1>3, <1>4, <1>5, PutLayerIs
<1>7. /\ OneLayer(m, n, l) /\ n.memory[l] = us /\ n.encrypted = m.encrypted
      /\ n.hidden = m.hidden
  <2>1. n = WithWords(m, l, us) /\ DOMAIN us = Addrs /\ l \in Layers
    BY <1>1, <1>2, <1>4
  <2>2. QED
    <3>1. OneLayer(m, n, l) /\ n.memory[l] = us /\ n.encrypted = m.encrypted
      BY <2>1, OtherWords
    <3>2. n.hidden = m.hidden
      BY <2>1 DEF WithWords, IsMem, MemFields
    <3>3. QED
      BY <3>1, <3>2
<1>8. ASSUME l \notin nlo PROVE Seen(n, q, l)
  <2>1. ~m.encrypted[l] /\ l \notin lo
    BY <1>8 DEF MaskLoses
  <2>2. \A a \in Used(m) : m.memory[l][a] = p[l][a]
    BY <1>1, <2>1 DEF Stored, Seen
  <2>3. Used(n) = Used(m)
    BY <1>7 DEF OneLayer, Used
  <2>4. QED
    BY <1>4, <1>6, <1>7, <2>1, <2>2, <2>3 DEF Seen
<1>9. Stored(n, q, nlo)
  BY <1>6, <1>7, <1>8, OneLayerStep DEF MaskLoses
<1>10. HiddenStay(m, n, p, q, {l})
  BY <1>6, <1>7 DEF HiddenStay, OneLayer, isValidLayer
<1>11. QED
  BY <1>9, <1>10

LEMMA NothingDone ==
    ASSUME NEW m, IsMem(m), NEW p, NEW lo, Stored(m, p, lo), NEW ls
    PROVE  Stored(m, p, lo) /\ HiddenStay(m, m, p, p, ls)
BY DEF HiddenStay

\* What HostUnscrambleWithKey says becomes unreadable.
MaskLost(m, l, lo) == lo \cup {x \in {l} : isValidLayer(m, l) /\ m.encrypted[l]}

\* Masking does the same to both stacks.
LEMMA ScrambleSeen ==
    ASSUME NEW m, IsMem(m), NEW p, NEW lo, Stored(m, p, lo), NEW l, NEW k
    PROVE  /\ Stored(scrambleLayerWithKey(m, l, k),
                     scrambleLayerWithKey(WithPlain(m, p), l, k).memory, lo)
           /\ HiddenStay(m, scrambleLayerWithKey(m, l, k),
                         p, scrambleLayerWithKey(WithPlain(m, p), l, k).memory, {l})
           /\ Stored(scrambleLayer(m, l), scrambleLayer(WithPlain(m, p), l).memory, lo)
           /\ HiddenStay(m, scrambleLayer(m, l), p, scrambleLayer(WithPlain(m, p), l).memory, {l})
           /\ Stored(unscrambleLayerWithKey(m, l, k),
                     unscrambleLayerWithKey(WithPlain(m, p), l, k).memory,
                     MaskLost(m, l, lo))
           /\ HiddenStay(m, unscrambleLayerWithKey(m, l, k),
                         p, unscrambleLayerWithKey(WithPlain(m, p), l, k).memory, {l})
<1>1. PlainStack(p)
  BY DEF Stored
<1>2. PICK w : w = WithPlain(m, p)
  OBVIOUS
<1>3. /\ IsMem(w) /\ w.memory = p /\ w.encrypted = m.encrypted /\ Used(w) = Used(m)
      /\ (isValidLayer(w, l) <=> isValidLayer(m, l))
  BY <1>1, <1>2, WithPlainIs DEF MemFields
<1>4. /\ Stored(m, p, lo) /\ HiddenStay(m, m, p, p, {l})
  BY NothingDone
<1>5. CASE ~isValidLayer(m, l)
  <2>1. MaskLost(m, l, lo) = lo
    BY <1>5 DEF MaskLost
  <2>2. QED
    BY <1>2, <1>3, <1>4, <1>5, <2>1
       DEF scrambleLayer, scrambleLayerWithKey, unscrambleLayerWithKey
<1>6. CASE isValidLayer(m, l)
  <2>1. l \in Layers
    BY <1>6, ValidLayers
  <2>2. ASSUME NEW key
        PROVE  WithWords(w, l, OnUsed(w, w.memory[l], key)).memory =
               PutLayer(p, l, OnUsed(m, p[l], key))
    <3>1. PICK vs : vs = OnUsed(m, p[l], key)
      OBVIOUS
    <3>2. vs = OnUsed(w, w.memory[l], key) /\ DOMAIN vs = Addrs
      BY <1>3, <3>1 DEF OnUsed
    <3>3. WithWords(w, l, vs).memory = [w.memory EXCEPT ![l] = vs]
      BY <1>3, <2>1, <3>2, LayerReplaced
    <3>4. QED
      BY <1>3, <3>1, <3>2, <3>3 DEF PutLayer
  <2>3. PICK nlo : nlo = MaskLost(m, l, lo)
    OBVIOUS
  <2>4. MaskLoses(m, l, lo, nlo) /\ (~m.encrypted[l] => MaskLoses(m, l, lo, lo))
    BY <1>6, <2>3 DEF MaskLoses, MaskLost
  <2>5. ASSUME NEW key
        PROVE  /\ Stored(WithWords(m, l, OnUsed(m, m.memory[l], key)),
                         WithWords(w, l, OnUsed(w, w.memory[l], key)).memory, nlo)
               /\ ~m.encrypted[l] => Stored(WithWords(m, l, OnUsed(m, m.memory[l], key)),
                                      WithWords(w, l, OnUsed(w, w.memory[l], key)).memory, lo)
               /\ HiddenStay(m, WithWords(m, l, OnUsed(m, m.memory[l], key)), p,
                             WithWords(w, l, OnUsed(w, w.memory[l], key)).memory, {l})
    <3>1. PICK q : q = PutLayer(p, l, OnUsed(m, p[l], key))
      OBVIOUS
    <3>2. PICK n : n = WithWords(m, l, OnUsed(m, m.memory[l], key))
      OBVIOUS
    <3>3. Stored(n, q, nlo) /\ HiddenStay(m, n, p, q, {l})
      BY <1>6, <2>4, <3>1, <3>2, MaskSeen
    <3>4. ~m.encrypted[l] => Stored(n, q, lo)
      BY <1>6, <2>4, <3>1, <3>2, MaskSeen
    <3>5. QED
      BY <2>2, <3>1, <3>2, <3>3, <3>4
  <2>6. /\ unscrambleLayerWithKey(m, l, k) = WithWords(m, l, OnUsed(m, m.memory[l], k))
        /\ unscrambleLayerWithKey(w, l, k) = WithWords(w, l, OnUsed(w, w.memory[l], k))
    BY <1>3, <1>6 DEF unscrambleLayerWithKey, WithWords
  <2>7. CASE m.encrypted[l]
    <3>1. /\ scrambleLayer(m, l) = m /\ scrambleLayer(w, l) = w
          /\ scrambleLayerWithKey(m, l, k) = m /\ scrambleLayerWithKey(w, l, k) = w
      BY <1>3, <2>7 DEF scrambleLayer, scrambleLayerWithKey
    <3>2. QED
      BY <1>2, <1>3, <1>4, <2>3, <2>5, <2>6, <3>1
  <2>8. CASE ~m.encrypted[l]
    <3>1. /\ scrambleLayer(m, l) = WithWords(m, l, OnUsed(m, m.memory[l], LayerXorKey(l)))
          /\ scrambleLayer(w, l) = WithWords(w, l, OnUsed(w, w.memory[l], LayerXorKey(l)))
          /\ scrambleLayerWithKey(m, l, k) = WithWords(m, l, OnUsed(m, m.memory[l], k))
          /\ scrambleLayerWithKey(w, l, k) = WithWords(w, l, OnUsed(w, w.memory[l], k))
      BY <1>3, <1>6, <2>8 DEF scrambleLayer, scrambleLayerWithKey, WithWords
    <3>2. QED
      BY <1>2, <2>3, <2>5, <2>6, <2>8, <3>1
  <2>9. QED
    BY <2>7, <2>8
<1>7. QED
  BY <1>5, <1>6
\* So does the mask of every layer without a hidden key.
LEMMA ObfuscateSeen ==
    ASSUME NEW m, IsMem(m), NEW p, NEW lo, Stored(m, p, lo),
           NEW n, n = hardwareObfuscate(m),
           NEW q, q = hardwareObfuscate(WithPlain(m, p)).memory
    PROVE  Stored(n, q, lo) /\ HiddenStay(m, n, p, q, {x \in Layers : ~m.hidden[x]})
<1>1. Blocks(m) /\ PlainStack(p) /\ \A a \in Used(m) : a \in Addrs
  BY UsedAddrs DEF Stored
<1>2. PICK w : w = WithPlain(m, p)
  OBVIOUS
<1>3. /\ DOMAIN w = MemFields /\ w.memory = p /\ w.encrypted = m.encrypted
      /\ w.hidden = m.hidden /\ w.root = m.root /\ Used(w) = Used(m)
      /\ \A l : isValidLayer(w, l) <=> isValidLayer(m, l)
  BY <1>1, <1>2, WithPlainIs DEF MemFields, IsMem
<1> DEFINE open(l) == isValidLayer(m, l) /\ ~m.encrypted[l] /\ ~m.hidden[l]
           key(l) == deriveHardwareWord(m.root, l)
<1>4. /\ n.memory = [l \in Layers |-> IF open(l) THEN OnUsed(m, m.memory[l], key(l))
                                      ELSE m.memory[l]]
      /\ n.encrypted = m.encrypted /\ n.keys = m.keys /\ n.hidden = m.hidden
      /\ n.num_words = m.num_words /\ n.num_layers = m.num_layers
  BY DEF hardwareObfuscate, IsMem, MemFields
<1>5. q = [l \in Layers |-> IF open(l) THEN OnUsed(m, p[l], key(l)) ELSE p[l]]
  <2>1. q = [l \in Layers |->
                IF isValidLayer(w, l) /\ ~w.encrypted[l] /\ ~w.hidden[l]
                THEN OnUsed(w, w.memory[l], deriveHardwareWord(w.root, l)) ELSE w.memory[l]]
    BY <1>2, <1>3 DEF hardwareObfuscate, MemFields
  <2>2. \A ws, k : OnUsed(w, ws, k) = OnUsed(m, ws, k)
    BY <1>3 DEF OnUsed
  <2>3. QED
    BY <1>3, <2>1, <2>2
<1>6. ASSUME NEW ws, NEW k, NEW a \in Addrs
      PROVE  OnUsed(m, ws, k)[a] = IF a \in Used(m) THEN Xor(ws[a], k) ELSE ws[a]
  BY DEF OnUsed
<1>7. PlainStack(q)
  <2> SUFFICES ASSUME NEW l \in Layers
               PROVE  DOMAIN q[l] = Addrs /\ \A a \in Addrs : PlainWord(q[l][a])
    BY <1>5 DEF PlainStack
  <2>1. DOMAIN p[l] = Addrs /\ \A a \in Addrs : PlainWord(p[l][a])
    BY <1>1 DEF PlainStack
  <2>2. CASE ~open(l)
    BY <1>5, <2>1, <2>2
  <2>3. CASE open(l)
    <3>1. q[l] = OnUsed(m, p[l], key(l))
      BY <1>5, <2>3
    <3>2. DOMAIN q[l] = Addrs
      BY <3>1 DEF OnUsed
    <3>3. \A a \in Addrs : q[l][a] = p[l][a] \/ q[l][a] = Xor(p[l][a], key(l))
      BY <1>6, <3>1
    <3>4. QED
      BY <2>1, <3>2, <3>3, XorPlain
  <2>4. QED
    BY <2>2, <2>3
<1>8. ASSUME NEW l \in Layers \ lo, isValidLayer(m, l)
      PROVE  LayerSame(m, n, p, q, l) \/ Seen(n, q, l)
  <2>1. CASE ~open(l)
    <3>1. n.memory[l] = m.memory[l] /\ q[l] = p[l]
      BY <1>4, <1>5, <2>1
    <3>2. QED
      BY <1>4, <3>1 DEF LayerSame
  <2>2. CASE open(l)
    <3>1. q[l] = OnUsed(m, p[l], key(l)) /\ n.memory[l] = OnUsed(m, m.memory[l], key(l))
      BY <1>4, <1>5, <2>2
    <3>2. ~m.encrypted[l]
      BY <2>2
    <3>3. \A a \in Used(m) : m.memory[l][a] = p[l][a]
      BY <1>8, <3>2 DEF Stored, Seen
    <3>4. \A a \in Used(m) : n.memory[l][a] = q[l][a]
      BY <1>1, <1>6, <3>1, <3>3
    <3>5. Used(n) = Used(m) /\ ~n.encrypted[l]
      BY <1>4, <3>2 DEF Used
    <3>6. QED
      BY <3>4, <3>5 DEF Seen
  <2>3. QED
    BY <2>1, <2>2
<1>9. \A l : isValidLayer(n, l) <=> isValidLayer(m, l)
  BY <1>4 DEF isValidLayer
<1>10. \A l \in Layers : m.hidden[l] => q[l] = p[l]
  BY <1>5
<1> HIDE DEF open, key
<1>11. Stored(n, q, lo)
  <2>1. \A l \in Layers \ lo : isValidLayer(n, l) =>
            \/ l \notin lo /\ isValidLayer(m, l) /\ LayerSame(m, n, p, q, l)
            \/ Seen(n, q, l)
    BY <1>8, <1>9
  <2>2. n.num_words = m.num_words
    BY <1>4
  <2>3. QED
    BY <1>7, <2>1, <2>2, StoredStep
<1>12. HiddenStay(m, n, p, q, {x \in Layers : ~m.hidden[x]})
  <2>1. n.num_words = m.num_words /\ n.hidden = m.hidden
    BY <1>4
  <2>2. QED
    BY <1>9, <1>10, <2>1 DEF HiddenStay
<1>13. QED
  BY <1>11, <1>12

-----------------------------------------------------------------------------
(* Layers emptied.                                                           *)

LEMMA EmptiedBoth ==
    ASSUME NEW m, IsMem(m), NEW p, PlainStack(p), NEW ls,
           NEW n, n = Emptied(m, ls), NEW q, q = Emptied(WithPlain(m, p), ls).memory
    PROVE  /\ PlainStack(q)
           /\ n.num_words = m.num_words /\ n.num_layers = m.num_layers /\ n.keys = m.keys
           /\ n.access = m.access
           /\ \A l \in Layers \ ls :
                 /\ n.memory[l] = m.memory[l] /\ q[l] = p[l]
                 /\ n.encrypted[l] = m.encrypted[l] /\ n.hidden[l] = m.hidden[l]
           /\ \A l \in Layers \cap ls :
                 ~n.encrypted[l] /\ \A a \in Used(m) : n.memory[l][a] = Zero /\ q[l][a] = Zero
<1>1. PICK w : w = WithPlain(m, p)
  OBVIOUS
<1>2. IsMem(w) /\ w.memory = p /\ Used(w) = Used(m)
  BY <1>1, WithPlainIs
<1>3. /\ n.memory = [l \in Layers |-> IF l \in ls THEN ZeroWords(m, m.memory[l])
                                      ELSE m.memory[l]]
      /\ n.encrypted = [l \in Layers |-> m.encrypted[l] /\ l \notin ls]
      /\ n.hidden = [l \in Layers |-> m.hidden[l] /\ l \notin ls]
      /\ n.num_words = m.num_words /\ n.num_layers = m.num_layers /\ n.keys = m.keys
      /\ n.access = m.access
  BY EmptiedIs DEF MemFields
<1>4. q = [l \in Layers |-> IF l \in ls THEN ZeroWords(w, p[l]) ELSE p[l]]
  <2>1. PICK e : e = Emptied(w, ls)
    OBVIOUS
  <2>2. e.memory = [l \in Layers |-> IF l \in ls THEN ZeroWords(w, w.memory[l]) ELSE w.memory[l]]
    BY <1>2, <2>1 DEF Emptied, IsMem, MemFields
  <2>3. QED
    BY <1>1, <1>2, <2>1, <2>2
<1>5. ASSUME NEW ws, NEW a \in Addrs
      PROVE  /\ ZeroWords(m, ws)[a] = IF a \in Used(m) THEN Zero ELSE ws[a]
             /\ ZeroWords(w, ws)[a] = IF a \in Used(m) THEN Zero ELSE ws[a]
             /\ DOMAIN ZeroWords(w, ws) = Addrs
  BY <1>2 DEF ZeroWords
<1>6. PlainStack(q)
  <2> SUFFICES ASSUME NEW l \in Layers
               PROVE  DOMAIN q[l] = Addrs /\ \A a \in Addrs : PlainWord(q[l][a])
    BY <1>4 DEF PlainStack
  <2>1. DOMAIN p[l] = Addrs /\ \A a \in Addrs : PlainWord(p[l][a])
    BY DEF PlainStack
  <2>2. PlainWord(Zero)
    BY ConstPlain DEF Zero
  <2>3. CASE l \notin ls
    BY <1>4, <2>1, <2>3
  <2>4. CASE l \in ls
    <3>1. q[l] = ZeroWords(w, p[l])
      BY <1>4, <2>4
    <3>2. DOMAIN q[l] = Addrs
      BY <3>1 DEF ZeroWords
    <3>3. \A a \in Addrs : q[l][a] = p[l][a] \/ q[l][a] = Zero
      BY <1>5, <3>1
    <3>4. QED
      BY <2>1, <2>2, <3>2, <3>3
  <2>5. QED
    BY <2>3, <2>4
<1>7. ASSUME NEW l \in Layers \ ls
      PROVE  /\ n.memory[l] = m.memory[l] /\ q[l] = p[l]
             /\ n.encrypted[l] = m.encrypted[l] /\ n.hidden[l] = m.hidden[l]
  <2>1. n.memory[l] = m.memory[l] /\ q[l] = p[l]
    BY <1>3, <1>4
  <2>2. m.encrypted[l] \in BOOLEAN /\ m.hidden[l] \in BOOLEAN
    BY DEF IsMem
  <2>3. n.encrypted[l] = (m.encrypted[l] /\ l \notin ls) /\ n.hidden[l] = (m.hidden[l] /\ l \notin ls)
    BY <1>3
  <2>4. n.encrypted[l] = m.encrypted[l] /\ n.hidden[l] = m.hidden[l]
    BY <2>2, <2>3, Zenon
  <2>5. QED
    BY <2>1, <2>4
<1>8. ASSUME NEW l \in Layers \cap ls
      PROVE  ~n.encrypted[l] /\ \A a \in Used(m) : n.memory[l][a] = Zero /\ q[l][a] = Zero
  <2>1. ~n.encrypted[l]
    BY <1>3
  <2>2. n.memory[l] = ZeroWords(m, m.memory[l]) /\ q[l] = ZeroWords(w, p[l])
    BY <1>3, <1>4
  <2>3. \A a \in Used(m) : a \in Addrs
    BY UsedAddrs
  <2>4. \A a \in Used(m) : n.memory[l][a] = Zero /\ q[l][a] = Zero
    BY <1>5, <2>2, <2>3
  <2>5. QED
    BY <2>1, <2>4
<1>9. QED
  BY <1>3, <1>6, <1>7, <1>8

\* Only the words, the flags and the keys matter.
SameWords(n, r) ==
    /\ r.num_words = n.num_words /\ r.num_layers = n.num_layers /\ r.memory = n.memory
    /\ r.encrypted = n.encrypted /\ r.keys = n.keys /\ r.hidden = n.hidden

LEMMA SameWordsStored ==
    ASSUME NEW n, NEW r, SameWords(n, r), NEW q, NEW lo
    PROVE  /\ Stored(n, q, lo) => Stored(r, q, lo)
           /\ \A m, p, ls : HiddenStay(m, n, p, q, ls) => HiddenStay(m, r, p, q, ls)
<1>1. Used(r) = Used(n) /\ \A l : isValidLayer(r, l) <=> isValidLayer(n, l)
  BY DEF SameWords, Used, isValidLayer
<1>2. Stored(n, q, lo) => Stored(r, q, lo)
  BY <1>1 DEF Stored, Seen, SameWords, Blocks
<1>3. \A m, p, ls : HiddenStay(m, n, p, q, ls) => HiddenStay(m, r, p, q, ls)
  BY <1>1 DEF HiddenStay, SameWords
<1>4. QED
  BY <1>2, <1>3

\* An emptied layer is empty in both stacks, and readable again.
LEMMA EmptiedSeen ==
    ASSUME NEW m, IsMem(m), NEW p, NEW lo, Stored(m, p, lo), NEW ls, NEW nlo, lo \subseteq nlo \cup ls,
           NEW n, n = Emptied(m, ls), NEW q, q = Emptied(WithPlain(m, p), ls).memory
    PROVE  Stored(n, q, nlo) /\ HiddenStay(m, n, p, q, ls)
<1>1. /\ PlainStack(q)
      /\ n.num_words = m.num_words /\ n.num_layers = m.num_layers /\ n.keys = m.keys
      /\ \A l \in Layers \ ls :
                 /\ n.memory[l] = m.memory[l] /\ q[l] = p[l]
                 /\ n.encrypted[l] = m.encrypted[l] /\ n.hidden[l] = m.hidden[l]
      /\ \A l \in Layers \cap ls :
                 ~n.encrypted[l] /\ \A a \in Used(m) : n.memory[l][a] = Zero /\ q[l][a] = Zero
  BY EmptiedBoth DEF Stored
<1>2. Used(n) = Used(m) /\ \A l : isValidLayer(n, l) <=> isValidLayer(m, l)
  BY <1>1 DEF Used, isValidLayer
<1>3. \A l \in Layers \ ls : LayerSame(m, n, p, q, l)
  BY <1>1 DEF LayerSame
<1>4. \A l \in Layers \cap ls : Seen(n, q, l)
  BY <1>1, <1>2 DEF Seen
<1>5. \A l \in Layers \ nlo : isValidLayer(n, l) =>
            \/ l \notin lo /\ isValidLayer(m, l) /\ LayerSame(m, n, p, q, l)
            \/ Seen(n, q, l)
  BY <1>2, <1>3, <1>4
<1>6. Stored(n, q, nlo)
  BY <1>1, <1>5, StoredStep
<1>7. HiddenStay(m, n, p, q, ls)
  BY <1>1, <1>2 DEF HiddenStay
<1>8. QED
  BY <1>6, <1>7
LEMMA ClearSeen ==
    ASSUME NEW m, IsMem(m), NEW p, NEW lo, Stored(m, p, lo), NEW l,
           NEW n, n = clearLayer(m, l), NEW q, q = clearLayer(WithPlain(m, p), l).memory
    PROVE  Stored(n, q, lo \ {l}) /\ HiddenStay(m, n, p, q, {l})
<1>1. PICK w : w = WithPlain(m, p)
  OBVIOUS
<1>2. w.memory = p /\ (isValidLayer(w, l) <=> isValidLayer(m, l))
  BY <1>1, WithPlainIs DEF Stored
<1>3. CASE isValidLayer(m, l)
  <2>1. n = Emptied(m, {l}) /\ q = Emptied(WithPlain(m, p), {l}).memory
    BY <1>1, <1>2, <1>3 DEF clearLayer
  <2>2. QED
    BY <2>1, EmptiedSeen
<1>4. CASE ~isValidLayer(m, l)
  <2>1. n = m /\ q = p
    BY <1>1, <1>2, <1>4 DEF clearLayer
  <2>2. Stored(m, p, lo \ {l})
    BY <1>4 DEF Stored
  <2>3. QED
    BY <2>1, <2>2, NothingDone
<1>5. QED
  BY <1>3, <1>4

\* The tamper response empties every layer.
LEMMA ResetSeen ==
    ASSUME NEW m, IsMem(m), NEW p, NEW lo, Stored(m, p, lo),
           NEW t, IsMem(t), SameWords(m, t),
           NEW q, q = autoReset(WithPlain(m, p)).memory
    PROVE  Stored(autoReset(t), q, {})
<1>1. PICK w : w = WithPlain(m, p)
  OBVIOUS
<1>2. /\ IsMem(w) /\ \A l : isValidLayer(w, l) <=> isValidLayer(m, l)
  BY <1>1, WithPlainIs DEF Stored
<1>3. PICK ls : ls = {l \in Layers : isValidLayer(m, l)}
  OBVIOUS
<1>4. /\ ls = {l \in Layers : isValidLayer(w, l)}
      /\ ls = {l \in Layers : isValidLayer(t, l)}
  BY <1>2, <1>3 DEF SameWords, isValidLayer
<1>5. q = Emptied(WithPlain(m, p), ls).memory
  <2>1. PICK e : e = Emptied(w, ls)
    OBVIOUS
  <2>2. DOMAIN e = MemFields
    BY <1>2, <2>1 DEF Emptied, IsMem
  <2>3. q = [e EXCEPT !.lockdown = TRUE].memory
    BY <1>1, <1>4, <2>1 DEF autoReset
  <2>4. q = e.memory
    BY <2>2, <2>3 DEF MemFields
  <2>5. QED
    BY <1>1, <2>1, <2>4
<1>6. PICK n : n = Emptied(m, ls)
  OBVIOUS
<1>7. Stored(n, q, lo)
  BY <1>5, <1>6, EmptiedSeen
<1>8. Stored(n, q, {})
  <2>1. /\ PlainStack(q) /\ n.num_words = m.num_words /\ n.num_layers = m.num_layers
        /\ \A l \in Layers \cap ls :
               ~n.encrypted[l] /\ \A a \in Used(m) : n.memory[l][a] = Zero /\ q[l][a] = Zero
    BY <1>5, <1>6, EmptiedBoth DEF Stored
  <2>2. Used(n) = Used(m) /\ \A l : isValidLayer(n, l) <=> isValidLayer(m, l)
    BY <2>1 DEF Used, isValidLayer
  <2>3. \A l \in Layers : isValidLayer(n, l) => Seen(n, q, l)
    BY <1>3, <2>1, <2>2 DEF Seen
  <2>4. QED
    BY <1>7, <2>3 DEF Stored
<1>9. SameWords(n, autoReset(t))
  <2>1. PICK e : e = Emptied(t, ls)
    OBVIOUS
  <2>2. DOMAIN e = MemFields /\ SameWords(n, e)
    <3>1. DOMAIN e = MemFields
      BY <2>1 DEF Emptied, IsMem
    <3>2. \A ws : ZeroWords(t, ws) = ZeroWords(m, ws)
      BY DEF SameWords, ZeroWords, Used
    <3>3. /\ n.memory = [l \in Layers |-> IF l \in ls THEN ZeroWords(m, m.memory[l])
                                          ELSE m.memory[l]]
          /\ n.encrypted = [l \in Layers |-> m.encrypted[l] /\ l \notin ls]
          /\ n.hidden = [l \in Layers |-> m.hidden[l] /\ l \notin ls]
          /\ n.num_words = m.num_words /\ n.num_layers = m.num_layers /\ n.keys = m.keys
      BY <1>6 DEF Emptied, IsMem, MemFields
    <3>4. /\ e.memory = [l \in Layers |-> IF l \in ls THEN ZeroWords(t, t.memory[l])
                                          ELSE t.memory[l]]
          /\ e.encrypted = [l \in Layers |-> t.encrypted[l] /\ l \notin ls]
          /\ e.hidden = [l \in Layers |-> t.hidden[l] /\ l \notin ls]
          /\ e.num_words = t.num_words /\ e.num_layers = t.num_layers /\ e.keys = t.keys
      BY <2>1 DEF Emptied, IsMem, MemFields
    <3>5. QED
      BY <3>1, <3>2, <3>3, <3>4 DEF SameWords
  <2>3. autoReset(t) = [e EXCEPT !.lockdown = TRUE]
    BY <1>4, <2>1 DEF autoReset
  <2>4. QED
    BY <2>2, <2>3 DEF SameWords, MemFields
<1>10. QED
  BY <1>8, <1>9, SameWordsStored

AllOf(ls) == {ls[i] : i \in DOMAIN ls}

LEMMA CriticalSeen ==
    ASSUME NEW m, IsMem(m), NEW p, NEW lo, Stored(m, p, lo), NEW ls,
           NEW n, n = autoResetCritical(m, ls),
           NEW q, q = autoResetCritical(WithPlain(m, p), ls).memory
    PROVE  Stored(n, q, lo \ AllOf(ls)) /\ HiddenStay(m, n, p, q, AllOf(ls))
<1>1. PICK w : w = WithPlain(m, p)
  OBVIOUS
<1>2. /\ IsMem(w) /\ w.memory = p /\ \A l : isValidLayer(w, l) <=> isValidLayer(m, l)
  BY <1>1, WithPlainIs DEF Stored
<1>3. PICK all : all = AllOf(ls)
  OBVIOUS
<1>4. PICK valid : valid = {i \in DOMAIN ls : isValidLayer(m, ls[i])}
  OBVIOUS
<1>5. valid = {i \in DOMAIN ls : isValidLayer(w, ls[i])}
  BY <1>2, <1>4
<1>6. CASE valid = {}
  <2>1. n = m /\ q = p
    BY <1>1, <1>2, <1>4, <1>5, <1>6 DEF autoResetCritical
  <2>2. \A l \in all : ~isValidLayer(m, l)
    BY <1>3, <1>4, <1>6 DEF AllOf
  <2>3. Stored(m, p, lo \ all)
    BY <2>2 DEF Stored
  <2>4. QED
    BY <1>3, <2>1, <2>3, NothingDone
<1>7. CASE valid # {}
  <2>1. PICK es : es = {ls[i] : i \in valid}
    OBVIOUS
  <2>2. PICK e : e = Emptied(m, es)
    OBVIOUS
  <2>3. PICK f : f = Emptied(w, es)
    OBVIOUS
  <2>4. \E y, z : n = [e EXCEPT !.tamper_events = y, !.lockdown = z]
    BY <1>4, <1>7, <2>1, <2>2 DEF autoResetCritical
  <2>5. \E y, z : q = [f EXCEPT !.tamper_events = y, !.lockdown = z].memory
    BY <1>1, <1>5, <1>7, <2>1, <2>3 DEF autoResetCritical
  <2>6. DOMAIN e = MemFields /\ DOMAIN f = MemFields
    BY <1>2, <2>2, <2>3 DEF Emptied, IsMem
  <2>7. SameWords(e, n) /\ q = f.memory
    BY <2>4, <2>5, <2>6 DEF SameWords, MemFields
  <2>8. q = Emptied(WithPlain(m, p), es).memory
    BY <1>1, <2>3, <2>7
  <2>9. \A l \in all \ es : ~isValidLayer(m, l)
    BY <1>3, <1>4, <2>1 DEF AllOf
  <2>10. PICK nlo : nlo = lo \ es
    OBVIOUS
  <2>11. Stored(e, q, nlo) /\ HiddenStay(m, e, p, q, es)
    <3>1. lo \subseteq nlo \cup es
      BY <2>10
    <3>2. QED
      BY <2>2, <2>8, <3>1, EmptiedSeen
  <2>12. Stored(n, q, nlo) /\ HiddenStay(m, n, p, q, es)
    BY <2>7, <2>11, SameWordsStored
  <2>13. es \subseteq all
    BY <1>3, <1>4, <2>1 DEF AllOf
  <2>14. Stored(n, q, lo \ all)
    <3>1. \A l : isValidLayer(n, l) => isValidLayer(m, l)
      <4>1. n.num_layers = m.num_layers
        BY <2>2, <2>7 DEF SameWords, Emptied, IsMem, MemFields
      <4>2. QED
        BY <4>1 DEF isValidLayer
    <3>2. QED
      BY <2>9, <2>10, <2>12, <3>1 DEF Stored
  <2>15. HiddenStay(m, n, p, q, all)
    BY <2>12, <2>13 DEF HiddenStay
  <2>16. QED
    BY <1>3, <2>14, <2>15
<1>8. QED
  BY <1>6, <1>7

\* New layers are empty in both stacks.
LEMMA AddLayersSeen ==
    ASSUME NEW m, IsMem(m), NEW p, NEW lo, Stored(m, p, lo), NEW count \in Nat,
           NEW n, n = addLayers(m, count), NEW q, q = addLayers(WithPlain(m, p), count).memory
    PROVE  Stored(n, q, lo) /\ HiddenStay(m, n, p, q, {})
<1>1. PICK w : w = WithPlain(m, p)
  OBVIOUS
<1>2. /\ IsMem(w) /\ w.memory = p /\ w.num_layers = m.num_layers
  BY <1>1, WithPlainIs DEF Stored, MemFields
<1>3. PICK h \in Nat : /\ h = IF m.num_layers + count > MAX_LAYERS
                               THEN MAX_LAYERS ELSE m.num_layers + count
                       /\ h >= m.num_layers
  BY StackAssumption DEF IsMem
<1>4. PICK new : new = m.num_layers .. h - 1
  OBVIOUS
<1>5. PICK e : e = Emptied(m, new)
  OBVIOUS
<1>6. PICK f : f = Emptied(w, new)
  OBVIOUS
<1>7. DOMAIN e = MemFields /\ DOMAIN f = MemFields
  BY <1>2, <1>5, <1>6 DEF Emptied, IsMem
<1>8. n = [e EXCEPT !.access = [l \in Layers |-> e.access[l] \/ l \in new], !.num_layers = h]
  BY <1>3, <1>4, <1>5 DEF addLayers
<1>9. addLayers(w, count) =
         [f EXCEPT !.access = [l \in Layers |-> f.access[l] \/ l \in new], !.num_layers = h]
  BY <1>2, <1>3, <1>4, <1>6 DEF addLayers
<1>10. /\ n.num_words = e.num_words /\ n.num_layers = h /\ n.memory = e.memory
       /\ n.encrypted = e.encrypted /\ n.keys = e.keys /\ n.hidden = e.hidden
  BY <1>7, <1>8 DEF MemFields
<1>11. q = Emptied(WithPlain(m, p), new).memory
  BY <1>1, <1>6, <1>7, <1>9 DEF MemFields
<1>12. /\ PlainStack(q) /\ e.num_words = m.num_words /\ e.keys = m.keys
       /\ \A l \in Layers \ new :
                 /\ e.memory[l] = m.memory[l] /\ q[l] = p[l]
                 /\ e.encrypted[l] = m.encrypted[l] /\ e.hidden[l] = m.hidden[l]
       /\ \A l \in Layers \cap new :
                 ~e.encrypted[l] /\ \A a \in Used(m) : e.memory[l][a] = Zero /\ q[l][a] = Zero
  BY <1>5, <1>11, EmptiedBoth DEF Stored
<1>13. Used(n) = Used(m) /\ n.num_words = m.num_words
  BY <1>10, <1>12 DEF Used
<1>14. \A l : isValidLayer(n, l) <=> isValidLayer(m, l) \/ l \in new
  BY <1>3, <1>4, <1>10 DEF isValidLayer, IsMem
<1>15. \A l : isValidLayer(m, l) => l \notin new
  BY <1>3, <1>4 DEF isValidLayer, IsMem
<1>16. \A l \in Layers \ new : LayerSame(m, n, p, q, l)
  BY <1>10, <1>12 DEF LayerSame
<1>17. \A l \in Layers \cap new : Seen(n, q, l)
  BY <1>10, <1>12, <1>13 DEF Seen
<1>18. \A l \in Layers \ lo : isValidLayer(n, l) =>
            \/ l \notin lo /\ isValidLayer(m, l) /\ LayerSame(m, n, p, q, l)
            \/ Seen(n, q, l)
  BY <1>14, <1>15, <1>16, <1>17
<1>19. Stored(n, q, lo)
  BY <1>12, <1>13, <1>18, StoredStep
<1>20. HiddenStay(m, n, p, q, {})
  BY <1>10, <1>12, <1>13, <1>14, <1>15 DEF HiddenStay
<1>21. QED
  BY <1>19, <1>20
-----------------------------------------------------------------------------
(* Whole layers, hidden keys, keys.                                          *)

\* What HostCopy says becomes unreadable.
CopyLost(m, src, dst, lo) ==
    IF ~isValidLayer(m, src) \/ ~isValidLayer(m, dst) \/ src = dst THEN lo
    ELSE IF m.encrypted[src] \/ src \in lo THEN lo \cup {dst}
    ELSE lo \ {dst}

LEMMA CopySeen ==
    ASSUME NEW m, IsMem(m), NEW p, NEW lo, Stored(m, p, lo), NEW src, NEW dst,
           NEW n, n = copyLayer(m, src, dst),
           NEW q, q = copyLayer(WithPlain(m, p), src, dst).memory,
           NEW st, StashOK(m, p, st, lo),
           NEW nst, nst = IF isValidLayer(m, src) /\ isValidLayer(m, dst)
                          THEN [st EXCEPT ![dst] = st[src]] ELSE st
    PROVE  Stored(n, q, CopyLost(m, src, dst, lo)) /\ StashOK(n, q, nst, CopyLost(m, src, dst, lo))
<1>1. PICK w : w = WithPlain(m, p)
  OBVIOUS
<1>2. /\ IsMem(w) /\ w.memory = p /\ \A l : isValidLayer(w, l) <=> isValidLayer(m, l)
      /\ Used(w) = Used(m) /\ PlainStack(p)
  BY <1>1, WithPlainIs DEF Stored
<1>3. PICK nlo : nlo = CopyLost(m, src, dst, lo)
  OBVIOUS
<1>4. CASE ~isValidLayer(m, src) \/ ~isValidLayer(m, dst)
  <2>1. n = m /\ q = p /\ nlo = lo /\ nst = st
    BY <1>1, <1>2, <1>3, <1>4 DEF copyLayer, CopyLost
  <2>2. QED
    BY <1>3, <2>1
<1>5. CASE isValidLayer(m, src) /\ isValidLayer(m, dst)
  <2>1. src \in Layers /\ dst \in Layers /\ \A a \in Used(m) : a \in Addrs
    BY <1>5, ValidLayers, UsedAddrs
  <2>2. PICK ws : ws = [a \in Addrs |-> IF a \in Used(m) THEN m.memory[src][a] ELSE m.memory[dst][a]]
    OBVIOUS
  <2>3. PICK qs : qs = [a \in Addrs |-> IF a \in Used(m) THEN p[src][a] ELSE p[dst][a]]
    OBVIOUS
  <2>4. n = [m EXCEPT !.memory[dst] = ws, !.keys[dst] = m.keys[src],
                      !.encrypted[dst] = m.encrypted[src],
                      !.hidden[dst] = m.hidden[src], !.access[dst] = m.access[src]]
    BY <1>5, <2>2 DEF copyLayer
  <2>5. copyLayer(w, src, dst) =
            [w EXCEPT !.memory[dst] = qs, !.keys[dst] = w.keys[src],
                      !.encrypted[dst] = w.encrypted[src],
                      !.hidden[dst] = w.hidden[src], !.access[dst] = w.access[src]]
    BY <1>2, <1>5, <2>3 DEF copyLayer
  <2>6. /\ n.memory = [m.memory EXCEPT ![dst] = ws] /\ n.keys = [m.keys EXCEPT ![dst] = m.keys[src]]
        /\ n.encrypted = [m.encrypted EXCEPT ![dst] = m.encrypted[src]]
        /\ n.hidden = [m.hidden EXCEPT ![dst] = m.hidden[src]]
        /\ n.num_words = m.num_words /\ n.num_layers = m.num_layers
    BY <2>4 DEF IsMem, MemFields
  <2>7. q = PutLayer(p, dst, qs)
    BY <1>1, <1>2, <2>5 DEF IsMem, MemFields, PutLayer
  <2>8. /\ OneLayer(m, n, dst) /\ n.memory[dst] = ws /\ n.encrypted[dst] = m.encrypted[src]
        /\ n.keys[dst] = m.keys[src] /\ n.hidden[dst] = m.hidden[src]
        /\ \A l \in Layers \ {dst} : n.hidden[l] = m.hidden[l]
    BY <2>1, <2>6 DEF OneLayer, IsMem
  <2>9. /\ DOMAIN qs = Addrs /\ \A a \in Addrs : PlainWord(qs[a])
        /\ \A a \in Used(m) : qs[a] = p[src][a] /\ ws[a] = m.memory[src][a]
    BY <1>2, <2>1, <2>2, <2>3 DEF PlainStack
  <2>10. PlainStack(q) /\ q[dst] = qs /\ \A l \in Layers \ {dst} : q[l] = p[l]
    BY <1>2, <2>1, <2>7, <2>9, PutLayerIs
  <2>11. Used(n) = Used(m) /\ \A l : isValidLayer(n, l) <=> isValidLayer(m, l)
    BY <2>6 DEF Used, isValidLayer
  <2>12. dst \notin nlo => src \notin lo /\ (src = dst \/ ~m.encrypted[src])
    BY <1>3, <1>5 DEF CopyLost
  <2>13. lo \subseteq nlo \cup {dst}
    BY <1>3 DEF CopyLost
  <2>14. ASSUME dst \notin nlo PROVE Seen(n, q, dst)
    <3>1. Seen(m, p, src)
      BY <1>5, <2>1, <2>12, <2>14 DEF Stored
    <3>2. CASE src = dst
      <4>1. \A a \in Used(m) : n.memory[dst][a] = m.memory[dst][a] /\ q[dst][a] = p[dst][a]
        BY <2>8, <2>9, <2>10, <3>2
      <4>2. Blocks(m) /\ n.num_words = m.num_words
        BY <2>6 DEF Stored
      <4>3. Seen(m, p, dst) /\ LayerSame(m, n, p, q, dst)
        BY <2>8, <3>1, <3>2, <4>1 DEF LayerSame
      <4>4. QED
        BY <4>2, <4>3, LayerSameSeen
    <3>3. CASE ~m.encrypted[src]
      <4>1. \A a \in Used(m) : m.memory[src][a] = p[src][a]
        BY <3>1, <3>3 DEF Seen
      <4>2. \A a \in Used(m) : n.memory[dst][a] = q[dst][a]
        BY <2>8, <2>9, <2>10, <4>1
      <4>3. ~n.encrypted[dst]
        BY <2>8, <3>3
      <4>4. QED
        BY <2>11, <4>2, <4>3 DEF Seen
    <3>4. QED
      BY <2>12, <2>14, <3>2, <3>3
  <2>15. Stored(n, q, nlo)
    BY <2>8, <2>10, <2>13, <2>14, OneLayerStep
  <2>16. StashOK(n, q, nst, nlo)
    <3>1. DOMAIN st = Layers
      BY DEF StashOK
    <3>2. /\ DOMAIN nst = Layers /\ nst[dst] = st[src]
          /\ \A l \in Layers \ {dst} : nst[l] = st[l]
      BY <1>5, <2>1, <3>1
    <3>3. ASSUME NEW l \in Layers, nst[l] # NoKey
          PROVE  /\ isValidLayer(n, l) /\ n.hidden[l]
                 /\ l \notin nlo => \A a \in HidePositions \cap Used(n) : Hides(q[l][a], nst[l])
      <4>1. CASE l = dst
        <5>1. st[src] # NoKey
          BY <3>2, <3>3, <4>1
        <5>2. /\ m.hidden[src]
              /\ src \notin lo => \A a \in HidePositions \cap Used(m) : Hides(p[src][a], st[src])
          BY <2>1, <5>1 DEF StashOK
        <5>3. \A a \in Used(m) : q[dst][a] = p[src][a]
          BY <2>9, <2>10
        <5>4. QED
          BY <1>5, <2>8, <2>11, <2>12, <3>2, <4>1, <5>2, <5>3
      <4>2. CASE l # dst
        <5>1. l \in Layers \ {dst} /\ st[l] # NoKey
          BY <3>2, <3>3, <4>2
        <5>2. /\ isValidLayer(m, l) /\ m.hidden[l]
              /\ l \notin lo => \A a \in HidePositions \cap Used(m) : Hides(p[l][a], st[l])
          BY <5>1 DEF StashOK
        <5>3. q[l] = p[l] /\ n.hidden[l] = m.hidden[l] /\ (l \notin nlo => l \notin lo)
          BY <2>8, <2>10, <2>13, <5>1
        <5>4. QED
          BY <2>11, <3>2, <5>1, <5>2, <5>3
      <4>3. QED
        BY <4>1, <4>2
    <3>4. QED
      BY <3>2, <3>3 DEF StashOK
  <2>17. QED
    BY <1>3, <2>15, <2>16
<1>6. QED
  BY <1>4, <1>5

\* A key is hidden in both stacks.
LEMMA HideSeen ==
    ASSUME NEW m, IsMem(m), NEW p, NEW lo, Stored(m, p, lo), NEW l, NEW key, NEW lenOK,
           NEW n, n = hideKeyInLayer(m, l, key, lenOK),
           NEW q, q = hideKeyInLayer(WithPlain(m, p), l, key, lenOK).memory,
           NEW st, StashOK(m, p, st, lo),
           NEW nst, nst = IF n = m THEN st ELSE [st EXCEPT ![l] = key]
    PROVE  Stored(n, q, lo) /\ StashOK(n, q, nst, lo)
<1>1. PICK w : w = WithPlain(m, p)
  OBVIOUS
<1>2. /\ IsMem(w) /\ w.memory = p /\ \A x : isValidLayer(w, x) <=> isValidLayer(m, x)
      /\ Used(w) = Used(m) /\ PlainStack(p) /\ w.encrypted = m.encrypted
  BY <1>1, WithPlainIs DEF Stored, MemFields
<1>3. CASE ~isValidLayer(m, l) \/ ~lenOK \/ m.encrypted[l]
  <2>1. n = m /\ q = p
    BY <1>1, <1>2, <1>3 DEF hideKeyInLayer
  <2>2. QED
    BY <2>1
<1>4. CASE ~(~isValidLayer(m, l) \/ ~lenOK \/ m.encrypted[l])
  <2>1. l \in Layers /\ isValidLayer(m, l) /\ ~m.encrypted[l] /\ \A a \in Used(m) : a \in Addrs
    BY <1>4, ValidLayers, UsedAddrs
  <2>2. PICK at : at = HidePositions \cap Used(m)
    OBVIOUS
  <2>3. PICK ws : ws = [a \in Addrs |-> IF a \in at THEN WithKeyBits(m.memory[l][a], key)
                                        ELSE m.memory[l][a]]
    OBVIOUS
  <2>4. PICK qs : qs = [a \in Addrs |-> IF a \in at THEN WithKeyBits(p[l][a], key) ELSE p[l][a]]
    OBVIOUS
  <2>5. n = [m EXCEPT !.memory[l] = ws, !.hidden[l] = TRUE]
    BY <1>4, <2>2, <2>3 DEF hideKeyInLayer
  <2>6. hideKeyInLayer(w, l, key, lenOK) = [w EXCEPT !.memory[l] = qs, !.hidden[l] = TRUE]
    BY <1>2, <1>4, <2>2, <2>4 DEF hideKeyInLayer
  <2>7. /\ n.memory = [m.memory EXCEPT ![l] = ws] /\ n.keys = m.keys
        /\ n.encrypted = m.encrypted /\ n.hidden = [m.hidden EXCEPT ![l] = TRUE]
        /\ n.num_words = m.num_words /\ n.num_layers = m.num_layers
    BY <2>5 DEF IsMem, MemFields
  <2>8. q = PutLayer(p, l, qs)
    BY <1>1, <1>2, <2>6 DEF IsMem, MemFields, PutLayer
  <2>9. OneLayer(m, n, l) /\ n.memory[l] = ws /\ \A x \in Layers : m.hidden[x] => n.hidden[x]
    BY <2>1, <2>7 DEF OneLayer, IsMem
  <2>10. n.hidden[l]
    BY <2>1, <2>7 DEF IsMem
  <2>11. \A x : PlainWord(WithKeyBits(x, key)) /\ Hides(WithKeyBits(x, key), key)
    BY DEF WithKeyBits, PlainWord, Hides
  <2>12. /\ DOMAIN qs = Addrs /\ \A a \in Addrs : PlainWord(qs[a])
         /\ \A a \in at : Hides(qs[a], key)
    BY <1>2, <2>1, <2>2, <2>4, <2>11 DEF PlainStack
  <2>13. PlainStack(q) /\ q[l] = qs /\ \A x \in Layers \ {l} : q[x] = p[x]
    BY <1>2, <2>1, <2>8, <2>12, PutLayerIs
  <2>14. Used(n) = Used(m) /\ \A x : isValidLayer(n, x) <=> isValidLayer(m, x)
    BY <2>7 DEF Used, isValidLayer
  <2>15. l \notin lo => \A a \in Used(m) : m.memory[l][a] = p[l][a] /\ ws[a] = qs[a]
    <3>1. l \notin lo => \A a \in Used(m) : m.memory[l][a] = p[l][a]
      BY <2>1 DEF Stored, Seen
    <3>2. QED
      BY <2>1, <2>3, <2>4, <3>1
  <2>16. l \notin lo => Seen(n, q, l)
    <3>1. ~n.encrypted[l]
      BY <2>1, <2>7
    <3>2. QED
      BY <2>9, <2>13, <2>14, <2>15, <3>1 DEF Seen
  <2>17. Stored(n, q, lo)
    BY <2>9, <2>13, <2>16, OneLayerStep
  <2>18. StashOK(n, q, nst, lo)
    <3>1. DOMAIN st = Layers
      BY DEF StashOK
    <3>2. /\ DOMAIN nst = Layers /\ \A x \in Layers \ {l} : nst[x] = st[x]
          /\ nst[l] = key \/ (nst[l] = st[l] /\ n = m)
      BY <2>1, <3>1
    <3>3. ASSUME NEW x \in Layers, nst[x] # NoKey
          PROVE  /\ isValidLayer(n, x) /\ n.hidden[x]
                 /\ x \notin lo => \A a \in HidePositions \cap Used(n) : Hides(q[x][a], nst[x])
      <4>1. CASE x = l /\ nst[l] = key
        BY <2>1, <2>2, <2>10, <2>12, <2>13, <2>14, <4>1
      <4>2. CASE x = l /\ nst[l] = st[l] /\ n = m
        <5>1. l \notin lo => \A a \in HidePositions \cap Used(m) : Hides(p[l][a], st[l])
          BY <3>3, <4>2 DEF StashOK
        <5>2. ASSUME l \notin lo, NEW a \in HidePositions \cap Used(m)
              PROVE  q[l][a] = p[l][a]
          <6>1. m.memory[l] = ws
            BY <2>9, <4>2
          <6>2. QED
            BY <2>13, <2>15, <5>2, <6>1
        <5>3. QED
          BY <2>1, <2>10, <2>14, <4>2, <5>1, <5>2
      <4>3. CASE x # l
        <5>1. x \in Layers \ {l} /\ nst[x] = st[x]
          BY <3>2, <4>3
        <5>2. /\ isValidLayer(m, x) /\ m.hidden[x]
              /\ x \notin lo => \A a \in HidePositions \cap Used(m) : Hides(p[x][a], st[x])
          BY <3>3, <5>1 DEF StashOK
        <5>3. q[x] = p[x] /\ n.hidden[x]
          BY <2>9, <2>13, <5>1, <5>2
        <5>4. QED
          BY <2>14, <5>1, <5>2, <5>3
      <4>4. QED
        BY <3>2, <4>1, <4>2, <4>3
    <3>4. QED
      BY <3>2, <3>3 DEF StashOK
  <2>19. QED
    BY <2>17, <2>18
<1>5. QED
  BY <1>3, <1>4

\* New keys make unreadable what other keys encrypted.
LEMMA RootSeen ==
    ASSUME NEW m, IsMem(m), NEW p, NEW lo, Stored(m, p, lo), NEW root,
           NEW n, n = setHardwareRootKey(m, root)
    PROVE  /\ Stored(n, p, lo \cup {l \in Layers : m.encrypted[l] /\ m.keys[l] # n.keys[l]})
           /\ HiddenStay(m, n, p, p, {})
<1>1. PICK nlo : nlo = lo \cup {l \in Layers : m.encrypted[l] /\ m.keys[l] # n.keys[l]}
  OBVIOUS
<1>2. /\ n.memory = m.memory /\ n.encrypted = m.encrypted /\ n.hidden = m.hidden
      /\ n.num_words = m.num_words /\ n.num_layers = m.num_layers
  BY DEF setHardwareRootKey, IsMem, MemFields
<1>3. Used(n) = Used(m) /\ \A l : isValidLayer(n, l) <=> isValidLayer(m, l)
  BY <1>2 DEF Used, isValidLayer
<1>4. Blocks(n)
  BY <1>2 DEF Stored, Blocks
<1>5. ASSUME NEW l \in Layers \ nlo, isValidLayer(n, l) PROVE Seen(n, p, l)
  <2>1. Seen(m, p, l)
    BY <1>1, <1>3, <1>5 DEF Stored
  <2>2. m.encrypted[l] => n.keys[l] = m.keys[l]
    BY <1>1, <1>5
  <2>3. QED
    BY <1>2, <1>3, <2>1, <2>2 DEF Seen
<1>6. Stored(n, p, nlo)
  BY <1>4, <1>5 DEF Stored
<1>7. HiddenStay(m, n, p, p, {})
  BY <1>2, <1>3 DEF HiddenStay
<1>8. QED
  BY <1>1, <1>6, <1>7
-----------------------------------------------------------------------------
(* The invariant of the stack.                                               *)

MemInv == Stored(mem, plain, lost) /\ StashOK(mem, plain, stash, lost)

\* Words on their way are not ciphertext.
PlainData == \A q \in issued : PlainWord(q.data)

\* What the host does to stack and history, hidden keys in ls given up.
LEMMA ForgetStep ==
    ASSUME MemInv, NEW ls, Forget(ls), Stored(mem', plain', lost'),
           HiddenStay(mem, mem', plain, plain', ls), lost \subseteq lost' \cup ls
    PROVE  MemInv'
<1>1. /\ DOMAIN stash' = Layers
      /\ \A l \in Layers : stash'[l] # NoKey => l \notin ls /\ stash'[l] = stash[l]
  BY DEF Forget
<1>2. StashOK(mem', plain', stash', lost')
  BY <1>1, StashStep DEF MemInv
<1>3. QED
  BY <1>2 DEF MemInv

\* The hidden keys are as they were.
LEMMA KeepStep ==
    ASSUME MemInv, stash' = stash, Stored(mem', plain', lost'),
           HiddenStay(mem, mem', plain, plain', {}), lost \subseteq lost'
    PROVE  MemInv'
<1>1. /\ DOMAIN stash' = Layers
      /\ \A l \in Layers : stash'[l] # NoKey => l \notin {} /\ stash'[l] = stash[l]
  BY DEF MemInv, StashOK
<1>2. StashOK(mem', plain', stash', lost')
  BY <1>1, StashStep DEF MemInv
<1>3. QED
  BY <1>2 DEF MemInv

LEMMA WriteStep ==
    ASSUME IsMem(mem), MemInv, NEW l, NEW a, NEW w, PlainWord(w),
           mem' = write(mem, l, a, w), Remember(mem, l, a, w)
    PROVE  MemInv'
<1>1. plain' = write(Unsealed(mem, plain), l, a, w).memory /\ lost' = lost
  BY DEF Remember, Unsealed
<1>2. /\ Stored(mem', plain', lost')
      /\ \A x \in Layers, y \in Addrs : (x # l \/ y # a) => plain'[x][y] = plain[x][y]
  <2>1. PICK q : q = write(Unsealed(mem, plain), l, a, w).memory
    OBVIOUS
  <2>2. /\ Stored(write(mem, l, a, w), q, lost)
        /\ \A x \in Layers, y \in Addrs : (x # l \/ y # a) => q[x][y] = plain[x][y]
    BY <2>1, WriteSeen DEF MemInv
  <2>3. QED
    BY <1>1, <2>1, <2>2
<1>3. /\ mem'.num_words = mem.num_words /\ mem'.num_layers = mem.num_layers
      /\ mem'.hidden = mem.hidden
  BY WriteKeeps DEF MemFields
<1>4. \A x : isValidLayer(mem', x) <=> isValidLayer(mem, x)
  BY <1>3 DEF isValidLayer
<1>5. HiddenStay(mem, mem', plain, plain', {l})
  BY <1>2, <1>3, <1>4, UsedAddrs DEF HiddenStay
<1>6. CASE a \in HidePositions
  <2>1. Forget({l})
    BY <1>6 DEF Remember
  <2>2. QED
    BY <1>1, <1>2, <1>5, <2>1, ForgetStep
<1>7. CASE a \notin HidePositions
  <2>1. stash' = stash
    BY <1>7 DEF Remember
  <2>2. HiddenStay(mem, mem', plain, plain', {})
    BY <1>2, <1>3, <1>4, <1>7, UsedAddrs DEF HiddenStay
  <2>3. QED
    BY <1>1, <1>2, <2>1, <2>2, KeepStep
<1>8. QED
  BY <1>6, <1>7

\* A step that changes no words.
LEMMA SameStep ==
    ASSUME MemInv, SameWords(mem, mem'), UNCHANGED <<plain, lost, stash>>
    PROVE  MemInv'
<1>1. Stored(mem', plain, lost)
  BY SameWordsStored DEF MemInv
<1>2. StashOK(mem', plain, stash, lost)
  BY DEF MemInv, StashOK, SameWords, isValidLayer, Used
<1>3. QED
  BY <1>1, <1>2 DEF MemInv

LEMMA CryptSteps ==
    ASSUME IsMem(mem), MemInv, NEW l, HostEncrypt(l) \/ HostDecrypt(l)
    PROVE  MemInv'
<1>1. PICK n : (n = encryptLayer(mem, l) \/ n = decryptLayer(mem, l)) /\ mem' = n
  BY DEF HostEncrypt, HostDecrypt
<1>2. UNCHANGED <<plain, lost, stash>>
  BY DEF HostEncrypt, HostDecrypt
<1>3. Stored(n, plain, lost) /\ n.hidden = mem.hidden /\ n.num_layers = mem.num_layers
  BY <1>1, EncryptSeen, DecryptSeen DEF MemInv
<1>4. n.num_words = mem.num_words
  BY <1>1, EncryptKeeps DEF Keeps
<1>5. HiddenStay(mem, n, plain, plain, {})
  BY <1>3, <1>4 DEF HiddenStay, isValidLayer
<1>6. QED
  BY <1>1, <1>2, <1>3, <1>5, KeepStep

LEMMA MaskSteps ==
    ASSUME IsMem(mem), MemInv, NEW l, NEW k,
           HostScramble(l) \/ HostScrambleWithKey(l, k) \/ HostUnscrambleWithKey(l, k)
    PROVE  MemInv'
<1>1. Stored(mem, plain, lost)
  BY DEF MemInv
<1>2. CASE HostScramble(l)
  <2>1. /\ mem' = scrambleLayer(mem, l) /\ plain' = scrambleLayer(WithPlain(mem, plain), l).memory
        /\ Forget({l}) /\ lost' = lost
    BY <1>2 DEF HostScramble, SameOnPlain, WithPlain
  <2>2. Stored(mem', plain', lost') /\ HiddenStay(mem, mem', plain, plain', {l})
    BY <1>1, <2>1, ScrambleSeen
  <2>3. QED
    BY <2>1, <2>2, ForgetStep
<1>3. CASE HostScrambleWithKey(l, k)
  <2>1. /\ mem' = scrambleLayerWithKey(mem, l, k)
        /\ plain' = scrambleLayerWithKey(WithPlain(mem, plain), l, k).memory
        /\ Forget({l}) /\ lost' = lost
    BY <1>3 DEF HostScrambleWithKey, SameOnPlain, WithPlain
  <2>2. Stored(mem', plain', lost') /\ HiddenStay(mem, mem', plain, plain', {l})
    BY <1>1, <2>1, ScrambleSeen
  <2>3. QED
    BY <2>1, <2>2, ForgetStep
<1>4. CASE HostUnscrambleWithKey(l, k)
  <2>1. /\ mem' = unscrambleLayerWithKey(mem, l, k)
        /\ plain' = unscrambleLayerWithKey(WithPlain(mem, plain), l, k).memory
        /\ lost' = lost \cup {x \in {l} : isValidLayer(mem, l) /\ mem.encrypted[l]}
        /\ Forget({l})
    BY <1>4 DEF HostUnscrambleWithKey, SameOnPlain, WithPlain
  <2>2. Stored(mem', plain', lost') /\ HiddenStay(mem, mem', plain, plain', {l})
    <3>1. lost' = MaskLost(mem, l, lost)
      BY <2>1 DEF MaskLost
    <3>2. /\ Stored(unscrambleLayerWithKey(mem, l, k),
                    unscrambleLayerWithKey(WithPlain(mem, plain), l, k).memory,
                    MaskLost(mem, l, lost))
          /\ HiddenStay(mem, unscrambleLayerWithKey(mem, l, k),
                        plain, unscrambleLayerWithKey(WithPlain(mem, plain), l, k).memory, {l})
      BY <1>1, ScrambleSeen
    <3>3. QED
      BY <2>1, <3>1, <3>2
  <2>3. lost \subseteq lost' \cup {l}
    BY <2>1
  <2>4. QED
    BY <2>1, <2>2, <2>3, ForgetStep
<1>5. QED
  BY <1>2, <1>3, <1>4
LEMMA TamperStep ==
    ASSUME IsMem(mem), MemInv, NEW l, NEW a, NEW w, HostCheckTamper(l, a, w)
    PROVE  MemInv'
<1>1. CASE mem' = mem
  BY <1>1, SameStep DEF HostCheckTamper, SameWords
<1>2. CASE mem' # mem
  <2>1. /\ mem' = checkTamper(mem, l, a, w) /\ Forget(Layers) /\ lost' = {}
        /\ plain' = autoReset(WithPlain(mem, plain)).memory
    BY <1>2 DEF HostCheckTamper, WithPlain
  <2>2. PICK t : t = [mem EXCEPT !.tamper_detected = TRUE, !.lockdown = TRUE,
                                 !.tamper_events = mem.tamper_events + 1]
    OBVIOUS
  <2>3. mem' = autoReset(t)
    BY <1>2, <2>1, <2>2 DEF checkTamper
  <2>4. IsMem(t) /\ SameWords(mem, t)
    BY <2>2 DEF IsMem, MemFields, SameWords
  <2>5. Stored(mem', plain', {})
    BY <2>1, <2>3, <2>4, ResetSeen DEF MemInv
  <2>6. StashOK(mem', plain', stash', {})
    BY <2>1 DEF Forget, StashOK
  <2>7. QED
    BY <2>1, <2>5, <2>6 DEF MemInv
<1>3. QED
  BY <1>1, <1>2

LEMMA EmptySteps ==
    ASSUME IsMem(mem), MemInv, NEW l, NEW ls, HostClear(l) \/ HostResetCritical(ls)
    PROVE  MemInv'
<1>1. Stored(mem, plain, lost)
  BY DEF MemInv
<1>2. CASE HostClear(l)
  <2>1. /\ mem' = clearLayer(mem, l) /\ plain' = clearLayer(WithPlain(mem, plain), l).memory
        /\ Forget({l}) /\ lost' = lost \ {l}
    BY <1>2 DEF HostClear, SameOnPlain, WithPlain
  <2>2. Stored(mem', plain', lost') /\ HiddenStay(mem, mem', plain, plain', {l})
    BY <1>1, <2>1, ClearSeen
  <2>3. lost \subseteq lost' \cup {l}
    BY <2>1
  <2>4. QED
    BY <2>1, <2>2, <2>3, ForgetStep
<1>3. CASE HostResetCritical(ls)
  <2>1. PICK all : all = AllOf(ls)
    OBVIOUS
  <2>2. /\ mem' = autoResetCritical(mem, ls)
        /\ plain' = autoResetCritical(WithPlain(mem, plain), ls).memory
        /\ Forget(all) /\ lost' = lost \ all
    BY <1>3, <2>1 DEF HostResetCritical, SameOnPlain, WithPlain, AllOf
  <2>3. Stored(mem', plain', lost \ all) /\ HiddenStay(mem, mem', plain, plain', all)
    BY <1>1, <2>1, <2>2, CriticalSeen
  <2>4. lost \subseteq lost' \cup all
    BY <2>2
  <2>5. QED
    BY <2>2, <2>3, <2>4, ForgetStep
<1>4. QED
  BY <1>2, <1>3

LEMMA CopyStep ==
    ASSUME IsMem(mem), MemInv, NEW src, NEW dst, HostCopy(src, dst)
    PROVE  MemInv'
<1>1. /\ mem' = copyLayer(mem, src, dst)
      /\ plain' = copyLayer(WithPlain(mem, plain), src, dst).memory
      /\ lost' = CopyLost(mem, src, dst, lost)
      /\ stash' = IF isValidLayer(mem, src) /\ isValidLayer(mem, dst)
                  THEN [stash EXCEPT ![dst] = stash[src]] ELSE stash
  BY DEF HostCopy, SameOnPlain, WithPlain, CopyLost
<1>2. Stored(mem', plain', lost') /\ StashOK(mem', plain', stash', lost')
  BY <1>1, CopySeen DEF MemInv
<1>3. QED
  BY <1>2 DEF MemInv

LEMMA HideStep ==
    ASSUME IsMem(mem), MemInv, NEW l, NEW key, NEW lenOK, HostHide(l, key, lenOK)
    PROVE  MemInv'
<1>1. /\ mem' = hideKeyInLayer(mem, l, key, lenOK)
      /\ plain' = hideKeyInLayer(WithPlain(mem, plain), l, key, lenOK).memory
      /\ lost' = lost /\ stash' = IF mem' = mem THEN stash ELSE [stash EXCEPT ![l] = key]
  BY DEF HostHide, SameOnPlain, WithPlain
<1>2. Stored(mem', plain', lost) /\ StashOK(mem', plain', stash', lost)
  BY <1>1, HideSeen DEF MemInv
<1>3. QED
  BY <1>1, <1>2 DEF MemInv

LEMMA OtherSteps ==
    ASSUME IsMem(mem), MemInv,
           \/ HostObfuscate \/ HostAddLayers(1) \/ HostSettings
           \/ \E root \in Roots : HostSetRoot(root)
    PROVE  MemInv'
<1>1. Stored(mem, plain, lost)
  BY DEF MemInv
<1>2. CASE HostObfuscate
  <2>1. /\ mem' = hardwareObfuscate(mem)
        /\ plain' = hardwareObfuscate(WithPlain(mem, plain)).memory
        /\ lost' = lost /\ stash' = stash
    BY <1>2 DEF HostObfuscate, SameOnPlain, WithPlain
  <2>2. PICK ls : ls = {x \in Layers : ~mem.hidden[x]}
    OBVIOUS
  <2>3. Stored(mem', plain', lost) /\ HiddenStay(mem, mem', plain, plain', ls)
    BY <1>1, <2>1, <2>2, ObfuscateSeen
  <2>4. /\ DOMAIN stash = Layers
        /\ \A l \in Layers : stash[l] # NoKey => l \notin ls /\ stash[l] = stash[l]
    BY <2>2 DEF MemInv, StashOK
  <2>5. StashOK(mem', plain', stash, lost)
    BY <2>3, <2>4, StashStep DEF MemInv
  <2>6. QED
    BY <2>1, <2>3, <2>5 DEF MemInv
<1>3. CASE HostAddLayers(1)
  <2>1. /\ mem' = addLayers(mem, 1) /\ plain' = addLayers(WithPlain(mem, plain), 1).memory
        /\ lost' = lost /\ stash' = stash
    BY <1>3 DEF HostAddLayers, SameOnPlain, WithPlain
  <2>2. Stored(mem', plain', lost') /\ HiddenStay(mem, mem', plain, plain', {})
    BY <1>1, <2>1, AddLayersSeen
  <2>3. QED
    BY <2>1, <2>2, KeepStep
<1>4. CASE HostSettings
  <2>1. SameWords(mem, mem')
    <3>1. \E x \in {"access", "processing_layer", "lockdown"} :
              \E y, z, v : mem' = mem \/ mem' = [mem EXCEPT ![x] = y]
                           \/ mem' = [mem EXCEPT !.tamper_detected = y, !.tamper_events = z,
                                                 !.lockdown = v]
                           \/ mem' = [mem EXCEPT !.tamper_detected = y, !.lockdown = v]
      BY <1>4 DEF HostSettings, setLayerAccess, enableProcessingLayer, clearProcessingLayer,
                  lockSecurity, clearSecurityLockdown
    <3>2. QED
      BY <3>1 DEF SameWords, IsMem, MemFields
  <2>2. QED
    BY <1>4, <2>1, SameStep DEF HostSettings
<1>5. CASE \E root \in Roots : HostSetRoot(root)
  <2>1. PICK root : HostSetRoot(root)
    BY <1>5
  <2>2. /\ mem' = setHardwareRootKey(mem, root) /\ plain' = plain /\ stash' = stash
        /\ lost' = lost \cup {l \in Layers : mem.encrypted[l] /\ mem.keys[l] # mem'.keys[l]}
    BY <2>1 DEF HostSetRoot
  <2>3. Stored(mem', plain', lost') /\ HiddenStay(mem, mem', plain, plain', {})
    BY <1>1, <2>2, RootSeen
  <2>4. lost \subseteq lost'
    BY <2>2
  <2>5. QED
    BY <2>2, <2>3, <2>4, KeepStep
<1>6. QED
  BY <1>2, <1>3, <1>4, <1>5

LEMMA HostMem ==
    ASSUME IsMem(mem), MemInv, HostStep
    PROVE  MemInv'
<1>1. CASE \E l \in Layers, v \in Values : HostWrite(l, 0, Const(v))
  <2>1. PICK l, v : HostWrite(l, 0, Const(v))
    BY <1>1
  <2>2. mem' = write(mem, l, 0, Const(v)) /\ Remember(mem, l, 0, Const(v))
    BY <2>1 DEF HostWrite, protectedWrite, write
  <2>3. QED
    BY <2>2, WriteStep, ConstPlain
<1>2. CASE \E l \in 0 .. MAX_LAYERS : HostEncrypt(l) \/ HostDecrypt(l) \/ HostScramble(l)
  BY <1>2, CryptSteps, MaskSteps
<1>3. CASE \E l \in Layers : HostScrambleWithKey(l, UserKey) \/ HostUnscrambleWithKey(l, UserKey)
  BY <1>3, MaskSteps
<1>4. CASE \/ HostObfuscate \/ HostAddLayers(1) \/ HostSettings
           \/ \E root \in Roots : HostSetRoot(root)
  BY <1>4, OtherSteps
<1>5. CASE \E l \in Layers, w \in {Zero} \cup {Const(v) : v \in Values} : HostCheckTamper(l, 0, w)
  BY <1>5, TamperStep
<1>6. CASE \E l \in Layers : HostResetCritical(<<l, MAX_LAYERS>>) \/ HostClear(l)
  BY <1>6, EmptySteps
<1>7. CASE \E l \in Layers, lenOK \in BOOLEAN : HostHide(l, "K", lenOK)
  BY <1>7, HideStep
<1>8. CASE \E src \in Layers, dst \in Layers : HostCopy(src, dst)
  BY <1>8, CopyStep
<1>9. QED
  BY <1>1, <1>2, <1>3, <1>4, <1>5, <1>6, <1>7, <1>8 DEF HostStep
-----------------------------------------------------------------------------
(* The fabric's steps.                                                       *)

\* A severe event empties the key tiers in both stacks.
LEMMA ZeroizedMem ==
    ASSUME IsMem(mem), MemInv, Zeroized
    PROVE  MemInv'
<1>1. PICK kt : kt = IF fab.zeroize_on_severe THEN KeyTiers(fab, mem) ELSE {}
  OBVIOUS
<1>2. /\ plain' = Emptied(WithPlain(mem, plain), kt).memory
      /\ lost' = lost \ kt /\ Forget(kt)
      /\ mem' = zeroizeCriticalTier(fab, mem)
  BY <1>1 DEF Zeroized, WithPlain
<1>3. PICK e : e = Emptied(mem, kt)
  OBVIOUS
<1>4. lost \subseteq lost' \cup kt
  BY <1>2
<1>5. Stored(e, plain', lost') /\ HiddenStay(mem, e, plain, plain', kt)
  BY <1>2, <1>3, <1>4, EmptiedSeen DEF MemInv
<1>6. CASE fab.zeroize_on_severe
  <2>1. kt = KeyTiers(fab, mem) /\ DOMAIN e = MemFields
    BY <1>1, <1>3, <1>6 DEF Emptied, IsMem
  <2>2. PICK acc : mem' = [e EXCEPT !.access = acc]
    BY <1>2, <1>3, <1>6, <2>1 DEF zeroizeCriticalTier
  <2>3. SameWords(e, mem')
    BY <2>1, <2>2 DEF SameWords, MemFields
  <2>4. Stored(mem', plain', lost') /\ HiddenStay(mem, mem', plain, plain', kt)
    BY <1>5, <2>3, SameWordsStored
  <2>5. QED
    BY <1>2, <1>4, <2>4, ForgetStep
<1>7. CASE ~fab.zeroize_on_severe
  <2>1. kt = {} /\ mem' = mem /\ lost' = lost
    BY <1>1, <1>2, <1>7 DEF zeroizeCriticalTier
  <2>2. PlainStack(plain') /\ \A l \in Layers \ kt : plain'[l] = plain[l]
    BY <1>2, EmptiedBoth DEF MemInv, Stored
  <2>3. \A l \in Layers : LayerSame(mem, mem', plain, plain', l)
    BY <2>1, <2>2 DEF LayerSame
  <2>4. \A l \in Layers \ lost' : isValidLayer(mem', l) =>
              \/ l \notin lost /\ isValidLayer(mem, l) /\ LayerSame(mem, mem', plain, plain', l)
              \/ Seen(mem', plain', l)
    BY <2>1, <2>3
  <2>5. mem'.num_words = mem.num_words /\ Stored(mem, plain, lost)
    BY <2>1 DEF MemInv
  <2>6. Stored(mem', plain', lost')
    BY <2>2, <2>4, <2>5, StoredStep
  <2>7. HiddenStay(mem, mem', plain, plain', kt)
    BY <2>1, <2>2 DEF HiddenStay
  <2>8. QED
    BY <1>2, <1>4, <2>6, <2>7, ForgetStep
<1>8. QED
  BY <1>6, <1>7

\* The sentinels are written to both stacks.
LEMMA InstallMem ==
    ASSUME IsMem(mem), MemInv, installSentinels
    PROVE  MemInv'
<1>1. PICK t : t = FirstSentinelTier(fab, mem)
  OBVIOUS
<1>2. CASE ~isValidLayer(mem, t) \/ mem.num_words < SENTINEL_COUNT
  <2>1. UNCHANGED <<mem, plain, lost, stash>>
    BY <1>1, <1>2 DEF installSentinels, memVars
  <2>2. QED
    BY <2>1, SameStep DEF SameWords
<1>3. CASE isValidLayer(mem, t) /\ ~(mem.num_words < SENTINEL_COUNT)
  <2>1. PICK ws : ws = [a \in SentinelAddrs(mem) |-> SentinelWord(fab, t, a)]
    OBVIOUS
  <2>2. /\ mem' = writeAll(mem, t, ws)
        /\ plain' = writeAll(Unsealed(mem, plain), t, ws).memory
        /\ IF SentinelAddrs(mem) \cap HidePositions = {} THEN UNCHANGED stash ELSE Forget({t})
        /\ lost' = lost
    BY <1>1, <1>3, <2>1 DEF installSentinels, Unsealed
  <2>3. DOMAIN ws = SentinelAddrs(mem) /\ \A a \in DOMAIN ws : PlainWord(ws[a])
    BY <2>1 DEF SentinelWord, PlainWord
  <2>4. /\ Stored(mem', plain', lost')
        /\ \A x \in Layers, y \in Addrs : (x # t \/ y \notin DOMAIN ws) => plain'[x][y] = plain[x][y]
    BY <2>2, <2>3, WriteAllSeen DEF MemInv
  <2>5. /\ mem'.num_words = mem.num_words /\ mem'.num_layers = mem.num_layers
        /\ mem'.hidden = mem.hidden
    <3>1. /\ Keeps(mem, writeAll(mem, t, ws))
          /\ \A x \in MemFields \ {"memory"} : writeAll(mem, t, ws)[x] = mem[x]
      BY WriteAllKeeps
    <3>2. QED
      BY <2>2, <3>1 DEF MemFields
  <2>6. \A x : isValidLayer(mem', x) <=> isValidLayer(mem, x)
    BY <2>5 DEF isValidLayer
  <2>7. CASE SentinelAddrs(mem) \cap HidePositions = {}
    <3>1. stash' = stash
      BY <2>2, <2>7
    <3>2. HiddenStay(mem, mem', plain, plain', {})
      BY <2>3, <2>4, <2>5, <2>6, <2>7, UsedAddrs DEF HiddenStay
    <3>3. QED
      BY <2>2, <2>4, <3>1, <3>2, KeepStep
  <2>8. CASE SentinelAddrs(mem) \cap HidePositions # {}
    <3>1. Forget({t})
      BY <2>2, <2>8
    <3>2. HiddenStay(mem, mem', plain, plain', {t})
      BY <2>4, <2>5, <2>6, UsedAddrs DEF HiddenStay
    <3>3. QED
      BY <2>2, <2>4, <3>1, <3>2, ForgetStep
  <2>9. QED
    BY <2>7, <2>8
<1>4. QED
  BY <1>2, <1>3

LEMMA ExecuteMem ==
    ASSUME IsMem(mem), MemInv, NEW q, PlainWord(q.data), execute(q)
    PROVE  MemInv'
<1>1. CASE Zeroized
  BY <1>1, ZeroizedMem
<1>2. CASE UNCHANGED memVars
  BY <1>2, SameStep DEF memVars, SameWords
<1>3. CASE mem' = write(mem, q.layer, q.addr, q.data) /\ Remember(mem, q.layer, q.addr, q.data)
  BY <1>3, WriteStep
<1>4. QED
  BY <1>1, <1>2, <1>3 DEF execute

LEMMA DeliverMem ==
    ASSUME IInv, MemInv, PlainData, Deliver \/ DeliverAltered
    PROVE  MemInv' /\ PlainData'
<1>1. IsMem(mem)
  BY DEF IInv
<1>2. PICK x : execute(x) /\ (x \in issued \/ \E q \in issued : x \in Altered(q))
  BY DEF Deliver, DeliverAltered
<1>3. PlainWord(x.data)
  <2>1. CASE x \in issued
    BY <2>1 DEF PlainData
  <2>2. CASE \E q \in issued : x \in Altered(q)
    <3>1. PICK q \in issued : x \in Altered(q)
      BY <2>2
    <3>2. DOMAIN q = ReqFields
      <4>1. Issued(q)
        BY DEF IInv, Protocol, Wire
      <4>2. QED
        BY <4>1 DEF Issued
    <3>3. x.data = Ones \/ x.data = q.data
      BY <3>1, <3>2 DEF Altered, ReqFields
    <3>4. QED
      BY <3>1, <3>3, ConstPlain DEF PlainData, Ones
  <2>3. QED
    BY <1>2, <2>1, <2>2
<1>4. issued' = issued
  BY <1>2 DEF execute
<1>5. QED
  BY <1>1, <1>2, <1>3, <1>4, ExecuteMem DEF PlainData

LEMMA IssueMem ==
    ASSUME MemInv, PlainData, Issue
    PROVE  MemInv' /\ PlainData'
<1>1. UNCHANGED <<mem, plain, lost, stash>>
  BY DEF Issue, memVars
<1>2. PICK r, op, l, a, w, q : /\ q = Request(fab, r, op, l, a, w)
                               /\ w = Zero \/ \E v : w = Const(v)
                               /\ issued' = issued \cup {q}
  BY DEF Issue
<1>3. q.data = w
  BY <1>2 DEF Request, signRequest
<1>4. PlainWord(w)
  BY <1>2, ConstPlain DEF Zero
<1>5. QED
  BY <1>1, <1>2, <1>3, <1>4, SameStep DEF PlainData, SameWords

\* The other steps of the fabric's host touch no word.
LEMMA ControlMem ==
    ASSUME IsMem(mem), MemInv, PlainData,
           \/ resetProtocolStateForSimulation \/ setRootKeyForSimulation \/ advanceEpoch
           \/ setEpochKeyHierarchy \/ Settings
    PROVE  MemInv' /\ PlainData'
<1>1. UNCHANGED <<plain, lost, stash, issued>> /\ (mem' = mem \/ mem' = AllAccess(mem))
  BY DEF resetProtocolStateForSimulation, setRootKeyForSimulation, advanceEpoch,
         setEpochKeyHierarchy, Settings, memVars
<1>2. SameWords(mem, mem')
  <2>1. CASE mem' = mem
    BY <2>1 DEF SameWords
  <2>2. CASE mem' = AllAccess(mem)
    BY <2>2, AllAccessIs DEF SameWords, MemFields
  <2>3. QED
    BY <1>1, <2>1, <2>2
<1>3. QED
  BY <1>1, <1>2, SameStep DEF PlainData

LEMMA ConstructedBlocks ==
    ASSUME NEW layers \in Nat, NEW words \in Nat, NEW root
    PROVE  Blocks(Constructed(layers, words, root))
<1>1. PICK b \in Nat \ {0} : b = INSTRS_PER_BLOCK
  BY StackAssumption
<1>2. PICK w \in Nat : w = IF words > MAX_WORDS THEN MAX_WORDS ELSE words
  BY StackAssumption
<1>3. PICK d \in Nat : d = w \div b
  BY <1>1, <1>2
<1>4. Constructed(layers, words, root).num_words = IF d * b = 0 THEN b ELSE d * b
  BY <1>1, <1>2, <1>3 DEF Constructed
<1>5. b = 1 * b
  BY <1>1
<1>6. QED
  BY <1>1, <1>3, <1>4, <1>5 DEF Blocks

LEMMA InitMem ==
    ASSUME Init
    PROVE  MemInv /\ PlainData
<1> DEFINE root == CHOOSE r \in Roots : TRUE
           v    == CHOOSE x \in Values : TRUE
           m    == Constructed(left.layers, left.words, root)
<1>1. mem = [m EXCEPT !.memory = [l \in Layers |->
                IF isValidLayer(m, l) THEN [m.memory[l] EXCEPT ![0] = Const(v)] ELSE m.memory[l]]]
  BY DEF Init
<1> HIDE DEF v
<1>2. left.layers \in Nat /\ left.words \in Nat
  BY FabricAssumption DEF Init
<1>3. IsMem(m) /\ Blocks(m)
  BY <1>2, ConstructedIs, ConstructedBlocks
<1>4. /\ m.memory = [l \in Layers |-> [a \in Addrs |-> Zero]]
      /\ m.encrypted = [l \in Layers |-> FALSE]
  BY DEF Constructed
<1> HIDE DEF root, m
<1>5. /\ plain = mem.memory /\ lost = {} /\ stash = [l \in Layers |-> NoKey] /\ issued = {}
  BY DEF Init
<1>6. PICK ws : ws = [l \in Layers |-> IF isValidLayer(m, l)
                                       THEN [m.memory[l] EXCEPT ![0] = Const(v)] ELSE m.memory[l]]
  OBVIOUS
<1>7. mem.memory = ws /\ mem.encrypted = m.encrypted /\ mem.num_words = m.num_words
  BY <1>1, <1>3, <1>6 DEF IsMem, MemFields
<1>8. PlainWord(Zero) /\ PlainWord(Const(v))
  BY ConstPlain DEF Zero
<1>9. PlainStack(plain)
  BY <1>4, <1>5, <1>6, <1>7, <1>8 DEF PlainStack
<1>10. Blocks(mem)
  BY <1>3, <1>7 DEF Blocks
<1>11. \A l \in Layers : Seen(mem, plain, l)
  BY <1>4, <1>5, <1>7 DEF Seen
<1>12. QED
  BY <1>5, <1>9, <1>10, <1>11 DEF MemInv, Stored, StashOK, PlainData

\* What every readable layer holds, in every reachable state: the words a stack without
\* AES would hold, or block by block their encryption.
THEOREM MemoryInvariant == Spec => [](IInv /\ MemInv /\ PlainData)
<1>1. Init => MemInv /\ PlainData
  BY InitMem
<1>2. IInv /\ MemInv /\ PlainData /\ [Next]_vars => MemInv' /\ PlainData'
  <2> SUFFICES ASSUME IInv, MemInv, PlainData, [Next]_vars PROVE MemInv' /\ PlainData'
    OBVIOUS
  <2>1. IsMem(mem)
    BY DEF IInv
  <2>2. CASE Host
    BY <2>1, <2>2, HostMem DEF Host, PlainData
  <2>3. CASE \/ resetProtocolStateForSimulation \/ setRootKeyForSimulation \/ advanceEpoch
             \/ setEpochKeyHierarchy \/ Settings
    BY <2>1, <2>3, ControlMem
  <2>4. CASE installSentinels
    BY <2>1, <2>4, InstallMem DEF installSentinels, PlainData
  <2>5. CASE verifySentinels \/ updateTemperatureMilliC \/ reportPhysicalFault
    <3>1. issued' = issued /\ (Zeroized \/ UNCHANGED memVars)
      BY <2>5 DEF verifySentinels, updateTemperatureMilliC, reportPhysicalFault, memVars
    <3>2. UNCHANGED memVars => SameWords(mem, mem') /\ UNCHANGED <<plain, lost, stash>>
      BY DEF memVars, SameWords
    <3>3. QED
      BY <2>1, <3>1, <3>2, ZeroizedMem, SameStep DEF PlainData
  <2>6. CASE Issue
    BY <2>6, IssueMem
  <2>7. CASE Deliver \/ DeliverAltered
    BY <2>7, DeliverMem
  <2>8. CASE UNCHANGED vars
    BY <2>8, SameStep DEF vars, memVars, SameWords, PlainData
  <2>9. QED
    BY <2>2, <2>3, <2>4, <2>5, <2>6, <2>7, <2>8 DEF Next
<1>3. QED
  BY <1>1, <1>2, Invariant, PTL DEF Spec

\* In whichever order encryptLayer, decryptLayer, write, the masks, copyLayer and the resets
\* are called, a word of a readable layer reads as if nothing had been encrypted.
THEOREM EncryptionTransparent == Spec => []EncryptionIsTransparent
<1>1. IInv /\ MemInv => EncryptionIsTransparent
  <2> SUFFICES ASSUME IInv, MemInv, NEW l \in Layers \ lost, isValidLayer(mem, l),
                      NEW a \in Used(mem)
               PROVE  /\ logicalReadNoAccessCheck(mem, l, a) = plain[l][a]
                      /\ protectedRead(mem, l, a) = IF mem.access[l] THEN plain[l][a] ELSE Ones
                      /\ mem.processing_layer = l =>
                            readProcessing(mem, a) = IF mem.access[l] THEN plain[l][a] ELSE Ones
    BY DEF EncryptionIsTransparent
  <2>1. logicalReadNoAccessCheck(mem, l, a) = plain[l][a]
    BY ReadSeen DEF IInv, MemInv, Stored
  <2>2. read(mem, l, a) = IF mem.access[l] THEN plain[l][a] ELSE Ones
    BY <2>1 DEF read
  <2>3. l # NoLayer
    BY DEF Layers, NoLayer
  <2>4. QED
    BY <2>1, <2>2, <2>3 DEF protectedRead, readProcessing
<1>2. QED
  BY <1>1, MemoryInvariant, PTL

\* extractKeyFromLayer returns the key that hideKeyInLayer put there, whatever
\* hardwareObfuscate, encryptLayer, decryptLayer and copyLayer did in between.
THEOREM HiddenKeyStays == Spec => []HiddenKeySurvives
<1>1. MemInv => HiddenKeySurvives
  <2> SUFFICES ASSUME MemInv, HidePositions \subseteq Used(mem), NEW l \in Layers \ lost,
                      stash[l] # NoKey, ~mem.encrypted[l]
               PROVE  extractKeyFromLayer(mem, l) = stash[l]
    BY DEF HiddenKeySurvives
  <2>1. /\ isValidLayer(mem, l)
        /\ \A a \in HidePositions \cap Used(mem) : Hides(plain[l][a], stash[l])
    BY DEF MemInv, StashOK
  <2>2. \A a \in Used(mem) : mem.memory[l][a] = plain[l][a]
    BY <2>1 DEF MemInv, Stored, Seen
  <2>3. PICK at : at = {mem.memory[l][a] : a \in HidePositions \cap Used(mem)}
    OBVIOUS
  <2>4. \A w \in at : Hides(w, stash[l])
    BY <2>1, <2>2, <2>3
  <2>5. PICK w : w \in at
    BY <2>3, StackAssumption
  <2>6. (CHOOSE x \in at : TRUE) \in at
    BY <2>5
  <2>7. PICK c : c = (CHOOSE x \in at : TRUE) /\ c \in at /\ c.base[2] = stash[l]
    BY <2>4, <2>6 DEF Hides
  <2>8. \E key \in {x.base[2] : x \in {y \in at : y.base[1] = "hid" /\ y.mask = {}}} :
           \A x \in at : x.base[1] = "hid" /\ x.base[2] = key /\ x.mask = {}
    <3>1. w \in {y \in at : y.base[1] = "hid" /\ y.mask = {}} /\ w.base[2] = stash[l]
      BY <2>4, <2>5 DEF Hides
    <3>2. \A x \in at : x.base[1] = "hid" /\ x.base[2] = stash[l] /\ x.mask = {}
      BY <2>4 DEF Hides
    <3>3. QED
      BY <3>1, <3>2
  <2>9. extractKeyFromLayer(mem, l) = (CHOOSE x \in at : TRUE).base[2]
    BY <2>1, <2>3, <2>8 DEF extractKeyFromLayer
  <2>10. QED
    BY <2>7, <2>9
<1>2. QED
  BY <1>1, MemoryInvariant, PTL

-----------------------------------------------------------------------------
(* Answers.                                                                  *)

RspFields == {"requester", "operation", "layer", "status", "addr", "data", "sequence", "epoch",
              "route_nonce", "tag"}
EchoFields == {"requester", "operation", "layer", "addr", "sequence", "epoch", "route_nonce"}

Signed(p) == DOMAIN p = RspFields /\ p.tag = <<p.tag[1], serializeResponse(p)>>

\* The fabric f had the keys of both tags.
SameSchedule(f, q, p) ==
    /\ KeysDerived(f) /\ f.epoch = q.epoch /\ q.requester \in ALLREQ
    /\ p.tag[1] = f.rsp_key
    /\ q.tag = <<requestKey(f, q.requester), serializeRequest(q)>>

\* What the answer says was done: the request was executed and moved that word.
Done(q, p) ==
    /\ <<q, p.data>> \in executed
    /\ \A x \in EchoFields : p[x] = q[x]
    /\ \E f : SameSchedule(f, q, p)

AnswersOK ==
    \A p \in answers : Signed(p) /\ (p.status = 1 => \E q \in issued : Done(q, p))

LEMMA AnswersFrame ==
    ASSUME AnswersOK, answers' = answers, executed \subseteq executed', issued \subseteq issued'
    PROVE  AnswersOK'
<1> SUFFICES ASSUME NEW p \in answers
             PROVE  Signed(p) /\ (p.status = 1 => \E q \in issued' : Done(q, p)')
  BY DEF AnswersOK
<1>1. Signed(p) /\ (p.status = 1 => \E q \in issued : Done(q, p))
  BY DEF AnswersOK
<1>2. \A q : Done(q, p) => Done(q, p)'
  BY DEF Done
<1>3. QED
  BY <1>1, <1>2

LEMMA AnswerIs ==
    ASSUME NEW f, NEW q, NEW status, NEW w, NEW p, p = Answer(f, q, status, w)
    PROVE  /\ Signed(p) /\ p.tag[1] = f.rsp_key /\ p.status = status /\ p.data = w
           /\ \A x \in EchoFields : p[x] = q[x]
<1>1. PICK b : b = [requester |-> q.requester, operation |-> q.operation, layer |-> q.layer,
                    status |-> status, addr |-> q.addr, data |-> w, sequence |-> q.sequence,
                    epoch |-> q.epoch, route_nonce |-> q.route_nonce, tag |-> NoTag]
  OBVIOUS
<1>2. p = signResponse(f, b)
  BY <1>1 DEF Answer
<1>3. /\ DOMAIN p = RspFields
      /\ p.requester = q.requester /\ p.operation = q.operation /\ p.layer = q.layer
      /\ p.status = status /\ p.addr = q.addr /\ p.data = w /\ p.sequence = q.sequence
      /\ p.epoch = q.epoch /\ p.route_nonce = q.route_nonce
      /\ p.tag = <<f.rsp_key, serializeResponse(b)>>
  BY <1>1, <1>2 DEF signResponse, RspFields
<1>4. serializeResponse(b) = serializeResponse(p)
  BY <1>1, <1>3 DEF serializeResponse
<1>5. QED
  BY <1>3, <1>4 DEF Signed, EchoFields

\* An answer tells what the request did.
LEMMA ExecuteAnswer ==
    ASSUME IInv, MemInv, AnswersOK, NEW q, execute(q), q \in issued \/ ~requestTagValid(fab, q)
    PROVE  AnswersOK'
<1>1. PICK v : v = validateRequest(fab, mem, q)
  OBVIOUS
<1>2. PICK word : word = CASE ~v.ok -> Zero
                           [] v.ok /\ q.operation = "READ" -> read(mem, q.layer, q.addr)
                           [] v.ok /\ q.operation = "WRITE" -> q.data
  OBVIOUS
<1>3. PICK moved : moved = IF q.operation = "READ" /\ q.layer \notin lost
                           THEN TrueRead(q.layer, q.addr) ELSE word
  OBVIOUS
<1>4. PICK p : p = Answer(v.fab, q, IF v.ok THEN 1 ELSE 0, word)
  OBVIOUS
<1>5. /\ answers' = answers \cup {p} /\ issued' = issued
      /\ executed' = IF v.ok THEN executed \cup {<<q, moved>>} ELSE executed
  BY <1>1, <1>2, <1>3, <1>4 DEF execute
<1>6. /\ Signed(p) /\ p.tag[1] = v.fab.rsp_key /\ p.data = word
      /\ p.status = IF v.ok THEN 1 ELSE 0
      /\ \A x \in EchoFields : p[x] = q[x]
  BY <1>4, AnswerIs
<1>7. ASSUME NEW s \in answers
      PROVE  Signed(s) /\ (s.status = 1 => \E x \in issued : Done(x, s)')
  <2>1. Signed(s) /\ (s.status = 1 => \E x \in issued : Done(x, s))
    BY DEF AnswersOK
  <2>2. \A x : Done(x, s) => Done(x, s)'
    BY <1>5 DEF Done
  <2>3. QED
    BY <2>1, <2>2
<1>8. ASSUME p.status = 1 PROVE q \in issued /\ Done(q, p)'
  <2>1. v.ok
    BY <1>6, <1>8
  <2>2. Accepted(fab, mem, q, v)
    <3>1. DOMAIN fab = FabFields /\ fab.lockdown \in BOOLEAN
      BY DEF IInv, Protocol, FabOK
    <3>2. Ignored(fab, v) \/ Locked(fab, mem, q, v) \/ Accepted(fab, mem, q, v)
      BY <1>1, <3>1, Validated
    <3>3. QED
      BY <2>1, <3>2 DEF Ignored, Locked
  <2>3. /\ q \in issued /\ q.requester \in ALLREQ /\ q.epoch = fab.epoch
        /\ isValidLayer(mem, q.layer) /\ q.addr \in Used(mem) /\ requestTagValid(fab, q)
        /\ v.fab.rsp_key = fab.rsp_key
    BY <2>2 DEF Accepted, InvalidFields, Same, FabFields
  <2>4. moved = word
    <3>1. CASE q.operation = "READ" /\ q.layer \notin lost
      <4>1. word = read(mem, q.layer, q.addr)
        BY <1>2, <2>1, <3>1
      <4>2. PICK l, a : l = q.layer /\ a = q.addr
        OBVIOUS
      <4>3. l \in Layers \ lost /\ isValidLayer(mem, l) /\ a \in Used(mem)
        BY <2>3, <3>1, <4>2, ValidLayers DEF IInv
      <4>4. logicalReadNoAccessCheck(mem, l, a) = plain[l][a]
        BY <4>3, ReadSeen DEF IInv, MemInv, Stored
      <4>5. QED
        BY <1>3, <3>1, <4>1, <4>2, <4>3, <4>4 DEF read, TrueRead
    <3>2. CASE ~(q.operation = "READ" /\ q.layer \notin lost)
      BY <1>3, <3>2
    <3>3. QED
      BY <3>1, <3>2
  <2>5. q.tag = <<requestKey(fab, q.requester), serializeRequest(q)>>
    <3>1. DOMAIN q = ReqFields
      BY <2>3 DEF IInv, Protocol, Wire, Issued
    <3>2. signRequest(fab, q).tag = <<requestKey(fab, q.requester), serializeRequest(q)>>
      BY <3>1 DEF signRequest, ReqFields
    <3>3. QED
      BY <2>3, <3>2 DEF requestTagValid
  <2>6. SameSchedule(fab, q, p)
    BY <1>6, <2>3, <2>5 DEF SameSchedule, IInv, Protocol
  <2>7. <<q, p.data>> \in executed'
    BY <1>5, <1>6, <2>1, <2>4
  <2>8. \E f : SameSchedule(f, q, p)
    BY <2>6
  <2>9. QED
    BY <1>6, <2>3, <2>7, <2>8 DEF Done
<1>9. QED
  BY <1>5, <1>6, <1>7, <1>8 DEF AnswersOK

LEMMA DeliverAnswer ==
    ASSUME IInv, MemInv, AnswersOK, Deliver \/ DeliverAltered
    PROVE  AnswersOK'
<1>1. PICK x : execute(x) /\ (x \in issued \/ \E q \in issued : x \in Altered(q))
  BY DEF Deliver, DeliverAltered
<1>2. x \in issued \/ ~requestTagValid(fab, x)
  <2>1. CASE \E q \in issued : x \in Altered(q)
    <3>1. PICK q \in issued : x \in Altered(q)
      BY <2>1
    <3>2. Issued(q)
      BY DEF IInv, Protocol, Wire
    <3>3. QED
      BY <3>1, <3>2, Authentic
  <2>2. QED
    BY <1>1, <2>1
<1>3. QED
  BY <1>1, <1>2, ExecuteAnswer

\* Equal keys for answers mean equal keys for requests.
LEMMA SameScheduleKeys ==
    ASSUME NEW f, NEW g, KeysDerived(f), KeysDerived(g), f.epoch = g.epoch,
           f.rsp_key = g.rsp_key, NEW r \in ALLREQ
    PROVE  requestKey(f, r) = requestKey(g, r)
<1>1. PICK rf, rg : rf = f.root_key /\ rg = g.root_key
  OBVIOUS
<1>2. /\ f.rsp_key = IF f.epoch_keys_enabled THEN <<"kdf", <<"rsp", rf>>, f.epoch, "RSP0">>
                     ELSE <<"rsp", rf>>
      /\ g.rsp_key = IF g.epoch_keys_enabled THEN <<"kdf", <<"rsp", rg>>, g.epoch, "RSP0">>
                     ELSE <<"rsp", rg>>
  BY <1>1 DEF KeysDerived, RspDomain, Kdf
<1>3. (f.epoch_keys_enabled <=> g.epoch_keys_enabled) /\ rf = rg
  <2>1. CASE f.epoch_keys_enabled /\ g.epoch_keys_enabled
    <3>1. <<"kdf", <<"rsp", rf>>, f.epoch, "RSP0">> = <<"kdf", <<"rsp", rg>>, g.epoch, "RSP0">>
      BY <1>2, <2>1
    <3>2. <<"rsp", rf>> = <<"rsp", rg>>
      BY <3>1
    <3>3. QED
      BY <2>1, <3>2
  <2>2. CASE ~f.epoch_keys_enabled /\ ~g.epoch_keys_enabled
    <3>1. <<"rsp", rf>> = <<"rsp", rg>>
      BY <1>2, <2>2
    <3>2. QED
      BY <2>2, <3>1
  <2>3. CASE f.epoch_keys_enabled /\ ~g.epoch_keys_enabled
    <3>1. <<"kdf", <<"rsp", rf>>, f.epoch, "RSP0">> = <<"rsp", rg>>
      BY <1>2, <2>3
    <3>2. QED
      BY <3>1
  <2>4. CASE ~f.epoch_keys_enabled /\ g.epoch_keys_enabled
    <3>1. <<"kdf", <<"rsp", rg>>, g.epoch, "RSP0">> = <<"rsp", rf>>
      BY <1>2, <2>4
    <3>2. QED
      BY <3>1
  <2>5. QED
    BY <2>1, <2>2, <2>3, <2>4
<1>4. requestKey(f, r) = IF f.epoch_keys_enabled THEN Kdf(ReqDomain(rf), f.epoch, r)
                         ELSE ReqDomain(rf)
  BY <1>1 DEF KeysDerived, requestKey
<1>5. requestKey(g, r) = IF g.epoch_keys_enabled THEN Kdf(ReqDomain(rg), g.epoch, r)
                         ELSE ReqDomain(rg)
  BY <1>1 DEF KeysDerived, requestKey
<1>6. QED
  BY <1>3, <1>4, <1>5

\* An answer that verifyResponseForRequest accepts for a request of this session, and that
\* says it was done, is true: execute() carried out that very request, and a read returned
\* what the stack held.
THEOREM AnswersAreTrue == Spec => []AcknowledgedMeansExecuted
<1>1. Init => AnswersOK
  BY DEF Init, AnswersOK
<1>2. IInv /\ MemInv /\ AnswersOK /\ [Next]_vars => AnswersOK'
  <2> SUFFICES ASSUME IInv, MemInv, AnswersOK, [Next]_vars PROVE AnswersOK'
    OBVIOUS
  <2>1. CASE Deliver \/ DeliverAltered
    BY <2>1, DeliverAnswer
  <2>2. CASE Issue
    <3>1. answers' = answers /\ executed' = executed /\ issued \subseteq issued'
      BY <2>2 DEF Issue
    <3>2. QED
      BY <3>1, AnswersFrame
  <2>3. ASSUME UNCHANGED <<answers, executed, issued>> PROVE AnswersOK'
    BY <2>3, AnswersFrame
  <2>4. QED
    BY <2>1, <2>2, <2>3
       DEF Next, Host, resetProtocolStateForSimulation, setRootKeyForSimulation, advanceEpoch,
           setEpochKeyHierarchy, Settings, installSentinels, verifySentinels,
           updateTemperatureMilliC, reportPhysicalFault, ghostVars, vars
<1>3. IInv /\ AnswersOK => AcknowledgedMeansExecuted
  <2> SUFFICES ASSUME IInv, AnswersOK, ~reused, NEW r \in ALLREQ, NEW q \in ToSet(sent[r]),
                      NEW p \in answers,
                      NEW x \in {p, [p EXCEPT !.status = 1], [p EXCEPT !.data = Ones]},
                      verifyResponseForRequest(fab, q, x), x.status = 1
               PROVE  <<q, x.data>> \in executed
    BY DEF AcknowledgedMeansExecuted
  <2>1. DOMAIN p = RspFields /\ p.tag = <<p.tag[1], serializeResponse(p)>>
    BY DEF AnswersOK, Signed
  <2>2. DOMAIN x = RspFields /\ x.tag = p.tag
    BY <2>1 DEF RspFields
  <2>3. signResponse(fab, x).tag = <<fab.rsp_key, serializeResponse(x)>>
    BY <2>2 DEF signResponse, RspFields
  <2>4. p.tag[1] = fab.rsp_key /\ serializeResponse(x) = serializeResponse(p)
    BY <2>1, <2>2, <2>3 DEF verifyResponseForRequest, verifyResponse
  <2>5. /\ p.status = 1 /\ p.data = x.data
        /\ p.requester = x.requester /\ p.sequence = x.sequence /\ p.epoch = x.epoch
    BY <2>4 DEF serializeResponse
  <2>6. x.requester = q.requester /\ x.sequence = q.sequence /\ x.epoch = q.epoch
    BY DEF verifyResponseForRequest
  <2>7. PICK y \in issued : Done(y, p)
    BY <2>5 DEF AnswersOK
  <2>8. y.requester = p.requester /\ y.sequence = p.sequence /\ y.epoch = p.epoch
    BY <2>7 DEF Done, EchoFields
  <2>9. PICK f : SameSchedule(f, y, p)
    BY <2>7 DEF Done
  <2>10. sent[r] \in Seq(issued) /\ \A i \in 1 .. Len(sent[r]) :
                /\ sent[r][i].requester = r /\ sent[r][i].sequence = i
                /\ sent[r][i].epoch = fab.epoch
    BY DEF IInv, Protocol, Session
  <2>11. PICK i \in 1 .. Len(sent[r]) : sent[r][i] = q
    BY <2>10 DEF ToSet
  <2>12. /\ q.requester = r /\ q.sequence = i /\ q.epoch = fab.epoch
    BY <2>10, <2>11
  <2>13. requestTagValid(fab, y)
    <3>1. KeysDerived(f) /\ f.epoch = y.epoch /\ f.rsp_key = p.tag[1]
      BY <2>9 DEF SameSchedule
    <3>2. /\ KeysDerived(fab) /\ f.epoch = fab.epoch /\ f.rsp_key = fab.rsp_key
          /\ y.requester \in ALLREQ
      BY <2>4, <2>5, <2>6, <2>8, <2>12, <3>1 DEF IInv, Protocol
    <3>3. requestKey(f, y.requester) = requestKey(fab, y.requester)
      BY <3>1, <3>2, SameScheduleKeys
    <3>4. DOMAIN y = ReqFields
      BY DEF IInv, Protocol, Wire, Issued
    <3>5. signRequest(fab, y).tag = <<requestKey(fab, y.requester), serializeRequest(y)>>
      BY <3>4 DEF signRequest, ReqFields
    <3>6. QED
      BY <2>9, <3>3, <3>5 DEF requestTagValid, SameSchedule
  <2>14. y \in ToSet(sent[r])
    BY <2>5, <2>6, <2>8, <2>12, <2>13 DEF IInv, Protocol, Fresh, Passes
  <2>15. PICK j \in 1 .. Len(sent[r]) : sent[r][j] = y
    BY <2>10, <2>14 DEF ToSet
  <2>16. y.sequence = j
    BY <2>10, <2>15
  <2>17. y = q
    BY <2>5, <2>6, <2>8, <2>11, <2>12, <2>15, <2>16
  <2>18. QED
    BY <2>5, <2>7, <2>17 DEF Done
<1>4. QED
  BY <1>1, <1>2, <1>3, MemoryInvariant, PTL DEF Spec
=============================================================================
