---------------------------- MODULE StackedMemory3D ----------------------------
(***************************************************************************)
(* The simulated memory stack (class StackedMemory3D of src/3d.h).  It has  *)
(* no threads: a method is an operator from a memory to a memory, and the   *)
(* host calls the methods in any order.                                     *)
(*                                                                          *)
(* A word is a base and the set of XOR masks on it, so that a mask applied  *)
(* twice is gone.  AES is a pair of inverse functions on blocks of words,   *)
(* with no other equations.  The logs are left out, and with them what      *)
(* protected accesses to the processing layer write there; so is the CPU's  *)
(* cache, which every method that rewrites words empties.                   *)
(***************************************************************************)
EXTENDS Integers, Sequences

CONSTANTS
    MAX_LAYERS,
    MAX_WORDS,
    INSTRS_PER_BLOCK,
    Values,             \* words a host writes; Zero is not one of them
    Roots,              \* device roots
    HidePositions       \* word indexes the bit positions of a hidden key lie in

ASSUME StackAssumption ==
    /\ MAX_LAYERS \in Nat \ {0}
    /\ INSTRS_PER_BLOCK \in Nat \ {0}
    /\ MAX_WORDS \in Nat /\ MAX_WORDS >= INSTRS_PER_BLOCK
    /\ "0" \notin Values
    /\ HidePositions \subseteq Nat /\ HidePositions # {}

VARIABLES
    mem,        \* the object: see Constructed
    plain,      \* history: what each layer's words would be in a stack without AES
    lost,       \* history: encrypted layers made unreadable by a change of keys or masks
    stash       \* history: the key last hidden in a layer and left alone since

memVars == <<mem, plain, lost, stash>>

Layers == 0 .. MAX_LAYERS - 1
Addrs == 0 .. MAX_WORDS - 1
DEFAULT_LAYER == 0
NoLayer == -1           \* SIZE_MAX
NoKey == "none"

-----------------------------------------------------------------------------
(* Words and blocks.                                                         *)

Const(v) == [base |-> <<"v", v>>, mask |-> {}]
Zero == Const("0")
Ones == Const("0xFFFFFFFF")
Dead == Const("0xDEADBEEF")

Xor(w, key) == [w EXCEPT !.mask = (@ \cup {key}) \ (@ \cap {key})]
XorAll(ws, key) == [a \in DOMAIN ws |-> Xor(ws[a], key)]

\* The scramble key of encryptLayer, and that of scrambleLayer
CafeKey(l) == <<"cafe", l>>
LayerXorKey(l) == <<"layer", l>>

Image(kind, key, block) ==
    [i \in 1 .. INSTRS_PER_BLOCK |-> [base |-> <<kind, key, block, i>>, mask |-> {}]]

\* One direction of AES: undoes what the other direction did under the same key
Aes(kind, inverse, key, block) ==
    LET b == block[1].base IN
    IF b[1] = inverse /\ b[2] = key /\ block = Image(inverse, key, b[3])
    THEN b[3]
    ELSE Image(kind, key, block)

aes_encrypt_block(key, block) == Aes("enc", "dec", key, block)
aes_decrypt_block(key, block) == Aes("dec", "enc", key, block)

BlockAt(ws, a) ==
    LET b == (a \div INSTRS_PER_BLOCK) * INSTRS_PER_BLOCK
    IN  [i \in 1 .. INSTRS_PER_BLOCK |-> ws[b + i - 1]]
InBlock(a) == (a % INSTRS_PER_BLOCK) + 1

-----------------------------------------------------------------------------
(* The object.                                                               *)

isValidLayer(m, l) == l \in 0 .. m.num_layers - 1

deriveLayerKey(root, l) == <<"lk", root, l>>
initLayerKeys(root) == [l \in Layers |-> deriveLayerKey(root, l)]

\* Both sizes are clamped; a partial last block is given up
Constructed(layers, words, root) ==
    LET n  == IF layers = 0 THEN 1 ELSE IF layers > MAX_LAYERS THEN MAX_LAYERS ELSE layers
        w  == IF words > MAX_WORDS THEN MAX_WORDS ELSE words
        wb == (w \div INSTRS_PER_BLOCK) * INSTRS_PER_BLOCK
    IN  [num_layers |-> n,
         num_words  |-> IF wb = 0 THEN INSTRS_PER_BLOCK ELSE wb,
         memory     |-> [l \in Layers |-> [a \in Addrs |-> Zero]],
         access     |-> [l \in Layers |-> l < n],
         encrypted  |-> [l \in Layers |-> FALSE],
         hidden     |-> [l \in Layers |-> FALSE],
         keys       |-> initLayerKeys(root),
         root       |-> root,
         tamper_detected |-> FALSE, lockdown |-> FALSE, tamper_events |-> 0,
         processing_layer |-> NoLayer]

Used(m) == 0 .. m.num_words - 1
ZeroWords(m, ws) == [a \in Addrs |-> IF a \in Used(m) THEN Zero ELSE ws[a]]
OnUsed(m, ws, key) == [a \in Addrs |-> IF a \in Used(m) THEN Xor(ws[a], key) ELSE ws[a]]

\* A layer emptied, as four methods do it
Emptied(m, ls) ==
    [m EXCEPT !.memory = [l \in Layers |-> IF l \in ls THEN ZeroWords(m, @[l]) ELSE @[l]],
              !.encrypted = [l \in Layers |-> @[l] /\ l \notin ls],
              !.hidden = [l \in Layers |-> @[l] /\ l \notin ls]]

addLayers(m, count) ==
    LET requested == IF m.num_layers + count > MAX_LAYERS
                     THEN MAX_LAYERS ELSE m.num_layers + count
        new       == m.num_layers .. requested - 1
    IN  [Emptied(m, new) EXCEPT !.access = [l \in Layers |-> @[l] \/ l \in new],
                                !.num_layers = requested]

setLayerAccess(m, l, allowed) ==
    IF isValidLayer(m, l) THEN [m EXCEPT !.access[l] = allowed] ELSE m

-----------------------------------------------------------------------------
(* Reads and writes.                                                         *)

rawRead(m, l, a) == IF isValidLayer(m, l) /\ a \in Used(m) THEN m.memory[l][a] ELSE Zero

logicalReadNoAccessCheck(m, l, a) ==
    LET nl == IF isValidLayer(m, l) THEN l ELSE DEFAULT_LAYER IN
    IF a \notin Used(m) THEN Dead
    ELSE IF ~m.encrypted[nl] THEN m.memory[nl][a]
    ELSE Xor(aes_decrypt_block(m.keys[nl], BlockAt(m.memory[nl], a))[InBlock(a)],
             CafeKey(nl))

read(m, l, a) ==
    IF ~isValidLayer(m, l) THEN Ones
    ELSE IF a \notin Used(m) THEN Dead
    ELSE IF ~m.access[l] THEN Ones
    ELSE logicalReadNoAccessCheck(m, l, a)

\* Mutant of write: the flag of an encrypted layer is not looked at
writePlain(m, l, a, w) ==
    IF ~isValidLayer(m, l) \/ a \notin Used(m) \/ ~m.access[l] THEN m
    ELSE [m EXCEPT !.memory[l][a] = w]

\* In an encrypted layer a write decrypts, changes and encrypts the whole block
write(m, l, a, w) ==
    IF ~isValidLayer(m, l) \/ a \notin Used(m) \/ ~m.access[l] THEN m
    ELSE IF ~m.encrypted[l] THEN [m EXCEPT !.memory[l][a] = w]
    ELSE LET dec   == aes_decrypt_block(m.keys[l], BlockAt(m.memory[l], a))
             view  == [XorAll(dec, CafeKey(l)) EXCEPT ![InBlock(a)] = w]
             enc   == aes_encrypt_block(m.keys[l], XorAll(view, CafeKey(l)))
             b     == a - InBlock(a) + 1
         IN  [m EXCEPT !.memory[l] =
                [x \in Addrs |-> IF x - b \in 0 .. INSTRS_PER_BLOCK - 1
                                 THEN enc[x - b + 1] ELSE @[x]]]

\* A write to each address of ws: as each one decrypts and encrypts its block, the
\* last leaves the block encrypted with all the words in it
writeAll(m, l, ws) ==
    LET view == [a \in Addrs |-> IF a \in DOMAIN ws \cap Used(m) THEN ws[a]
                                 ELSE logicalReadNoAccessCheck(m, l, a)]
        E(b) == aes_encrypt_block(m.keys[l], XorAll(b, CafeKey(l)))
    IN  IF ~isValidLayer(m, l) \/ ~m.access[l] THEN m
        ELSE [m EXCEPT !.memory[l] = [a \in Addrs |->
                IF a \notin Used(m) THEN @[a]
                ELSE IF ~m.encrypted[l] THEN view[a]
                ELSE E(BlockAt(view, a))[InBlock(a)]]]

protectedRead(m, l, a) == IF isValidLayer(m, l) THEN read(m, l, a) ELSE Ones
protectedWrite(m, l, a, w) == IF isValidLayer(m, l) THEN write(m, l, a, w) ELSE m

readProcessing(m, a) ==
    IF m.processing_layer = NoLayer THEN Dead ELSE read(m, m.processing_layer, a)

-----------------------------------------------------------------------------
(* Scrambling and encryption.                                                *)

unscrambleLayerWithKey(m, l, key) ==
    IF isValidLayer(m, l) THEN [m EXCEPT !.memory[l] = OnUsed(m, @, key)] ELSE m

scrambleLayerWithKey(m, l, key) ==
    IF isValidLayer(m, l) /\ ~m.encrypted[l] THEN [m EXCEPT !.memory[l] = OnUsed(m, @, key)]
    ELSE m

scrambleLayer(m, l) ==
    IF isValidLayer(m, l) /\ ~m.encrypted[l]
    THEN [m EXCEPT !.memory[l] = OnUsed(m, @, LayerXorKey(l))]
    ELSE m

ByBlock(m, ws, Fn(_)) ==
    [a \in Addrs |-> IF a \in Used(m) THEN Fn(BlockAt(ws, a))[InBlock(a)] ELSE ws[a]]

encryptLayer(m, l) ==
    IF ~isValidLayer(m, l) \/ m.encrypted[l] THEN m
    ELSE LET s == scrambleLayerWithKey(m, l, CafeKey(l))
             E(b) == aes_encrypt_block(m.keys[l], b)
         IN  [s EXCEPT !.memory[l] = ByBlock(m, @, E), !.encrypted[l] = TRUE]

decryptLayer(m, l) ==
    IF ~isValidLayer(m, l) \/ ~m.encrypted[l] THEN m
    ELSE LET D(b) == aes_decrypt_block(m.keys[l], b)
             d == [m EXCEPT !.memory[l] = ByBlock(m, @, D)]
         IN  [unscrambleLayerWithKey(d, l, CafeKey(l)) EXCEPT !.encrypted[l] = FALSE]

\* Also what setHardwareKey does with the root it expands from a seed
setHardwareRootKey(m, root) == [m EXCEPT !.root = root, !.keys = initLayerKeys(root)]

deriveHardwareWord(root, l) == <<"hw", root, l>>

\* Mutant of hardwareObfuscate: layers with a hidden key are masked too
hardwareObfuscateAll(m) ==
    [m EXCEPT !.memory = [l \in Layers |->
        IF isValidLayer(m, l) /\ ~m.encrypted[l]
        THEN OnUsed(m, @[l], deriveHardwareWord(m.root, l)) ELSE @[l]]]

hardwareObfuscate(m) ==
    [m EXCEPT !.memory = [l \in Layers |->
        IF isValidLayer(m, l) /\ ~m.encrypted[l] /\ ~m.hidden[l]
        THEN OnUsed(m, @[l], deriveHardwareWord(m.root, l)) ELSE @[l]]]

-----------------------------------------------------------------------------
(* Tamper response.                                                          *)

autoReset(m) ==
    [Emptied(m, {l \in Layers : isValidLayer(m, l)}) EXCEPT !.lockdown = TRUE]

checkTamper(m, l, a, expected) ==
    IF ~isValidLayer(m, l) \/ a \notin Used(m)
       \/ logicalReadNoAccessCheck(m, l, a) = expected
    THEN m
    ELSE autoReset([m EXCEPT !.tamper_detected = TRUE, !.lockdown = TRUE,
                             !.tamper_events = @ + 1])

autoResetCritical(m, ls) ==
    LET valid == {i \in DOMAIN ls : isValidLayer(m, ls[i])} IN
    IF valid = {} THEN m
    ELSE [Emptied(m, {ls[i] : i \in valid})
            EXCEPT !.tamper_events = @ + Len(SelectSeq(ls, LAMBDA l : isValidLayer(m, l))),
                   !.lockdown = TRUE]

lockSecurity(m) ==
    [m EXCEPT !.tamper_detected = TRUE, !.tamper_events = @ + 1, !.lockdown = TRUE]

clearSecurityLockdown(m) == [m EXCEPT !.tamper_detected = FALSE, !.lockdown = FALSE]

-----------------------------------------------------------------------------
(* Hidden keys, the processing layer, whole layers.                          *)

\* A word some of whose bits are a hidden key's
WithKeyBits(w, key) ==
    LET under == w.base[3]
        rest  == IF w.base[1] # "hid" THEN w
                 ELSE [under EXCEPT !.mask = (@ \cup w.mask) \ (@ \cap w.mask)]
    IN  [base |-> <<"hid", key, rest>>, mask |-> {}]

\* lenOK: as many bit positions as the key has bits
hideKeyInLayer(m, l, key, lenOK) ==
    IF ~isValidLayer(m, l) \/ ~lenOK \/ m.encrypted[l] THEN m
    ELSE [m EXCEPT !.memory[l] = [a \in Addrs |->
                        IF a \in HidePositions \cap Used(m)
                        THEN WithKeyBits(@[a], key) ELSE @[a]],
                   !.hidden[l] = TRUE]

\* The key if all its bits read as hidden, or else NoKey: other bits, or zeros for
\* positions past the end
extractKeyFromLayer(m, l) ==
    LET at == {m.memory[l][a] : a \in HidePositions \cap Used(m)} IN
    IF ~isValidLayer(m, l) \/ m.encrypted[l] \/ ~(HidePositions \subseteq Used(m)) THEN NoKey
    ELSE IF \E key \in {w.base[2] : w \in {x \in at : x.base[1] = "hid" /\ x.mask = {}}} :
               \A w \in at : w.base[1] = "hid" /\ w.base[2] = key /\ w.mask = {}
    THEN (CHOOSE w \in at : TRUE).base[2]
    ELSE NoKey

enableProcessingLayer(m, l) ==
    IF isValidLayer(m, l) THEN [m EXCEPT !.processing_layer = l] ELSE m
clearProcessingLayer(m) == [m EXCEPT !.processing_layer = NoLayer]

clearLayer(m, l) == IF isValidLayer(m, l) THEN Emptied(m, {l}) ELSE m

copyLayer(m, src, dst) ==
    IF ~isValidLayer(m, src) \/ ~isValidLayer(m, dst) THEN m
    ELSE [m EXCEPT !.memory[dst] = [a \in Addrs |-> IF a \in Used(m)
                                                   THEN m.memory[src][a] ELSE @[a]],
                   !.keys[dst] = m.keys[src],
                   !.encrypted[dst] = m.encrypted[src],
                   !.hidden[dst] = m.hidden[src],
                   !.access[dst] = m.access[src]]

-----------------------------------------------------------------------------
(* The host.                                                                 *)

\* A method that does to a stack without AES what it does to this one
SameOnPlain(Method(_)) ==
    /\ mem' = Method(mem)
    /\ plain' = Method([mem EXCEPT !.memory = plain]).memory

Forget(ls) == stash' = [l \in Layers |-> IF l \in ls THEN NoKey ELSE stash[l]]

\* History of a write by any caller
Remember(m, l, a, w) ==
    /\ plain' = write([m EXCEPT !.memory = plain, !.encrypted = [x \in Layers |-> FALSE]],
                      l, a, w).memory
    /\ IF a \in HidePositions THEN Forget({l}) ELSE UNCHANGED stash
    /\ UNCHANGED lost

HostWrite(l, a, w) ==
    /\ mem' = protectedWrite(mem, l, a, w)
    /\ Remember(mem, l, a, w)

HostEncrypt(l) ==
    /\ mem' = encryptLayer(mem, l)
    /\ UNCHANGED <<plain, lost, stash>>

HostDecrypt(l) ==
    /\ mem' = decryptLayer(mem, l)
    /\ UNCHANGED <<plain, lost, stash>>

HostScramble(l) ==
    /\ LET M(m) == scrambleLayer(m, l) IN SameOnPlain(M)
    /\ Forget({l})
    /\ UNCHANGED lost

HostScrambleWithKey(l, key) ==
    /\ LET M(m) == scrambleLayerWithKey(m, l, key) IN SameOnPlain(M)
    /\ Forget({l})
    /\ UNCHANGED lost

HostUnscrambleWithKey(l, key) ==
    /\ LET M(m) == unscrambleLayerWithKey(m, l, key) IN SameOnPlain(M)
    /\ Forget({l})
    /\ lost' = lost \cup {x \in {l} : isValidLayer(mem, l) /\ mem.encrypted[l]}

HostObfuscate ==
    /\ SameOnPlain(hardwareObfuscate)
    /\ UNCHANGED <<lost, stash>>

HostSetRoot(root) ==
    /\ mem' = setHardwareRootKey(mem, root)
    /\ lost' = lost \cup {l \in Layers : mem.encrypted[l] /\ mem.keys[l] # mem'.keys[l]}
    /\ UNCHANGED <<plain, stash>>

HostCheckTamper(l, a, expected) ==
    /\ mem' = checkTamper(mem, l, a, expected)
    /\ IF mem' = mem THEN UNCHANGED <<plain, lost, stash>>
       ELSE /\ plain' = autoReset([mem EXCEPT !.memory = plain]).memory
            /\ lost' = {} /\ Forget(Layers)

HostResetCritical(ls) ==
    /\ LET M(m) == autoResetCritical(m, ls) IN SameOnPlain(M)
    /\ lost' = lost \ {ls[i] : i \in DOMAIN ls}
    /\ Forget({ls[i] : i \in DOMAIN ls})

HostHide(l, key, lenOK) ==
    /\ LET M(m) == hideKeyInLayer(m, l, key, lenOK) IN SameOnPlain(M)
    /\ stash' = IF mem' = mem THEN stash ELSE [stash EXCEPT ![l] = key]
    /\ UNCHANGED lost

HostClear(l) ==
    /\ LET M(m) == clearLayer(m, l) IN SameOnPlain(M)
    /\ lost' = lost \ {l}
    /\ Forget({l})

\* The scramble key is the layer's own, so a copy of an encrypted layer is masked
HostCopy(src, dst) ==
    /\ LET M(m) == copyLayer(m, src, dst) IN SameOnPlain(M)
    /\ lost' = IF ~isValidLayer(mem, src) \/ ~isValidLayer(mem, dst) \/ src = dst THEN lost
               ELSE IF mem.encrypted[src] \/ src \in lost THEN lost \cup {dst}
               ELSE lost \ {dst}
    /\ stash' = IF isValidLayer(mem, src) /\ isValidLayer(mem, dst)
                THEN [stash EXCEPT ![dst] = stash[src]] ELSE stash

HostAddLayers(count) ==
    /\ LET M(m) == addLayers(m, count) IN SameOnPlain(M)
    /\ UNCHANGED <<lost, stash>>

\* Methods that touch no word
HostSettings ==
    /\ \/ \E l \in 0 .. MAX_LAYERS, allowed \in BOOLEAN : mem' = setLayerAccess(mem, l, allowed)
       \/ \E l \in 0 .. MAX_LAYERS : mem' = enableProcessingLayer(mem, l)
       \/ mem' = clearProcessingLayer(mem)
       \/ mem' = lockSecurity(mem)
       \/ mem' = clearSecurityLockdown(mem)
    /\ UNCHANGED <<plain, lost, stash>>
=============================================================================
