------------------------------ MODULE SecureImage ------------------------------
(***************************************************************************)
(* The sealed image (src/3d.cpp): its header, where its text blocks are     *)
(* stored, where its wrapped key is hidden, and what create, validate,      *)
(* extract and reseal do to it.                                             *)
(*                                                                          *)
(* An image is kept by crypto blocks.  A block is the words in it, the key  *)
(* they are encrypted under and the bits of a wrapped key hidden over it    *)
(* (none, or the wrapped key they are of).  Digests, tags and derived keys  *)
(* are terms of what goes into them.  The functions change a process state  *)
(* p: the header and blocks in the memory, the lock, the region settings    *)
(* and the region and map of the image that was validated last (<<>> when   *)
(* invalid).  They give [rc, p].                                            *)
(***************************************************************************)
EXTENDS ImageLayout

CONSTANTS
    MapSeed(_, _),      \* the generator's draw for an epoch and a text_end
    MapDraw(_),         \* its next draw
    WORD_BITS,          \* the bits of a word
    HideAttempts,       \* the draws for one bit of the hidden key
    HideDraw(_, _, _, _, _) \* the word and bit drawn: nonce, text_start, text_end, bit, attempt

kTextStartAddr == SEC_HDR_WORDS
BlockOf(w) == w \div INSTRS_PER_BLOCK
SlotOf(w) == (w % INSTRS_PER_BLOCK) + 1
Blocks == BlockOf(SEC_HDR_WORDS) .. BlockOf(MEM_SIZE) - 1

JunkWord == <<"junk", 0>>
NoKey == "none"
PlainBlock(words) == [key |-> NoKey, words |-> words, hid |-> <<>>]
ZeroBlock == PlainBlock([i \in 1 .. INSTRS_PER_BLOCK |-> <<"word", 0>>])

aes_encrypt_block(words, key) == [key |-> key, words |-> words, hid |-> <<>>]

\* The words back, if the key is the right one and no bit was changed since
aes_decrypt_block(block, key) ==
    IF block.key = key /\ block.hid = <<>> THEN block.words
    ELSE [i \in 1 .. INSTRS_PER_BLOCK |-> JunkWord]

-----------------------------------------------------------------------------
(* Where the text blocks are stored.                                         *)

secure_gcd32[a \in Nat, b \in Nat] ==
    IF b = 0 THEN IF a = 0 THEN 1 ELSE a ELSE secure_gcd32[b, a % b]

Odd(n) == IF n % 2 = 0 THEN n + 1 ELSE n
WrapOdd(c, count) == IF c >= count THEN Odd(c % count) ELSE c

\* Mutant of Coprime: one other candidate is tried, not all of them
CoprimeOnce(candidate, count) ==
    IF secure_gcd32[candidate, count] # 1 THEN WrapOdd(candidate + 2, count) ELSE candidate

\* The search for a multiplier without a factor in common with the block count
Coprime(candidate, count) ==
    LET search[c \in Nat, guard \in Nat] ==
          IF secure_gcd32[c, count] # 1 /\ guard < count + 8
          THEN search[WrapOdd(c + 2, count), guard + 1] ELSE c
        c == search[candidate, 0]
    IN  IF secure_gcd32[c, count] # 1 THEN 1 ELSE c

MapParams(start, count, seed, draw) ==
    [start_block |-> start, block_count |-> count,
     mul |-> IF count <= 1 THEN 1 ELSE Coprime(WrapOdd(Odd(seed % count), count), count),
     add |-> IF count <= 1 THEN 0 ELSE draw % count]

secure_build_map_params(text_start, text_end, epoch) ==
    LET seed == MapSeed(epoch, text_end)
    IN  MapParams(BlockOf(text_start),
                  IF BlockOf(text_end) > BlockOf(text_start)
                  THEN BlockOf(text_end) - BlockOf(text_start) ELSE 0,
                  seed, MapDraw(seed))

secure_map_block_with_params(b, m) ==
    IF m.block_count <= 1 \/ b < m.start_block \/ b >= m.start_block + m.block_count THEN b
    ELSE m.start_block + ((m.mul * (b - m.start_block) + m.add) % m.block_count)

secure_map_text_block(p, b) ==
    IF p.map # <<>> THEN secure_map_block_with_params(b, p.map[1])
    ELSE secure_map_block_with_params(b, secure_build_map_params(p.set.text_start, p.set.text_end,
                                                                 p.set.epoch))

secure_apply_runtime_region(p, hdr) ==
    [p EXCEPT !.region = <<hdr>>,
              !.map = <<secure_build_map_params(hdr.text_start, hdr.text_end, hdr.epoch)>>]

-----------------------------------------------------------------------------
(* Where the wrapped key is hidden: bits of words in the upper half of the   *)
(* memory, outside the text.                                                 *)

HideLow == IF MEM_SIZE > 640 THEN 512
           ELSE IF MEM_SIZE \div 2 < SEC_HDR_WORDS THEN SEC_HDR_WORDS ELSE MEM_SIZE \div 2

\* The bits of a wrapped key: it is one block
KeyBits == INSTRS_PER_BLOCK * WORD_BITS

ASSUME HiddenAssumption ==
    /\ SEC_HDR_WORDS <= HideLow                     \* the header is never hidden over
    /\ WORD_BITS \in Nat \ {0} /\ HideAttempts \in Nat \ {0}

\* The blocks the positions are in.  Each bit of the key has a number of draws over all of the
\* upper half to find a bit of its own outside the text; no position when one of them does not.
secure_generate_positions(nonce, text_start, text_end) ==
    LET pos(i, a) == HideDraw(nonce, text_start, text_end, i, a)
        placed(at, i, a) ==
            /\ pos(i, a) \in (HideLow .. MEM_SIZE - 1) \X (0 .. WORD_BITS - 1)
            /\ ~(pos(i, a)[1] >= text_start /\ pos(i, a)[1] < text_end)
            /\ \A j \in 1 .. i - 1 : pos(j, at[j]) # pos(i, a)
        searches == {at \in [1 .. KeyBits -> 1 .. HideAttempts] :
                        \A i \in 1 .. KeyBits :
                            placed(at, i, at[i]) /\ \A a \in 1 .. at[i] - 1 : ~placed(at, i, a)}
    IN  {BlockOf(pos(i, at[i])[1]) : at \in searches, i \in 1 .. KeyBits}

\* What the bits at the positions make up
secure_extract_hidden_wrapped(mem, positions) ==
    LET first == mem[CHOOSE b \in positions : TRUE].hid
    IN  IF first # <<>> /\ \A b \in positions : mem[b].hid = first THEN first[1]
        ELSE <<"mixed", [b \in positions |-> mem[b].hid]>>

secure_hide_wrapped(mem, positions, wrapped) ==
    [b \in Blocks |-> IF b \in positions THEN [mem[b] EXCEPT !.hid = <<wrapped>>] ELSE mem[b]]

-----------------------------------------------------------------------------
(* Header, measurement, keys and tags.                                       *)

Fields(hdr) == <<hdr.policy, hdr.text_start, hdr.text_words, hdr.text_end, hdr.data_start,
                 hdr.data_words, hdr.data_end, hdr.data_flags, hdr.epoch>>

secure_derive_nonce(key, hdr) == <<"nonce", key, Tail(Fields(hdr))>>

Aligned(w) == w % INSTRS_PER_BLOCK = 0

\* Magic, version and flags are one field
secure_decode_header(hdr) ==
    /\ hdr.magic
    /\ hdr.text_start >= kTextStartAddr /\ hdr.text_start <= MEM_SIZE
    /\ hdr.text_end >= hdr.text_start /\ hdr.text_end <= MEM_SIZE
    /\ hdr.text_words <= hdr.text_end - hdr.text_start
    /\ Aligned(hdr.text_start) /\ Aligned(hdr.text_end)
    /\ hdr.data_start >= hdr.text_end /\ hdr.data_start <= MEM_SIZE
    /\ hdr.data_end >= hdr.data_start /\ hdr.data_end <= MEM_SIZE
    /\ hdr.data_words <= hdr.data_end - hdr.data_start
    /\ Aligned(hdr.data_start) /\ Aligned(hdr.data_end)
    /\ hdr.epoch # 0

\* The text blocks in logical order, read through the header's map
MappedText(mem, hdr) ==
    LET m == secure_build_map_params(hdr.text_start, hdr.text_end, hdr.epoch)
    IN  [i \in 1 .. BlockOf(hdr.text_end) - BlockOf(hdr.text_start) |->
            mem[secure_map_block_with_params(BlockOf(hdr.text_start) + i - 1, m)]]

DataBlocks(mem, hdr) ==
    [i \in 1 .. BlockOf(hdr.data_end) - BlockOf(hdr.data_start) |->
        mem[BlockOf(hdr.data_start) + i - 1]]

secure_collect_measurements(mem, hdr) ==
    <<"meas", Fields(hdr), hdr.nonce, MappedText(mem, hdr)>>

hkdf_sha256(ikm, salt, info) == <<"okm", ikm, salt, info>>
hmac_sha256(key, msg) == <<"mac", key, msg>>

secure_derive_root_from_nonce(nonce) == <<"root", nonce>>

secure_derive_session_key(hdr, meas) ==
    hkdf_sha256(secure_derive_root_from_nonce(hdr.nonce), <<hdr.nonce, meas>>, Fields(hdr))

secure_compute_key_tag(hdr, wrapped_hidden, session_key, meas) ==
    hmac_sha256(session_key, <<"KEYT", Fields(hdr), hdr.nonce, wrapped_hidden, meas>>)

secure_compute_img_tag(mem, hdr, session_key, meas) ==
    hmac_sha256(session_key, <<"IMGT", Fields(hdr), hdr.nonce, meas, MappedText(mem, hdr),
                               DataBlocks(mem, hdr)>>)

WrapKey(key, session_key) == <<"wrapped", session_key, key>>
UnwrapKey(wrapped, session_key) ==
    IF wrapped[1] = "wrapped" /\ wrapped[2] = session_key THEN wrapped[3] ELSE NoKey

lockSecurity(p) == [p EXCEPT !.locked = TRUE]

-----------------------------------------------------------------------------
(* Region settings.                                                          *)

AtLeast(a, b) == IF a < b THEN b ELSE a
AtMost(a, b) == IF a > b THEN b ELSE a

\* Regions are brought inside the memory and in order: header, text, data
ClampText(s) ==
    LET start == IF s.text_start < kTextStartAddr \/ s.text_start > MEM_SIZE
                 THEN kTextStartAddr ELSE s.text_start
        end   == AtMost(AtLeast(s.text_end, start), MEM_SIZE)
    IN  [s EXCEPT !.text_start = start, !.text_end = end,
                  !.text_words = AtMost(@, end - start)]

ClampData(s) ==
    LET start == IF s.data_start < s.text_end \/ s.data_start > MEM_SIZE
                 THEN s.text_end ELSE s.data_start
        end   == AtMost(AtLeast(s.data_end, start), MEM_SIZE)
    IN  [s EXCEPT !.data_start = start, !.data_end = end,
                  !.data_words = AtMost(@, end - start)]

AlignData(s) ==
    [s EXCEPT !.data_start = AtLeast(@ - (@ % INSTRS_PER_BLOCK), s.text_end),
              !.data_end = IF Aligned(@) THEN @
                           ELSE AtMost(@ + INSTRS_PER_BLOCK - (@ % INSTRS_PER_BLOCK), MEM_SIZE)]

secure_set_image_region(p, text_start, text_words, text_end) ==
    [p EXCEPT !.set = ClampData(ClampText([@ EXCEPT !.text_start = text_start,
                                                    !.text_words = text_words,
                                                    !.text_end = text_end])),
              !.region = <<>>, !.map = <<>>]

secure_set_data_region(p, data_start, data_words, data_end, data_flags) ==
    [p EXCEPT !.set = AlignData(ClampData([@ EXCEPT !.data_start = data_start,
                                                    !.data_words = data_words,
                                                    !.data_end = data_end,
                                                    !.data_flags = data_flags])),
              !.region = <<>>]

secure_set_mapping_epoch(p, epoch) ==
    [p EXCEPT !.set.epoch = IF epoch = 0 THEN 1 ELSE epoch, !.region = <<>>, !.map = <<>>]

\* secure_get_image_region and secure_get_data_region
secure_get_region(p) == IF p.region # <<>> THEN p.region[1] ELSE p.set

NoTerm == <<"none">>

\* A process that has just started
Fresh ==
    LET set == [magic |-> FALSE, policy |-> TRUE, text_start |-> kTextStartAddr, text_words |-> 0,
                text_end |-> kTextStartAddr, data_start |-> kTextStartAddr, data_words |-> 0,
                data_end |-> kTextStartAddr, data_flags |-> FALSE, epoch |-> 1,
                nonce |-> <<"nonce", NoKey, <<>>>>, wrapped |-> NoTerm, key_tag |-> NoTerm,
                img_tag |-> NoTerm, measurements |-> NoTerm]
    IN  [hdr |-> set, mem |-> [b \in Blocks |-> ZeroBlock], locked |-> FALSE, set |-> set,
         region |-> <<>>, map |-> <<>>]

-----------------------------------------------------------------------------
(* Sealing, checking, opening.                                               *)

\* The checks validate, reseal and secure_read_data_word_plain have in common:
\* the number of the first that fails
FirstFailure(hdr, positions, hidden, meas) ==
    IF ~secure_decode_header(hdr) THEN 1
    ELSE IF positions = {} THEN 2
    ELSE IF hidden # hdr.wrapped THEN 3
    ELSE IF meas # hdr.measurements THEN 4
    ELSE IF secure_compute_key_tag(hdr, hidden, secure_derive_session_key(hdr, meas), meas)
            # hdr.key_tag THEN 5
    ELSE 0

KeyChecks(p) ==
    LET positions == secure_generate_positions(p.hdr.nonce, p.hdr.text_start, p.hdr.text_end)
    IN  FirstFailure(p.hdr, positions, secure_extract_hidden_wrapped(p.mem, positions),
                     secure_collect_measurements(p.mem, p.hdr))

SessionKey(p) == secure_derive_session_key(p.hdr, secure_collect_measurements(p.mem, p.hdr))
ImageTag(p) == secure_compute_img_tag(p.mem, p.hdr, SessionKey(p),
                                      secure_collect_measurements(p.mem, p.hdr))

\* Its regions are those in force from here on
Adopted(p) == secure_apply_runtime_region(p, p.hdr)

Failed(p, number) == [rc |-> -number, p |-> lockSecurity(p)]

\* Mutant of secure_validate_image: the image tag is not compared
secure_validate_image_keyonly(p) ==
    LET failure == KeyChecks(p)
    IN  IF failure # 0 THEN Failed(p, failure)
        ELSE [rc |-> 0, p |-> Adopted(p)]

secure_validate_image(p) ==
    LET failure == KeyChecks(p)
    IN  IF failure # 0 THEN Failed(p, failure)
        ELSE IF ImageTag(p) # p.hdr.img_tag THEN Failed(p, 6)
        ELSE [rc |-> 0, p |-> Adopted(p)]

\* The application key, if the image was found valid
Extracted(v) ==
    [rc |-> v.rc, p |-> v.p,
     key |-> IF v.rc = 0 THEN UnwrapKey(v.p.hdr.wrapped, SessionKey(v.p)) ELSE NoKey]

extract_key_from_large_block(p) == Extracted(secure_validate_image(p))

\* Mutant of secure_reseal_current_image: the tag of the image as it was loaded stays
secure_reseal_current_image_old(p) ==
    LET failure == KeyChecks(p)
    IN  IF failure # 0 THEN Failed(p, failure)
        ELSE [rc |-> 0, p |-> Adopted(p)]

\* Policy without RESEAL_READY: nothing to do
secure_reseal_current_image(p) ==
    LET failure == KeyChecks(p)
    IN  IF ~secure_decode_header(p.hdr) THEN Failed(p, 1)
        ELSE IF ~p.hdr.policy THEN [rc |-> 0, p |-> p]
        ELSE IF failure # 0 THEN Failed(p, failure)
        ELSE [rc |-> 0, p |-> Adopted([p EXCEPT !.hdr.img_tag = ImageTag(p)])]

\* A word of the data region in plain; a failure does not lock
secure_read_data_word_plain(p, w) ==
    LET failure == KeyChecks(p)
    IN  IF w >= MEM_SIZE THEN [rc |-> -2, value |-> JunkWord]
        ELSE IF failure # 0 THEN [rc |-> -failure - 2, value |-> JunkWord]
        ELSE [rc |-> 0, value |->
                IF ~p.hdr.data_flags \/ w < p.hdr.data_start \/ w >= p.hdr.data_end
                THEN p.mem[BlockOf(w)].words[SlotOf(w)]
                ELSE aes_decrypt_block(p.mem[BlockOf(w)],
                                       UnwrapKey(p.hdr.wrapped, SessionKey(p)))[SlotOf(w)]]

\* The stages of create_large_block_with_key, last one first: the tags, over the key as it
\* is hidden; hiding, which fails after the header in memory was overwritten; measuring
\* and wrapping; the header
SealTags(p, hdr, positions, sk) ==
    [rc |-> 0, p |-> Adopted([p EXCEPT !.hdr = [hdr EXCEPT
        !.key_tag = secure_compute_key_tag(hdr, secure_extract_hidden_wrapped(p.mem, positions),
                                           sk, hdr.measurements),
        !.img_tag = secure_compute_img_tag(p.mem, hdr, sk, hdr.measurements)]])]

SealHide(p, hdr, positions, sk) ==
    IF positions = {} THEN [rc |-> -20, p |-> lockSecurity([p EXCEPT !.hdr = hdr])]
    ELSE SealTags([p EXCEPT !.mem = secure_hide_wrapped(@, positions, hdr.wrapped)],
                  hdr, positions, sk)

SealWrap(p, hdr, key, meas) ==
    LET sk == secure_derive_session_key(hdr, meas)
    IN  SealHide(p, [hdr EXCEPT !.measurements = meas, !.wrapped = WrapKey(key, sk)],
                 secure_generate_positions(hdr.nonce, hdr.text_start, hdr.text_end), sk)

SealHeader(p, hdr, key) == SealWrap(p, hdr, key, secure_collect_measurements(p.mem, hdr))

WithNonce(s, key) == [s EXCEPT !.magic = TRUE, !.nonce = secure_derive_nonce(key, s)]

create_large_block_with_key(p, key) ==
    SealHeader(p, WithNonce(AlignData(ClampData(ClampText(p.set))), key), key)
=============================================================================
