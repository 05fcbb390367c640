------------------------------ MODULE ImageProofs ------------------------------
(***************************************************************************)
(* Proofs about Toolchain: what becomes of an image between the encryptor,  *)
(* the CPU and the decryptor.                                               *)
(*                                                                          *)
(* Shape says what an image file and a process are made of and that a run   *)
(* leaves alone what is not data.  Trust says what the files there have     *)
(* been allow: a tag that is not zero was computed when some file was       *)
(* sealed, so a file that passes the checks has the contents of one that    *)
(* was sealed (Unforged).  Live relates the blocks of an image to its       *)
(* contents; every tool keeps it by a lemma of its own (MadeIsSound for the *)
(* encryptor, StoreIsSeen for a store, Resealed for the end of a run,       *)
(* DecryptorIs for the decryptor).                                          *)
(*                                                                          *)
(* HexFiles and DataBelowKey are hypotheses: the first rests on the         *)
(* assembler's recursion over the source, the second is false for programs  *)
(* whose data reaches the blocks the key is hidden in.                      *)
(***************************************************************************)
EXTENDS Toolchain, SequenceTheorems, TLAPS

-----------------------------------------------------------------------------
(* Words, blocks and slots.                                                  *)

LEMMA Parameters ==
    /\ INSTRS_PER_BLOCK \in Nat /\ INSTRS_PER_BLOCK > 0
    /\ SEC_HDR_WORDS \in Nat /\ MEM_SIZE \in Nat /\ SEC_HDR_WORDS < MEM_SIZE
    /\ SEC_HDR_WORDS % INSTRS_PER_BLOCK = 0 /\ MEM_SIZE % INSTRS_PER_BLOCK = 0
    /\ kTextStartAddr = SEC_HDR_WORDS
  BY ImageLayoutAssumption DEF kTextStartAddr

LEMMA Division ==
    ASSUME NEW n \in Nat, n > 0, NEW w \in Nat
    PROVE  /\ w \div n \in Nat
           /\ w % n \in 0 .. n - 1
           /\ w = n * (w \div n) + (w % n)
  OBVIOUS

LEMMA Quotient ==
    ASSUME NEW n \in Nat, n > 0, NEW b \in Nat, NEW s \in 0 .. n - 1
    PROVE  (b * n + s) \div n = b /\ (b * n + s) % n = s
<1> DEFINE w == b * n + s
           q == w \div n
           r == w % n
<1>1. b * n \in Nat /\ w \in Nat
  OBVIOUS
<1>2. q \in Nat /\ r \in 0 .. n - 1 /\ w = n * q + r
  BY <1>1, Division
<1>3. CASE q < b
  <2>1. PICK d \in Nat : b = q + d + 1
    BY <1>2, <1>3, b - q - 1 \in Nat
  <2>2. b * n = n * q + d * n + n
    BY <2>1, <1>2
  <2>3. d * n >= 0
    BY <2>1
  <2>4. QED
    BY <2>2, <2>3, <1>2
<1>4. CASE q > b
  <2>1. PICK d \in Nat : q = b + d + 1
    BY <1>2, <1>4, q - b - 1 \in Nat
  <2>2. n * q = b * n + d * n + n
    BY <2>1, <1>2
  <2>3. d * n >= 0
    BY <2>1
  <2>4. QED
    BY <2>2, <2>3, <1>2
<1>5. QED
  BY <1>2, <1>3, <1>4

LEMMA WordIs ==
    ASSUME NEW w \in Nat
    PROVE  /\ BlockOf(w) \in Nat /\ SlotOf(w) \in 1 .. INSTRS_PER_BLOCK
           /\ w = BlockOf(w) * INSTRS_PER_BLOCK + SlotOf(w) - 1
<1>1. /\ w \div INSTRS_PER_BLOCK \in Nat /\ w % INSTRS_PER_BLOCK \in 0 .. INSTRS_PER_BLOCK - 1
      /\ w = INSTRS_PER_BLOCK * (w \div INSTRS_PER_BLOCK) + (w % INSTRS_PER_BLOCK)
  BY Division, Parameters
<1>2. QED
  BY <1>1, Parameters DEF BlockOf, SlotOf

LEMMA WordOf ==
    ASSUME NEW b \in Nat, NEW s \in 0 .. INSTRS_PER_BLOCK - 1
    PROVE  /\ b * INSTRS_PER_BLOCK + s \in Nat
           /\ BlockOf(b * INSTRS_PER_BLOCK + s) = b
           /\ SlotOf(b * INSTRS_PER_BLOCK + s) = s + 1
<1>1. /\ (b * INSTRS_PER_BLOCK + s) \div INSTRS_PER_BLOCK = b
      /\ (b * INSTRS_PER_BLOCK + s) % INSTRS_PER_BLOCK = s
  BY Quotient, Parameters
<1>2. QED
  BY <1>1, Parameters DEF BlockOf, SlotOf

LEMMA AtBlock ==
    ASSUME NEW w \in Nat, Aligned(w)
    PROVE  BlockOf(w) \in Nat /\ w = BlockOf(w) * INSTRS_PER_BLOCK
<1>1. w \div INSTRS_PER_BLOCK \in Nat /\ w = INSTRS_PER_BLOCK * (w \div INSTRS_PER_BLOCK) + 0
  BY Division, Parameters DEF Aligned
<1>2. INSTRS_PER_BLOCK * (w \div INSTRS_PER_BLOCK) \in Nat
  BY <1>1, Parameters
<1>3. QED
  BY <1>1, <1>2, Parameters DEF BlockOf

LEMMA BlockIsAligned ==
    ASSUME NEW b \in Nat
    PROVE  /\ b * INSTRS_PER_BLOCK \in Nat /\ Aligned(b * INSTRS_PER_BLOCK)
           /\ BlockOf(b * INSTRS_PER_BLOCK) = b
<1>1. /\ (b * INSTRS_PER_BLOCK + 0) \div INSTRS_PER_BLOCK = b
      /\ (b * INSTRS_PER_BLOCK + 0) % INSTRS_PER_BLOCK = 0
  BY Quotient, Parameters, 0 \in 0 .. INSTRS_PER_BLOCK - 1
<1>2. b * INSTRS_PER_BLOCK \in Nat
  BY Parameters
<1>3. QED
  BY <1>1, <1>2 DEF BlockOf, Aligned

\* A larger word is in no smaller block.
LEMMA Monotone ==
    ASSUME NEW v \in Nat, NEW w \in Nat, v <= w
    PROVE  BlockOf(v) <= BlockOf(w)
<1> DEFINE p == BlockOf(v)
           q == BlockOf(w)
           n == INSTRS_PER_BLOCK
<1>1. p \in Nat /\ SlotOf(v) \in 1 .. n /\ v = p * n + SlotOf(v) - 1
  BY WordIs
<1>2. q \in Nat /\ SlotOf(w) \in 1 .. n /\ w = q * n + SlotOf(w) - 1
  BY WordIs
<1> HIDE DEF p, q
<1>3. SUFFICES ASSUME q < p PROVE FALSE
  BY <1>1, <1>2 DEF p, q
<1>4. PICK d \in Nat : p = q + d + 1
  BY <1>1, <1>2, <1>3, p - q - 1 \in Nat
<1>5. p * n = q * n + n * d + n
  BY <1>4, <1>2, Parameters
<1>6. n * d >= 0 /\ q * n \in Nat /\ n * d \in Nat
  BY <1>4, <1>2, Parameters
<1>7. QED
  BY <1>1, <1>2, <1>5, <1>6, Parameters

\* In and out of a region of whole blocks.
LEMMA Below ==
    ASSUME NEW w \in Nat, NEW end \in Nat, Aligned(end)
    PROVE  w < end <=> BlockOf(w) < BlockOf(end)
<1>1. BlockOf(end) \in Nat /\ end = BlockOf(end) * INSTRS_PER_BLOCK
  BY AtBlock
<1>2. BlockOf(w) \in Nat /\ SlotOf(w) \in 1 .. INSTRS_PER_BLOCK
      /\ w = BlockOf(w) * INSTRS_PER_BLOCK + SlotOf(w) - 1
  BY WordIs
<1>3. ASSUME w < end PROVE BlockOf(w) < BlockOf(end)
  <2>1. BlockOf(w) <= BlockOf(end)
    BY <1>3, Monotone
  <2>2. BlockOf(w) # BlockOf(end)
    BY <1>1, <1>2, <1>3, Parameters
  <2>3. QED
    BY <2>1, <2>2, <1>1, <1>2
<1>4. ASSUME end <= w PROVE BlockOf(end) <= BlockOf(w)
  BY <1>4, Monotone
<1>5. QED
  BY <1>1, <1>2, <1>3, <1>4

\* A region from lo up, word by word.
LEMMA Offset ==
    ASSUME NEW lo \in Nat, Aligned(lo), NEW w \in Nat
    PROVE  BlockOf(lo + w) = BlockOf(lo) + BlockOf(w) /\ SlotOf(lo + w) = SlotOf(w)
<1>1. BlockOf(lo) \in Nat /\ lo = BlockOf(lo) * INSTRS_PER_BLOCK
  BY AtBlock
<1>2. BlockOf(w) \in Nat /\ SlotOf(w) \in 1 .. INSTRS_PER_BLOCK
      /\ w = BlockOf(w) * INSTRS_PER_BLOCK + SlotOf(w) - 1
  BY WordIs
<1>3. PICK b \in Nat : b = BlockOf(lo) + BlockOf(w)
  BY <1>1, <1>2
<1>4. PICK s \in 0 .. INSTRS_PER_BLOCK - 1 : s = SlotOf(w) - 1
  BY <1>2, Parameters
<1>5. b * INSTRS_PER_BLOCK = BlockOf(lo) * INSTRS_PER_BLOCK + BlockOf(w) * INSTRS_PER_BLOCK
  BY <1>1, <1>2, <1>3, Parameters
<1>6. lo + w = b * INSTRS_PER_BLOCK + s
  <2>1. PICK x \in Nat, y \in Nat :
            x = BlockOf(lo) * INSTRS_PER_BLOCK /\ y = BlockOf(w) * INSTRS_PER_BLOCK
    BY <1>1, <1>2, Parameters
  <2>2. lo = x
    BY <2>1, <1>1
  <2>3. w = y + s
    BY <2>1, <1>2, <1>4, Parameters
  <2>4. b * INSTRS_PER_BLOCK = x + y
    BY <2>1, <1>5
  <2>5. QED
    BY <2>2, <2>3, <2>4, Parameters
<1>7. BlockOf(lo + w) = b /\ SlotOf(lo + w) = s + 1
  BY <1>6, WordOf
<1>8. QED
  BY <1>2, <1>3, <1>4, <1>7, Parameters

LEMMA AlignUp ==
    ASSUME NEW n \in Nat, NEW a, a = align_up_words(n)
    PROVE  /\ a \in Nat /\ n <= a /\ a < n + INSTRS_PER_BLOCK /\ Aligned(a)
           /\ Aligned(n) => a = n
<1>1. /\ n \div INSTRS_PER_BLOCK \in Nat /\ n % INSTRS_PER_BLOCK \in 0 .. INSTRS_PER_BLOCK - 1
      /\ n = INSTRS_PER_BLOCK * (n \div INSTRS_PER_BLOCK) + (n % INSTRS_PER_BLOCK)
  BY Division, Parameters
<1>2. CASE n % INSTRS_PER_BLOCK = 0
  BY <1>2, Parameters DEF align_up_words, Aligned
<1>3. CASE n % INSTRS_PER_BLOCK # 0
  <2>1. a = n + (INSTRS_PER_BLOCK - (n % INSTRS_PER_BLOCK))
    BY <1>3 DEF align_up_words
  <2>2. PICK q \in Nat, r \in 1 .. INSTRS_PER_BLOCK - 1 :
            q = n \div INSTRS_PER_BLOCK /\ r = n % INSTRS_PER_BLOCK
    BY <1>1, <1>3, Parameters
  <2>3. PICK x \in Nat : x = q * INSTRS_PER_BLOCK
    BY Parameters
  <2>4. n = x + r
    BY <1>1, <2>2, <2>3, Parameters
  <2>5. (q + 1) * INSTRS_PER_BLOCK = x + INSTRS_PER_BLOCK
    BY <2>3, Parameters
  <2>6. a = (q + 1) * INSTRS_PER_BLOCK
    BY <2>1, <2>2, <2>4, <2>5, Parameters
  <2>7. Aligned(a)
    BY <2>6, BlockIsAligned
  <2>8. QED
    BY <1>3, <2>1, <2>2, <2>4, <2>7, Parameters DEF Aligned
<1>4. QED
  BY <1>2, <1>3

\* Assembler and encryptor round sizes up in the same way.
LEMMA AlignSame ==
    ASSUME NEW n \in Nat
    PROVE  align_words_to_crypto_block(n) = align_up_words(n)
<1>1. /\ n \div INSTRS_PER_BLOCK \in Nat /\ n % INSTRS_PER_BLOCK \in 0 .. INSTRS_PER_BLOCK - 1
      /\ n = INSTRS_PER_BLOCK * (n \div INSTRS_PER_BLOCK) + (n % INSTRS_PER_BLOCK)
  BY Division, Parameters
<1>2. PICK q \in Nat, r \in 0 .. INSTRS_PER_BLOCK - 1 :
          q = n \div INSTRS_PER_BLOCK /\ r = n % INSTRS_PER_BLOCK
  BY <1>1
<1>3. PICK x \in Nat : x = q * INSTRS_PER_BLOCK
  BY Parameters
<1>4. n = x + r
  BY <1>1, <1>2, <1>3, Parameters
<1>5. CASE r = 0
  <2>1. n + INSTRS_PER_BLOCK - 1 = q * INSTRS_PER_BLOCK + (INSTRS_PER_BLOCK - 1)
    BY <1>3, <1>4, <1>5, Parameters
  <2>2. (n + INSTRS_PER_BLOCK - 1) \div INSTRS_PER_BLOCK = q
    BY <2>1, Quotient, Parameters, INSTRS_PER_BLOCK - 1 \in 0 .. INSTRS_PER_BLOCK - 1
  <2>3. QED
    BY <2>2, <1>2, <1>3, <1>4, <1>5, Parameters DEF align_words_to_crypto_block, align_up_words
<1>6. CASE r # 0
  <2>1. (q + 1) * INSTRS_PER_BLOCK = x + INSTRS_PER_BLOCK
    BY <1>3, Parameters
  <2>2. n + INSTRS_PER_BLOCK - 1 = (q + 1) * INSTRS_PER_BLOCK + (r - 1)
    BY <2>1, <1>4, <1>6, Parameters
  <2>3. (n + INSTRS_PER_BLOCK - 1) \div INSTRS_PER_BLOCK = q + 1
    BY <2>2, <1>6, Quotient, Parameters, r - 1 \in 0 .. INSTRS_PER_BLOCK - 1, q + 1 \in Nat
  <2>4. align_words_to_crypto_block(n) = x + INSTRS_PER_BLOCK
    BY <2>1, <2>3 DEF align_words_to_crypto_block
  <2>5. align_up_words(n) = n + (INSTRS_PER_BLOCK - r)
    BY <1>2, <1>6 DEF align_up_words
  <2>6. QED
    BY <2>4, <2>5, <1>4, Parameters
<1>7. QED
  BY <1>5, <1>6

LEMMA AlignOffset ==
    ASSUME NEW lo \in Nat, Aligned(lo), NEW n \in Nat
    PROVE  align_up_words(lo + n) = lo + align_up_words(n)
<1>1. (lo + n) % INSTRS_PER_BLOCK = n % INSTRS_PER_BLOCK
  <2>1. SlotOf(lo + n) = SlotOf(n)
    BY Offset
  <2>2. (lo + n) % INSTRS_PER_BLOCK \in Int /\ n % INSTRS_PER_BLOCK \in Int
    BY Parameters
  <2>3. QED
    BY <2>1, <2>2 DEF SlotOf
<1>2. n % INSTRS_PER_BLOCK \in 0 .. INSTRS_PER_BLOCK - 1
  BY Division, Parameters
<1>3. QED
  BY <1>1, <1>2, Parameters DEF align_up_words

-----------------------------------------------------------------------------
(* The shape of a process, a header and a memory.                            *)

PFields == {"hdr", "mem", "locked", "set", "region", "map"}
HFields == {"magic", "policy", "text_start", "text_words", "text_end", "data_start", "data_words",
            "data_end", "data_flags", "epoch", "nonce", "wrapped", "key_tag", "img_tag",
            "measurements"}
Numbers == {"text_start", "text_words", "text_end", "data_start", "data_words", "data_end", "epoch"}

Hdr(h) == DOMAIN h = HFields /\ \A f \in Numbers : h[f] \in Int

Mem(m) ==
    /\ DOMAIN m = Blocks
    /\ \A b \in Blocks : /\ DOMAIN m[b] = {"key", "words", "hid"}
                         /\ DOMAIN m[b].words = 1 .. INSTRS_PER_BLOCK

\* An image file, and what a process has in memory.
Image(f) == DOMAIN f = {"hdr", "mem"} /\ Hdr(f.hdr) /\ Mem(f.mem)
Process(p) == DOMAIN p = PFields /\ Hdr(p.hdr) /\ Mem(p.mem)

Same(p, q, F) == \A f \in F : q[f] = p[f]

LEMMA LockIs ==
    ASSUME NEW p, Process(p), NEW q, q = lockSecurity(p)
    PROVE  Process(q) /\ q.locked = TRUE /\ Same(p, q, PFields \ {"locked"})
  BY DEF Process, Same, PFields, lockSecurity

LEMMA AdoptIs ==
    ASSUME NEW p, Process(p), NEW q, q = Adopted(p)
    PROVE  /\ Process(q) /\ Same(p, q, PFields \ {"region", "map"})
           /\ q.region = <<p.hdr>>
           /\ q.map = <<secure_build_map_params(p.hdr.text_start, p.hdr.text_end, p.hdr.epoch)>>
  BY DEF Process, Same, PFields, Adopted, secure_apply_runtime_region

-----------------------------------------------------------------------------
(* What the checks of an image establish.                                    *)

Positions(h) == secure_generate_positions(h.nonce, h.text_start, h.text_end)
Hidden(p) == secure_extract_hidden_wrapped(p.mem, Positions(p.hdr))
Meas(p) == secure_collect_measurements(p.mem, p.hdr)

KeyGood(p) ==
    /\ secure_decode_header(p.hdr)
    /\ Positions(p.hdr) # {}
    /\ Hidden(p) = p.hdr.wrapped
    /\ Meas(p) = p.hdr.measurements
    /\ secure_compute_key_tag(p.hdr, Hidden(p), SessionKey(p), Meas(p)) = p.hdr.key_tag

LEMMA KeyChecksAre ==
    ASSUME NEW p
    PROVE  KeyChecks(p) \in 0 .. 5 /\ (KeyChecks(p) = 0 <=> KeyGood(p))
  BY DEF KeyChecks, FirstFailure, KeyGood, Positions, Hidden, Meas, SessionKey

LEMMA ValidateIs ==
    ASSUME NEW p, NEW v, v = secure_validate_image(p)
    PROVE  /\ v.rc = 0 <=> KeyGood(p) /\ ImageTag(p) = p.hdr.img_tag
           /\ v.rc = 0 => v.p = Adopted(p)
           /\ v.rc # 0 => v.p = lockSecurity(p)
<1>1. KeyChecks(p) \in 0 .. 5 /\ (KeyChecks(p) = 0 <=> KeyGood(p))
  BY KeyChecksAre
<1>2. CASE KeyChecks(p) # 0
  <2>1. v = [rc |-> -KeyChecks(p), p |-> lockSecurity(p)]
    BY <1>2 DEF secure_validate_image, Failed
  <2>2. QED
    BY <2>1, <1>1, <1>2
<1>3. CASE KeyChecks(p) = 0 /\ ImageTag(p) # p.hdr.img_tag
  <2>1. v = [rc |-> -6, p |-> lockSecurity(p)]
    BY <1>3 DEF secure_validate_image, Failed
  <2>2. QED
    BY <2>1, <1>1, <1>3
<1>4. CASE KeyChecks(p) = 0 /\ ImageTag(p) = p.hdr.img_tag
  <2>1. v = [rc |-> 0, p |-> Adopted(p)]
    BY <1>4 DEF secure_validate_image
  <2>2. QED
    BY <2>1, <1>1, <1>4
<1>5. QED
  BY <1>2, <1>3, <1>4

\* A process that has the same header and, where the checks look, the same blocks.
LEMMA Agree ==
    ASSUME NEW p, NEW q, q.hdr = p.hdr,
           MappedText(q.mem, p.hdr) = MappedText(p.mem, p.hdr), Hidden(q) = Hidden(p)
    PROVE  /\ KeyGood(q) <=> KeyGood(p)
           /\ SessionKey(q) = SessionKey(p) /\ Meas(q) = Meas(p)
           /\ DataBlocks(q.mem, p.hdr) = DataBlocks(p.mem, p.hdr) => ImageTag(q) = ImageTag(p)
<1>1. Meas(q) = Meas(p) /\ SessionKey(q) = SessionKey(p)
  BY DEF Meas, SessionKey, secure_collect_measurements
<1>2. KeyGood(q) <=> KeyGood(p)
  BY <1>1 DEF KeyGood
<1>3. DataBlocks(q.mem, p.hdr) = DataBlocks(p.mem, p.hdr) => ImageTag(q) = ImageTag(p)
  BY <1>1 DEF ImageTag, Meas, secure_compute_img_tag
<1>4. QED
  BY <1>1, <1>2, <1>3

LEMMA SameImage ==
    ASSUME NEW p, NEW q, q.hdr = p.hdr, q.mem = p.mem
    PROVE  /\ KeyGood(q) <=> KeyGood(p)
           /\ SessionKey(q) = SessionKey(p) /\ ImageTag(q) = ImageTag(p)
  BY Agree DEF Hidden

\* The blocks of the memory, of the text and of the data.
TextBlocks(h) == BlockOf(h.text_start) .. BlockOf(h.text_end) - 1
DataRegion(h) == BlockOf(h.data_start) .. BlockOf(h.data_end) - 1

LEMMA BlocksAre ==
    /\ BlockOf(SEC_HDR_WORDS) \in Nat /\ BlockOf(MEM_SIZE) \in Nat
    /\ BlockOf(SEC_HDR_WORDS) < BlockOf(MEM_SIZE)
    /\ \A b \in Blocks : b \in Nat /\ b * INSTRS_PER_BLOCK \in Nat
                         /\ (b + 1) * INSTRS_PER_BLOCK <= MEM_SIZE
<1>1. BlockOf(SEC_HDR_WORDS) \in Nat /\ BlockOf(MEM_SIZE) \in Nat
  BY WordIs, Parameters
<1>2. BlockOf(SEC_HDR_WORDS) < BlockOf(MEM_SIZE)
  BY Below, Parameters DEF Aligned
<1>3. ASSUME NEW b \in Blocks
      PROVE  b \in Nat /\ b * INSTRS_PER_BLOCK \in Nat /\ (b + 1) * INSTRS_PER_BLOCK <= MEM_SIZE
  <2>1. b \in Nat /\ b < BlockOf(MEM_SIZE)
    BY <1>1 DEF Blocks
  <2>2. MEM_SIZE = BlockOf(MEM_SIZE) * INSTRS_PER_BLOCK
    BY AtBlock, Parameters DEF Aligned
  <2>3. PICK n \in Nat : BlockOf(MEM_SIZE) = b + 1 + n
    BY <1>1, <2>1, BlockOf(MEM_SIZE) - b - 1 \in Nat
  <2>4. BlockOf(MEM_SIZE) * INSTRS_PER_BLOCK = (b + 1) * INSTRS_PER_BLOCK + n * INSTRS_PER_BLOCK
    BY <2>1, <2>3, Parameters
  <2>5. n * INSTRS_PER_BLOCK \in Nat /\ (b + 1) * INSTRS_PER_BLOCK \in Nat /\ b * INSTRS_PER_BLOCK \in Nat
    BY <2>1, <2>3, Parameters
  <2>6. QED
    BY <2>1, <2>2, <2>4, <2>5
<1>4. QED
  BY <1>1, <1>2, <1>3

LEMMA RegionsAre ==
    ASSUME NEW h, Hdr(h), secure_decode_header(h)
    PROVE  /\ {h.text_start, h.text_end, h.data_start, h.data_end} \subseteq SEC_HDR_WORDS .. MEM_SIZE
           /\ SEC_HDR_WORDS <= h.text_start /\ h.text_start <= h.text_end
           /\ h.text_end <= h.data_start /\ h.data_start <= h.data_end /\ h.data_end <= MEM_SIZE
           /\ h.text_words \in Int /\ h.text_words <= h.text_end - h.text_start
           /\ h.data_words \in Int /\ h.data_words <= h.data_end - h.data_start
           /\ Aligned(h.text_start) /\ Aligned(h.text_end)
           /\ Aligned(h.data_start) /\ Aligned(h.data_end)
           /\ h.epoch # 0
  BY Parameters DEF Hdr, Numbers, secure_decode_header

LEMMA RegionBlocks ==
    ASSUME NEW h, Hdr(h), secure_decode_header(h)
    PROVE  /\ {BlockOf(h.text_start), BlockOf(h.text_end), BlockOf(h.data_start), BlockOf(h.data_end)}
                \subseteq Nat
           /\ BlockOf(h.text_start) <= BlockOf(h.text_end) /\ BlockOf(h.text_end) <= BlockOf(h.data_start)
           /\ BlockOf(h.data_start) <= BlockOf(h.data_end)
           /\ TextBlocks(h) \subseteq Blocks /\ DataRegion(h) \subseteq Blocks
           /\ TextBlocks(h) \cap DataRegion(h) = {}
<1>1. /\ {h.text_start, h.text_end, h.data_start, h.data_end} \subseteq SEC_HDR_WORDS .. MEM_SIZE
      /\ h.text_start <= h.text_end /\ h.text_end <= h.data_start /\ h.data_start <= h.data_end
  BY RegionsAre
<1>2. {h.text_start, h.text_end, h.data_start, h.data_end} \subseteq Nat
  BY <1>1, Parameters
<1>3. /\ BlockOf(SEC_HDR_WORDS) <= BlockOf(h.text_start)
      /\ BlockOf(h.text_start) <= BlockOf(h.text_end) /\ BlockOf(h.text_end) <= BlockOf(h.data_start)
      /\ BlockOf(h.data_start) <= BlockOf(h.data_end) /\ BlockOf(h.data_end) <= BlockOf(MEM_SIZE)
  BY <1>1, <1>2, Monotone, Parameters
<1>4. {BlockOf(h.text_start), BlockOf(h.text_end), BlockOf(h.data_start), BlockOf(h.data_end)} \subseteq Nat
  BY <1>2, WordIs
<1>5. QED
  BY <1>3, <1>4, BlocksAre DEF TextBlocks, DataRegion, Blocks

\* Where the key is hidden.
LEMMA HideLowIs == HideLow \in Nat /\ SEC_HDR_WORDS <= HideLow /\ HideLow < MEM_SIZE
  BY Parameters, HiddenAssumption DEF HideLow

\* A position lies in a word of the upper half outside the text.
LEMMA PlacedAre ==
    ASSUME NEW nonce, NEW start, NEW end
    PROVE  \A b \in secure_generate_positions(nonce, start, end) :
              \E w \in HideLow .. MEM_SIZE - 1 : b = BlockOf(w) /\ ~(w >= start /\ w < end)
  BY DEF secure_generate_positions

LEMMA PositionsAre ==
    ASSUME NEW h, Hdr(h), secure_decode_header(h)
    PROVE  /\ Positions(h) \subseteq Blocks \ TextBlocks(h)
           /\ \A b \in Positions(h) : b >= BlockOf(HideLow)
<1>1. /\ h.text_start \in Nat /\ h.text_end \in Nat
      /\ Aligned(h.text_start) /\ Aligned(h.text_end)
  BY RegionsAre, Parameters
<1>2. ASSUME NEW b \in Positions(h)
      PROVE  b \in Blocks \ TextBlocks(h) /\ b >= BlockOf(HideLow)
  <2>1. PICK w \in HideLow .. MEM_SIZE - 1 : b = BlockOf(w) /\ ~(w >= h.text_start /\ w < h.text_end)
    BY PlacedAre DEF Positions
  <2>2. w \in Nat /\ b \in Nat /\ HideLow <= w /\ w < MEM_SIZE
    BY <2>1, HideLowIs, Parameters, WordIs
  <2>3. b < BlockOf(MEM_SIZE)
    BY <2>1, <2>2, Below, Parameters DEF Aligned
  <2>4. BlockOf(HideLow) <= b /\ BlockOf(SEC_HDR_WORDS) <= b
    BY <2>1, <2>2, Monotone, HideLowIs, Parameters
  <2>5. b < BlockOf(h.text_start) \/ b >= BlockOf(h.text_end)
    <3>1. (w < h.text_start <=> b < BlockOf(h.text_start)) /\ (w < h.text_end <=> b < BlockOf(h.text_end))
      BY <1>1, <2>1, <2>2, Below
    <3>2. BlockOf(h.text_start) \in Nat /\ BlockOf(h.text_end) \in Nat
      BY <1>1, WordIs
    <3>3. QED
      BY <1>1, <2>1, <2>2, <3>1, <3>2
  <2>6. QED
    BY <2>2, <2>3, <2>4, <2>5, <1>1, WordIs, BlocksAre DEF Blocks, TextBlocks
<1>3. QED
  BY <1>2

\* The map keeps the text blocks in the text region, one to one.
OwnText(h) == h.text_start = kTextStartAddr /\ h.epoch \in Epochs

Params(h) == secure_build_map_params(h.text_start, h.text_end, h.epoch)
Place(h, b) == secure_map_block_with_params(b, Params(h))

LEMMA PlaceIs ==
    ASSUME NEW h, Hdr(h), secure_decode_header(h), OwnText(h)
    PROVE  /\ \A b \in TextBlocks(h) : Place(h, b) \in TextBlocks(h)
           /\ \A a, b \in TextBlocks(h) : Place(h, a) = Place(h, b) => a = b
<1>1. h.text_end \in {w \in SEC_HDR_WORDS .. MEM_SIZE : Aligned(w)}
  BY RegionsAre
<1>2. h.epoch \in Epochs /\ h.text_start = kTextStartAddr
  BY DEF OwnText
<1> DEFINE place == [b \in TextBlocks(h) |-> Place(h, b)]
<1>3. place \in [TextBlocks(h) -> TextBlocks(h)]
      /\ \A a, b \in TextBlocks(h) : place[a] = place[b] => a = b
  BY <1>1, <1>2, MapAssumption DEF TextBlocks, Place, Params
<1>4. QED
  BY <1>3

\* Which blocks the checks and the contents of an image look at.
LEMMA TextIs ==
    ASSUME NEW h, Hdr(h), secure_decode_header(h), NEW m
    PROVE  /\ MappedText(m, h) = [i \in 1 .. BlockOf(h.text_end) - BlockOf(h.text_start) |->
                                    m[Place(h, BlockOf(h.text_start) + i - 1)]]
           /\ \A i \in 1 .. BlockOf(h.text_end) - BlockOf(h.text_start) :
                 BlockOf(h.text_start) + i - 1 \in TextBlocks(h)
           /\ \A i \in 1 .. BlockOf(h.data_end) - BlockOf(h.data_start) :
                 BlockOf(h.data_start) + i - 1 \in DataRegion(h)
<1>1. {BlockOf(h.text_start), BlockOf(h.text_end), BlockOf(h.data_start), BlockOf(h.data_end)}
        \subseteq Nat
  BY RegionBlocks
<1>2. MappedText(m, h) = [i \in 1 .. BlockOf(h.text_end) - BlockOf(h.text_start) |->
                            m[Place(h, BlockOf(h.text_start) + i - 1)]]
  BY DEF MappedText, Place, Params
<1>3. QED
  BY <1>1, <1>2 DEF TextBlocks, DataRegion

LEMMA SameText ==
    ASSUME NEW h, Hdr(h), secure_decode_header(h), OwnText(h), NEW m, NEW n,
           \A b \in TextBlocks(h) : n[b] = m[b]
    PROVE  MappedText(n, h) = MappedText(m, h)
<1> DEFINE N == 1 .. BlockOf(h.text_end) - BlockOf(h.text_start)
<1>1. /\ MappedText(m, h) = [i \in N |-> m[Place(h, BlockOf(h.text_start) + i - 1)]]
      /\ MappedText(n, h) = [i \in N |-> n[Place(h, BlockOf(h.text_start) + i - 1)]]
      /\ \A i \in N : BlockOf(h.text_start) + i - 1 \in TextBlocks(h)
  BY TextIs
<1>2. \A i \in N : n[Place(h, BlockOf(h.text_start) + i - 1)] = m[Place(h, BlockOf(h.text_start) + i - 1)]
  BY <1>1, PlaceIs
<1>3. QED
  BY <1>1, <1>2

LEMMA SameData ==
    ASSUME NEW h, Hdr(h), secure_decode_header(h), NEW m, NEW n,
           \A b \in DataRegion(h) : n[b] = m[b]
    PROVE  DataBlocks(n, h) = DataBlocks(m, h)
  BY TextIs DEF DataBlocks

LEMMA SameHidden ==
    ASSUME NEW h, NEW p, NEW q, p.hdr = h, q.hdr = h, Positions(h) # {},
           \A b \in Positions(h) : q.mem[b].hid = p.mem[b].hid
    PROVE  Hidden(q) = Hidden(p)
<1>1. (CHOOSE b \in Positions(h) : TRUE) \in Positions(h)
  OBVIOUS
<1>2. [b \in Positions(h) |-> q.mem[b].hid] = [b \in Positions(h) |-> p.mem[b].hid]
  OBVIOUS
<1>3. QED
  BY <1>1, <1>2 DEF Hidden, secure_extract_hidden_wrapped

\* Every position holds what was hidden.
LEMMA HiddenIs ==
    ASSUME NEW p, Positions(p.hdr) # {}, NEW w, \A b \in Positions(p.hdr) : p.mem[b].hid = <<w>>
    PROVE  Hidden(p) = w
<1>1. (CHOOSE b \in Positions(p.hdr) : TRUE) \in Positions(p.hdr)
  OBVIOUS
<1>2. QED
  BY <1>1 DEF Hidden, secure_extract_hidden_wrapped

LEMMA HiddenEverywhere ==
    ASSUME NEW p, Positions(p.hdr) # {}, NEW s, NEW k, Hidden(p) = WrapKey(k, s)
    PROVE  \A b \in Positions(p.hdr) : p.mem[b].hid # <<>>
<1>1. CASE p.mem[CHOOSE b \in Positions(p.hdr) : TRUE].hid # <<>>
           /\ \A b \in Positions(p.hdr) : p.mem[b].hid = p.mem[CHOOSE x \in Positions(p.hdr) : TRUE].hid
  BY <1>1
<1>2. CASE ~(p.mem[CHOOSE b \in Positions(p.hdr) : TRUE].hid # <<>>
             /\ \A b \in Positions(p.hdr) : p.mem[b].hid = p.mem[CHOOSE x \in Positions(p.hdr) : TRUE].hid)
  <2>1. Hidden(p) = <<"mixed", [b \in Positions(p.hdr) |-> p.mem[b].hid]>>
    BY <1>2 DEF Hidden, secure_extract_hidden_wrapped
  <2>2. QED
    BY <2>1 DEF WrapKey
<1>3. QED
  BY <1>1, <1>2
-----------------------------------------------------------------------------
(* Sealing.                                                                  *)

\* Two headers that differ in what sealing computes only.
Terms == {"wrapped", "key_tag", "img_tag", "measurements"}

LEMMA SameHeader ==
    ASSUME NEW g, NEW h, Hdr(g), Hdr(h), Same(g, h, HFields \ Terms)
    PROVE  /\ secure_decode_header(h) <=> secure_decode_header(g)
           /\ Fields(h) = Fields(g) /\ h.nonce = g.nonce
           /\ Positions(h) = Positions(g) /\ Params(h) = Params(g) /\ (OwnText(h) <=> OwnText(g))
           /\ TextBlocks(h) = TextBlocks(g) /\ DataRegion(h) = DataRegion(g)
           /\ \A m : MappedText(m, h) = MappedText(m, g) /\ DataBlocks(m, h) = DataBlocks(m, g)
           /\ \A m : secure_derive_session_key(h, m) = secure_derive_session_key(g, m)
           /\ \A m : secure_collect_measurements(m, h) = secure_collect_measurements(m, g)
<1>1. /\ h.magic = g.magic /\ h.policy = g.policy /\ h.text_start = g.text_start
      /\ h.text_words = g.text_words /\ h.text_end = g.text_end /\ h.data_start = g.data_start
      /\ h.data_words = g.data_words /\ h.data_end = g.data_end /\ h.data_flags = g.data_flags
      /\ h.epoch = g.epoch /\ h.nonce = g.nonce
  BY DEF Same, HFields, Terms
<1>2. secure_decode_header(h) <=> secure_decode_header(g)
  BY <1>1 DEF secure_decode_header
<1>3. Fields(h) = Fields(g)
  BY <1>1 DEF Fields
<1>4. Positions(h) = Positions(g) /\ Params(h) = Params(g) /\ (OwnText(h) <=> OwnText(g))
      /\ TextBlocks(h) = TextBlocks(g) /\ DataRegion(h) = DataRegion(g)
  BY <1>1 DEF Positions, Params, OwnText, TextBlocks, DataRegion
<1>5. \A m : MappedText(m, h) = MappedText(m, g) /\ DataBlocks(m, h) = DataBlocks(m, g)
  BY <1>1 DEF MappedText, DataBlocks
<1>6. \A m : secure_derive_session_key(h, m) = secure_derive_session_key(g, m)
  BY <1>1, <1>3 DEF secure_derive_session_key
<1>7. \A m : secure_collect_measurements(m, h) = secure_collect_measurements(m, g)
  BY <1>1, <1>3, <1>5 DEF secure_collect_measurements
<1>8. QED
  BY <1>1, <1>2, <1>3, <1>4, <1>5, <1>6, <1>7

SealedBy(q, key) ==
    /\ KeyGood(q) /\ ImageTag(q) = q.hdr.img_tag
    /\ q.hdr.wrapped = WrapKey(key, SessionKey(q))

LEMMA TagsAre ==
    ASSUME NEW p, Process(p), NEW h, Hdr(h), NEW q, Process(q), NEW key, NEW sk,
           secure_decode_header(h), Positions(h) # {},
           h.measurements = secure_collect_measurements(p.mem, h),
           sk = secure_derive_session_key(h, h.measurements), h.wrapped = WrapKey(key, sk),
           \A b \in Positions(h) : p.mem[b].hid = <<h.wrapped>>,
           q.mem = p.mem, Same(h, q.hdr, HFields \ {"key_tag", "img_tag"}),
           q.hdr.key_tag = secure_compute_key_tag(h, secure_extract_hidden_wrapped(p.mem, Positions(h)),
                                                  sk, h.measurements),
           q.hdr.img_tag = secure_compute_img_tag(p.mem, h, sk, h.measurements)
    PROVE  SealedBy(q, key)
<1>1. Hdr(q.hdr)
  BY DEF Process
<1>2. Same(h, q.hdr, HFields \ Terms) /\ q.hdr.wrapped = h.wrapped /\ q.hdr.measurements = h.measurements
  BY DEF Same, HFields, Terms
<1>3. /\ secure_decode_header(q.hdr) /\ Fields(q.hdr) = Fields(h) /\ q.hdr.nonce = h.nonce
      /\ Positions(q.hdr) = Positions(h)
      /\ MappedText(q.mem, q.hdr) = MappedText(p.mem, h) /\ DataBlocks(q.mem, q.hdr) = DataBlocks(p.mem, h)
      /\ secure_derive_session_key(q.hdr, h.measurements) = sk
      /\ secure_collect_measurements(q.mem, q.hdr) = h.measurements
  BY <1>1, <1>2, SameHeader
<1>4. Meas(q) = h.measurements /\ SessionKey(q) = sk
  BY <1>3 DEF Meas, SessionKey
<1>5. Hidden(q) = h.wrapped
  BY <1>3, HiddenIs
<1>6. secure_extract_hidden_wrapped(p.mem, Positions(h)) = h.wrapped
  BY <1>5, <1>3 DEF Hidden
<1>7. secure_compute_key_tag(q.hdr, Hidden(q), SessionKey(q), Meas(q)) = q.hdr.key_tag
  BY <1>3, <1>4, <1>5, <1>6 DEF secure_compute_key_tag
<1>8. ImageTag(q) = q.hdr.img_tag
  BY <1>3, <1>4 DEF ImageTag, Meas, secure_compute_img_tag
<1>9. QED
  BY <1>2, <1>3, <1>4, <1>5, <1>7, <1>8 DEF SealedBy, KeyGood

\* A block after bits of a wrapped key were hidden over it.
Covered(new, old, w) == new.hid = <<w>> /\ new.key = old.key /\ new.words = old.words

LEMMA HideIs ==
    ASSUME NEW m, Mem(m), NEW P, P \in SUBSET Blocks, NEW w,
           NEW n, n = secure_hide_wrapped(m, P, w)
    PROVE  /\ Mem(n)
           /\ \A b \in P : Covered(n[b], m[b], w)
           /\ \A b \in Blocks \ P : n[b] = m[b]
<1>1. n = [b \in Blocks |-> IF b \in P THEN [m[b] EXCEPT !.hid = <<w>>] ELSE m[b]]
  BY DEF secure_hide_wrapped
<1>2. \A b \in P : n[b] = [m[b] EXCEPT !.hid = <<w>>] /\ DOMAIN m[b] = {"key", "words", "hid"}
  BY <1>1 DEF Mem
<1>3. \A b \in P : Covered(n[b], m[b], w) /\ n[b].words = m[b].words
                   /\ DOMAIN n[b] = {"key", "words", "hid"}
  BY <1>2 DEF Covered
<1>4. \A b \in Blocks \ P : n[b] = m[b]
  BY <1>1
<1>5. QED
  BY <1>1, <1>3, <1>4 DEF Mem

LEMMA SealIs ==
    ASSUME NEW p, DOMAIN p = PFields, Mem(p.mem), NEW key, NEW h, Hdr(h),
           h = WithNonce(AlignData(ClampData(ClampText(p.set))), key),
           secure_decode_header(h), OwnText(h), NEW x, x = create_large_block_with_key(p, key)
    PROVE  /\ Positions(h) = {} => x.rc # 0
           /\ Positions(h) # {} =>
                /\ x.rc = 0 /\ Process(x.p) /\ SealedBy(x.p, key)
                /\ Same(h, x.p.hdr, HFields \ Terms)
                /\ x.p.mem = secure_hide_wrapped(p.mem, Positions(h), x.p.hdr.wrapped)
<1>1. PICK meas : meas = secure_collect_measurements(p.mem, h)
  OBVIOUS
<1>2. PICK sk : sk = secure_derive_session_key(h, meas)
  OBVIOUS
<1>3. PICK g : g = [h EXCEPT !.measurements = meas, !.wrapped = WrapKey(key, sk)]
  OBVIOUS
<1>4. x = SealHide(p, g, Positions(h), sk)
  BY <1>1, <1>2, <1>3 DEF create_large_block_with_key, SealHeader, SealWrap, Positions
<1>5. /\ DOMAIN g = HFields /\ g.measurements = meas /\ g.wrapped = WrapKey(key, sk)
      /\ Same(h, g, HFields \ {"measurements", "wrapped"})
  BY <1>3 DEF Hdr, HFields, Same
<1>6. Hdr(g) /\ Same(h, g, HFields \ Terms)
  BY <1>5 DEF Hdr, HFields, Same, Numbers, Terms
<1>7. CASE Positions(h) = {}
  BY <1>4, <1>7 DEF SealHide
<1>8. CASE Positions(h) # {}
  <2>1. PICK m : m = secure_hide_wrapped(p.mem, Positions(h), g.wrapped)
    OBVIOUS
  <2>2. PICK r : r = [p EXCEPT !.mem = m]
    OBVIOUS
  <2>3. PICK k : k = [g EXCEPT
                        !.key_tag = secure_compute_key_tag(g, secure_extract_hidden_wrapped(r.mem, Positions(h)),
                                                           sk, g.measurements),
                        !.img_tag = secure_compute_img_tag(r.mem, g, sk, g.measurements)]
    OBVIOUS
  <2>4. PICK q : q = [r EXCEPT !.hdr = k]
    OBVIOUS
  <2>5. x = [rc |-> 0, p |-> Adopted(q)]
    BY <1>4, <1>8, <2>1, <2>2, <2>3, <2>4 DEF SealHide, SealTags
  <2>6. /\ DOMAIN k = HFields /\ Same(g, k, HFields \ {"key_tag", "img_tag"})
        /\ k.key_tag = secure_compute_key_tag(g, secure_extract_hidden_wrapped(r.mem, Positions(h)),
                                              sk, g.measurements)
        /\ k.img_tag = secure_compute_img_tag(r.mem, g, sk, g.measurements)
    BY <2>3, <1>5 DEF HFields, Same
  <2>7. Hdr(k) /\ Same(h, k, HFields \ Terms) /\ k.wrapped = g.wrapped
    BY <2>6, <1>5, <1>6 DEF Hdr, HFields, Same, Numbers, Terms
  <2>8. DOMAIN r = PFields /\ r.mem = m
    BY <2>2 DEF PFields
  <2>9. DOMAIN q = PFields /\ q.mem = m /\ q.hdr = k
    BY <2>4, <2>8 DEF PFields
  <2>10. Positions(h) \subseteq Blocks \ TextBlocks(h)
    BY PositionsAre
  <2>11. Mem(m) /\ (\A b \in Positions(h) : m[b].hid = <<g.wrapped>>)
         /\ (\A b \in TextBlocks(h) : m[b] = p.mem[b])
    <3>1. TextBlocks(h) \subseteq Blocks
      BY RegionBlocks
    <3>2. /\ Mem(m) /\ (\A b \in Positions(h) : m[b].hid = <<g.wrapped>>)
          /\ \A b \in Blocks \ Positions(h) : m[b] = p.mem[b]
      <4>1. Positions(h) \in SUBSET Blocks
        BY <2>10
      <4>2. /\ Mem(m) /\ (\A b \in Positions(h) : Covered(m[b], p.mem[b], g.wrapped))
            /\ \A b \in Blocks \ Positions(h) : m[b] = p.mem[b]
        BY <4>1, <2>1, HideIs
      <4>3. QED
        BY <4>2 DEF Covered
    <3>3. QED
      BY <3>1, <3>2, <2>10
  <2>12. MappedText(m, h) = MappedText(p.mem, h)
    BY <2>11, SameText
  <2>13. g.measurements = secure_collect_measurements(m, g) /\ sk = secure_derive_session_key(g, meas)
         /\ Positions(g) = Positions(h) /\ secure_decode_header(g)
    <3>1. secure_collect_measurements(m, h) = meas
      BY <2>12, <1>1 DEF secure_collect_measurements
    <3>2. QED
      BY <3>1, <1>2, <1>5, <1>6, SameHeader
  <2>14. Process(q)
    BY <2>7, <2>9, <2>11 DEF Process
  <2>15. /\ Process(x.p) /\ x.p.mem = m /\ x.p.hdr = k /\ x.rc = 0
    BY <2>5, <2>9, <2>14, AdoptIs DEF Same, PFields
  <2>16. PICK u : u.mem = m /\ u.hdr = g /\ Process(u)
    <3>1. [q EXCEPT !.hdr = g].mem = m /\ [q EXCEPT !.hdr = g].hdr = g
          /\ DOMAIN [q EXCEPT !.hdr = g] = PFields
      BY <2>9 DEF PFields
    <3>2. QED
      BY <3>1, <1>6, <2>11 DEF Process
  <2>17. SealedBy(x.p, key)
    <3>1. /\ Process(u) /\ Hdr(g) /\ Process(x.p) /\ secure_decode_header(g) /\ Positions(g) # {}
          /\ g.measurements = secure_collect_measurements(u.mem, g)
          /\ sk = secure_derive_session_key(g, g.measurements) /\ g.wrapped = WrapKey(key, sk)
          /\ \A b \in Positions(g) : u.mem[b].hid = <<g.wrapped>>
          /\ x.p.mem = u.mem
      BY <2>16, <2>15, <2>13, <2>11, <1>5, <1>6, <1>8
    <3>2. /\ Same(g, x.p.hdr, HFields \ {"key_tag", "img_tag"})
          /\ x.p.hdr.key_tag = secure_compute_key_tag(g, secure_extract_hidden_wrapped(u.mem, Positions(g)),
                                                      sk, g.measurements)
          /\ x.p.hdr.img_tag = secure_compute_img_tag(u.mem, g, sk, g.measurements)
      BY <2>16, <2>15, <2>13, <2>8, <2>6
    <3>3. QED
      BY <3>1, <3>2, TagsAre
  <2>18. QED
    BY <1>8, <2>1, <2>7, <2>15, <2>17
<1>9. QED
  BY <1>7, <1>8
-----------------------------------------------------------------------------
(* The encryptor's settings.                                                 *)

LEMMA ClampTextIs ==
    ASSUME NEW s, Hdr(s), SEC_HDR_WORDS <= s.text_start, s.text_start <= s.text_end,
           s.text_end <= MEM_SIZE, s.text_words <= s.text_end - s.text_start,
           NEW t, t = ClampText(s)
    PROVE  Hdr(t) /\ Same(s, t, HFields)
<1>1. s.text_start \in Int /\ s.text_end \in Int /\ s.text_words \in Int
  BY DEF Hdr, Numbers
<1> DEFINE start == IF s.text_start < kTextStartAddr \/ s.text_start > MEM_SIZE
                    THEN kTextStartAddr ELSE s.text_start
           end   == AtMost(AtLeast(s.text_end, start), MEM_SIZE)
           words == AtMost(s.text_words, end - start)
<1>2. t = [s EXCEPT !.text_start = start, !.text_end = end, !.text_words = words]
  BY DEF ClampText
<1>3. start = s.text_start /\ end = s.text_end /\ words = s.text_words
  BY <1>1, Parameters DEF AtMost, AtLeast
<1> HIDE DEF start, end, words
<1>4. DOMAIN t = HFields /\ Same(s, t, HFields)
  BY <1>2, <1>3 DEF Hdr, HFields, Same
<1>5. QED
  BY <1>4 DEF Hdr, Same, HFields, Numbers

LEMMA ClampDataIs ==
    ASSUME NEW s, Hdr(s), s.text_end <= MEM_SIZE, NEW t, t = ClampData(s)
    PROVE  /\ Hdr(t) /\ Same(s, t, HFields \ {"data_start", "data_end", "data_words"})
           /\ (s.text_end <= s.data_start /\ s.data_start <= s.data_end /\ s.data_end <= MEM_SIZE
               /\ s.data_words <= s.data_end - s.data_start) => Same(s, t, HFields)
<1>1. s.text_end \in Int /\ s.data_start \in Int /\ s.data_end \in Int /\ s.data_words \in Int
  BY DEF Hdr, Numbers
<1> DEFINE start == IF s.data_start < s.text_end \/ s.data_start > MEM_SIZE
                    THEN s.text_end ELSE s.data_start
           end   == AtMost(AtLeast(s.data_end, start), MEM_SIZE)
           words == AtMost(s.data_words, end - start)
<1>2. t = [s EXCEPT !.data_start = start, !.data_end = end, !.data_words = words]
  BY DEF ClampData
<1>3. start \in Int /\ end \in Int /\ words \in Int
  BY <1>1, Parameters DEF AtMost, AtLeast
<1>4. (s.text_end <= s.data_start /\ s.data_start <= s.data_end /\ s.data_end <= MEM_SIZE
       /\ s.data_words <= s.data_end - s.data_start)
      => start = s.data_start /\ end = s.data_end /\ words = s.data_words
  BY <1>1, Parameters DEF AtMost, AtLeast
<1> HIDE DEF start, end, words
<1>5. /\ DOMAIN t = HFields /\ t.data_start = start /\ t.data_end = end /\ t.data_words = words
      /\ Same(s, t, HFields \ {"data_start", "data_end", "data_words"})
  BY <1>2 DEF Hdr, HFields, Same
<1>6. Hdr(t)
  BY <1>3, <1>5 DEF Hdr, Same, HFields, Numbers
<1>7. QED
  BY <1>4, <1>5, <1>6 DEF Same, HFields

LEMMA AlignDataIs ==
    ASSUME NEW s, Hdr(s), s.text_end <= s.data_start, s.data_start \in Nat, s.data_end \in Nat,
           Aligned(s.data_start), Aligned(s.data_end), NEW t, t = AlignData(s)
    PROVE  Hdr(t) /\ Same(s, t, HFields)
<1>1. s.text_end \in Int
  BY DEF Hdr, Numbers
<1> DEFINE start == AtLeast(s.data_start - (s.data_start % INSTRS_PER_BLOCK), s.text_end)
           end == IF Aligned(s.data_end) THEN s.data_end
                  ELSE AtMost(s.data_end + INSTRS_PER_BLOCK - (s.data_end % INSTRS_PER_BLOCK), MEM_SIZE)
<1>2. t = [s EXCEPT !.data_start = start, !.data_end = end]
  BY DEF AlignData
<1>3. start = s.data_start /\ end = s.data_end
  BY <1>1 DEF AtLeast, Aligned
<1> HIDE DEF start, end
<1>4. DOMAIN t = HFields /\ Same(s, t, HFields)
  BY <1>2, <1>3 DEF Hdr, HFields, Same
<1>5. QED
  BY <1>4 DEF Hdr, Same, HFields, Numbers

\* A header whose regions are in order stays as it is.
LEMMA SettingsStay ==
    ASSUME NEW s, Hdr(s), SEC_HDR_WORDS <= s.text_start, s.text_start <= s.text_end,
           s.text_end <= MEM_SIZE, s.text_words <= s.text_end - s.text_start,
           s.text_end <= s.data_start, s.data_start <= s.data_end, s.data_end <= MEM_SIZE,
           s.data_words <= s.data_end - s.data_start,
           Aligned(s.data_start), Aligned(s.data_end),
           NEW t, t = AlignData(ClampData(ClampText(s)))
    PROVE  Hdr(t) /\ Same(s, t, HFields)
<1>1. PICK u : u = ClampText(s)
  OBVIOUS
<1>2. Hdr(u) /\ Same(s, u, HFields)
  BY <1>1, ClampTextIs
<1>3. PICK v : v = ClampData(u)
  OBVIOUS
<1>4. /\ u.text_end = s.text_end /\ u.data_start = s.data_start /\ u.data_end = s.data_end
      /\ u.data_words = s.data_words
  BY <1>2 DEF Same, HFields
<1>5. Hdr(v) /\ Same(u, v, HFields)
  BY <1>2, <1>3, <1>4, ClampDataIs
<1>6. Same(s, v, HFields)
  BY <1>2, <1>5 DEF Same
<1>7. v.text_end = s.text_end /\ v.data_start = s.data_start /\ v.data_end = s.data_end
  BY <1>6 DEF Same, HFields
<1>8. s.data_start \in Nat /\ s.data_end \in Nat
  BY Parameters DEF Hdr, Numbers
<1>9. t = AlignData(v)
  BY <1>1, <1>3
<1>10. Hdr(t) /\ Same(v, t, HFields)
  BY <1>5, <1>7, <1>8, <1>9, AlignDataIs
<1>11. QED
  BY <1>6, <1>10 DEF Same

LEMMA FreshIs ==
    /\ Process(Fresh) /\ Fresh.map = <<>> /\ Hdr(Fresh.set) /\ Fresh.locked = FALSE
    /\ Fresh.set.text_start = SEC_HDR_WORDS /\ Fresh.set.text_end = SEC_HDR_WORDS
    /\ Fresh.set.data_start = SEC_HDR_WORDS /\ Fresh.set.data_end = SEC_HDR_WORDS
    /\ Fresh.set.text_words = 0 /\ Fresh.set.data_words = 0
    /\ Fresh.set.policy = TRUE /\ Fresh.hdr = Fresh.set
    /\ DOMAIN ZeroBlock = {"key", "words", "hid"} /\ DOMAIN ZeroBlock.words = 1 .. INSTRS_PER_BLOCK
    /\ ZeroBlock.key = NoKey /\ ZeroBlock.hid = <<>>
<1>1. /\ DOMAIN ZeroBlock = {"key", "words", "hid"} /\ DOMAIN ZeroBlock.words = 1 .. INSTRS_PER_BLOCK
      /\ ZeroBlock.key = NoKey /\ ZeroBlock.hid = <<>>
  BY DEF ZeroBlock, PlainBlock
<1>2. DOMAIN Fresh = PFields /\ Fresh.mem = [b \in Blocks |-> ZeroBlock] /\ Fresh.map = <<>>
      /\ Fresh.hdr = Fresh.set /\ Fresh.locked = FALSE
  BY DEF Fresh, PFields
<1>3. Mem(Fresh.mem)
  BY <1>1, <1>2 DEF Mem
<1>4. /\ DOMAIN Fresh.set = HFields
      /\ Fresh.set.text_start = SEC_HDR_WORDS /\ Fresh.set.text_end = SEC_HDR_WORDS
      /\ Fresh.set.data_start = SEC_HDR_WORDS /\ Fresh.set.data_end = SEC_HDR_WORDS
      /\ Fresh.set.text_words = 0 /\ Fresh.set.data_words = 0 /\ Fresh.set.epoch = 1
      /\ Fresh.set.policy = TRUE
  BY Parameters DEF Fresh, HFields
<1>5. Hdr(Fresh.set)
  BY <1>4, Parameters DEF Hdr, Numbers
<1>6. QED
  BY <1>1, <1>2, <1>3, <1>4, <1>5 DEF Process

TextEndOf(text) == align_up_words(kTextStartAddr + Len(text))
DataEndOf(text, data) == align_up_words(TextEndOf(text) + Len(data))

\* What the encryptor may be given.
Words(text, data) ==
    /\ text \in Seq(Range(text)) /\ data \in Seq(Range(data)) /\ text # <<>>
    /\ TextEndOf(text) <= MEM_SIZE /\ DataEndOf(text, data) <= MEM_SIZE

LEMMA SizesAre ==
    ASSUME NEW text, NEW data, text \in Seq(Range(text)), data \in Seq(Range(data)), text # <<>>
    PROVE  /\ Len(text) \in Nat /\ Len(text) > 0 /\ Len(data) \in Nat
           /\ TextEndOf(text) \in Nat /\ Aligned(TextEndOf(text))
           /\ SEC_HDR_WORDS + Len(text) <= TextEndOf(text)
           /\ DataEndOf(text, data) \in Nat /\ Aligned(DataEndOf(text, data))
           /\ TextEndOf(text) + Len(data) <= DataEndOf(text, data)
           /\ TextEndOf(text) = SEC_HDR_WORDS + align_up_words(Len(text))
           /\ DataEndOf(text, data) = TextEndOf(text) + align_up_words(Len(data))
<1>1. Len(text) \in Nat /\ Len(text) > 0 /\ Len(data) \in Nat
  OBVIOUS
<1>2. kTextStartAddr + Len(text) \in Nat /\ Aligned(SEC_HDR_WORDS)
  BY <1>1, Parameters DEF Aligned
<1>3. TextEndOf(text) \in Nat /\ Aligned(TextEndOf(text)) /\ SEC_HDR_WORDS + Len(text) <= TextEndOf(text)
  BY <1>2, AlignUp, Parameters DEF TextEndOf
<1>4. DataEndOf(text, data) \in Nat /\ Aligned(DataEndOf(text, data))
      /\ TextEndOf(text) + Len(data) <= DataEndOf(text, data)
  BY <1>1, <1>3, AlignUp DEF DataEndOf
<1>5. TextEndOf(text) = SEC_HDR_WORDS + align_up_words(Len(text))
  BY <1>1, <1>2, AlignOffset, Parameters DEF TextEndOf
<1>6. DataEndOf(text, data) = TextEndOf(text) + align_up_words(Len(data))
  BY <1>1, <1>3, AlignOffset DEF DataEndOf
<1>7. QED
  BY <1>1, <1>3, <1>4, <1>5, <1>6

Settings(s, text, data) ==
    /\ Hdr(s) /\ s.text_start = kTextStartAddr
    /\ s.text_words = Len(text) /\ s.text_end = TextEndOf(text)
    /\ s.data_start = TextEndOf(text) /\ s.data_words = Len(data)
    /\ s.data_end = DataEndOf(text, data) /\ s.data_flags = TRUE /\ s.policy = TRUE

LEMMA RegionSet ==
    ASSUME NEW text, NEW data, Words(text, data), NEW p, DOMAIN p = PFields, p.set = Fresh.set,
           NEW q, q = secure_set_image_region(p, kTextStartAddr, Len(text), TextEndOf(text)),
           NEW r, r = secure_set_data_region(q, TextEndOf(text), Len(data), DataEndOf(text, data), TRUE)
    PROVE  /\ DOMAIN r = PFields /\ Same(p, r, {"mem", "hdr"}) /\ r.map = <<>>
           /\ Settings(r.set, text, data)
<1> USE DEF Words
<1>1. /\ Len(text) \in Nat /\ Len(text) > 0 /\ Len(data) \in Nat
      /\ TextEndOf(text) \in Nat /\ Aligned(TextEndOf(text))
      /\ SEC_HDR_WORDS + Len(text) <= TextEndOf(text)
      /\ DataEndOf(text, data) \in Nat /\ Aligned(DataEndOf(text, data))
      /\ TextEndOf(text) + Len(data) <= DataEndOf(text, data)
  BY SizesAre
<1>2. PICK s : s = [Fresh.set EXCEPT !.text_start = kTextStartAddr, !.text_words = Len(text),
                                     !.text_end = TextEndOf(text)]
  OBVIOUS
<1>3. /\ DOMAIN s = HFields /\ s.text_start = kTextStartAddr /\ s.text_words = Len(text)
      /\ s.text_end = TextEndOf(text)
      /\ Same(Fresh.set, s, HFields \ {"text_start", "text_words", "text_end"})
  BY <1>2, FreshIs DEF Hdr, HFields, Same
<1>4. Hdr(s) /\ s.policy = TRUE
  BY <1>1, <1>3, FreshIs, Parameters DEF Hdr, Numbers, HFields, Same
<1>5. PICK t : t = ClampText(s)
  OBVIOUS
<1>6. Hdr(t) /\ Same(s, t, HFields)
  <2>1. /\ SEC_HDR_WORDS <= s.text_start /\ s.text_start <= s.text_end /\ s.text_end <= MEM_SIZE
        /\ s.text_words <= s.text_end - s.text_start
    BY <1>1, <1>3, Parameters
  <2>2. QED
    BY <2>1, <1>4, <1>5, ClampTextIs
<1>7. PICK u : u = ClampData(t)
  OBVIOUS
<1>8. t.text_end = TextEndOf(text) /\ t.text_start = kTextStartAddr /\ t.text_words = Len(text) /\ t.policy = TRUE
  BY <1>3, <1>4, <1>6 DEF Same, HFields
<1>9. Hdr(u) /\ Same(t, u, HFields \ {"data_start", "data_end", "data_words"})
  BY <1>6, <1>7, <1>8, ClampDataIs
<1>10. q = [p EXCEPT !.set = u, !.region = <<>>, !.map = <<>>]
  BY <1>2, <1>5, <1>7 DEF secure_set_image_region
<1>11. DOMAIN q = PFields /\ q.set = u /\ q.map = <<>> /\ q.mem = p.mem /\ q.hdr = p.hdr
  BY <1>10 DEF PFields
<1>12. PICK v : v = [u EXCEPT !.data_start = TextEndOf(text), !.data_words = Len(data),
                              !.data_end = DataEndOf(text, data), !.data_flags = TRUE]
  OBVIOUS
<1>13. /\ DOMAIN v = HFields /\ v.data_start = TextEndOf(text) /\ v.data_words = Len(data)
       /\ v.data_end = DataEndOf(text, data) /\ v.data_flags = TRUE
       /\ Same(u, v, HFields \ {"data_start", "data_end", "data_words", "data_flags"})
  BY <1>9, <1>12 DEF Hdr, HFields, Same
<1>14. Hdr(v)
  BY <1>1, <1>9, <1>13 DEF Hdr, Numbers, HFields, Same
<1>15. v.text_end = TextEndOf(text) /\ v.text_start = kTextStartAddr /\ v.text_words = Len(text)
       /\ v.policy = TRUE
  BY <1>8, <1>9, <1>13 DEF Same, HFields
<1>16. PICK w : w = ClampData(v)
  OBVIOUS
<1>17. Hdr(w) /\ Same(v, w, HFields)
  BY <1>1, <1>13, <1>14, <1>15, <1>16, ClampDataIs
<1>18. PICK z : z = AlignData(w)
  OBVIOUS
<1>19. w.data_start = TextEndOf(text) /\ w.data_end = DataEndOf(text, data) /\ w.text_end = TextEndOf(text)
  BY <1>13, <1>15, <1>17 DEF Same, HFields
<1>20. Hdr(z) /\ Same(w, z, HFields)
  BY <1>1, <1>17, <1>18, <1>19, AlignDataIs
<1>21. r = [q EXCEPT !.set = z, !.region = <<>>]
  BY <1>11, <1>12, <1>16, <1>18 DEF secure_set_data_region
<1>22. DOMAIN r = PFields /\ r.set = z /\ r.map = <<>> /\ r.mem = p.mem /\ r.hdr = p.hdr
  BY <1>11, <1>21 DEF PFields
<1>23. Settings(z, text, data)
  BY <1>13, <1>15, <1>17, <1>20 DEF Settings, Same, HFields
<1>24. QED
  BY <1>22, <1>23 DEF Same

\* The nonce the encryptor derives and the places it gives the key.
EpochOf(text, data, epoch) ==
    IF epoch # 0 THEN epoch ELSE derive_auto_epoch(Len(text), TextEndOf(text), Len(data))

NonceOf(text, data, e, key) ==
    <<"nonce", key, <<kTextStartAddr, Len(text), TextEndOf(text), TextEndOf(text), Len(data),
                      DataEndOf(text, data), TRUE, e>>>>

PlacesOf(text, data, epoch, key) ==
    secure_generate_positions(NonceOf(text, data, EpochOf(text, data, epoch), key),
                              kTextStartAddr, TextEndOf(text))

LEMMA EpochSet ==
    ASSUME NEW text, NEW data, Words(text, data), NEW p, DOMAIN p = PFields, p.map = <<>>,
           Settings(p.set, text, data), NEW epoch \in EpochOptions,
           NEW q, q = secure_set_mapping_epoch(p, EpochOf(text, data, epoch))
    PROVE  /\ DOMAIN q = PFields /\ q.mem = p.mem /\ q.hdr = p.hdr /\ q.map = <<>>
           /\ Settings(q.set, text, data) /\ q.set.epoch \in Epochs /\ q.set.epoch # 0
           /\ q.set.epoch = EpochOf(text, data, epoch)
<1>1. Len(text) \in Nat /\ Len(data) \in Nat /\ TextEndOf(text) \in Nat
  BY SizesAre DEF Words
<1>2. PICK e : e = EpochOf(text, data, epoch)
  OBVIOUS
<1>3. e \in Nat /\ e # 0 /\ e \in Epochs
  <2>1. PICK n \in Nat : n = Len(text) + TextEndOf(text) + Len(data)
    BY <1>1
  <2>2. 1 + (n % 3) \in 1 .. 3
    OBVIOUS
  <2>3. derive_auto_epoch(Len(text), TextEndOf(text), Len(data)) \in 1 .. 3
    BY <2>1, <2>2 DEF derive_auto_epoch
  <2>4. QED
    BY <1>2, <2>3, ToolchainAssumption DEF Epochs, EpochOf
<1>4. q = [p EXCEPT !.set.epoch = e, !.region = <<>>, !.map = <<>>]
  BY <1>2, <1>3 DEF secure_set_mapping_epoch
<1>5. DOMAIN q = PFields /\ q.mem = p.mem /\ q.hdr = p.hdr /\ q.map = <<>>
      /\ q.set = [p.set EXCEPT !.epoch = e]
  BY <1>4 DEF PFields
<1>6. DOMAIN q.set = HFields /\ q.set.epoch = e /\ Same(p.set, q.set, HFields \ {"epoch"})
  BY <1>5 DEF Settings, Hdr, HFields, Same
<1>7. Hdr(q.set)
  BY <1>3, <1>6 DEF Settings, Hdr, HFields, Same, Numbers
<1>8. Settings(q.set, text, data)
  BY <1>6, <1>7 DEF Settings, HFields, Same
<1>9. QED
  BY <1>2, <1>3, <1>5, <1>6, <1>8

-----------------------------------------------------------------------------
(* The plain image.                                                          *)

LEMMA PaddedIs ==
    ASSUME NEW x, x \in Seq(Range(x))
    PROVE  /\ Padded(x) \in Seq(Range(x) \cup {ZeroWord}) /\ Len(Padded(x)) = align_up_words(Len(x))
           /\ \A i \in 1 .. Len(x) : Padded(x)[i] = x[i]
<1>1. Len(x) \in Nat /\ align_up_words(Len(x)) \in Nat /\ Len(x) <= align_up_words(Len(x))
  BY AlignUp
<1>2. PICK n \in Nat : n = align_up_words(Len(x)) - Len(x)
  BY <1>1
<1>3. PICK z : z = [i \in 1 .. n |-> ZeroWord]
  OBVIOUS
<1>4. z \in Seq({ZeroWord}) /\ Len(z) = n
  BY <1>3
<1>5. Padded(x) = x \o z
  BY <1>2, <1>3 DEF Padded
<1>6. PICK S : S = Range(x) \cup {ZeroWord}
  OBVIOUS
<1>7. x \in Seq(S) /\ z \in Seq(S)
  <2>1. x \in [1 .. Len(x) -> S]
    BY <1>6
  <2>2. z \in [1 .. n -> S]
    BY <1>3, <1>6
  <2>3. QED
    BY <2>1, <2>2, <1>1
<1>8. /\ Padded(x) \in Seq(S) /\ Len(Padded(x)) = Len(x) + n
      /\ \A i \in 1 .. Len(x) : Padded(x)[i] = x[i]
  <2>1. Len(x) \in Nat /\ Len(z) = n
    BY <1>1, <1>4
  <2>2. x \o z \in Seq(S) /\ Len(x \o z) = Len(x) + Len(z)
        /\ \A i \in 1 .. Len(x) + Len(z) : (x \o z)[i] = IF i <= Len(x) THEN x[i] ELSE z[i - Len(x)]
    BY <1>7, ConcatProperties
  <2>3. QED
    BY <2>1, <2>2, <1>5
<1>9. QED
  BY <1>1, <1>2, <1>6, <1>8

All(text, data) == Padded(text) \o Padded(data)

LEMMA AllIs ==
    ASSUME NEW text, NEW data, Words(text, data)
    PROVE  /\ \E S : All(text, data) \in Seq(S)
           /\ Len(All(text, data)) = DataEndOf(text, data) - SEC_HDR_WORDS
           /\ \A i \in 1 .. Len(text) : All(text, data)[i] = text[i]
           /\ \A i \in 1 .. align_up_words(Len(data)) :
                 All(text, data)[TextEndOf(text) - SEC_HDR_WORDS + i] = Padded(data)[i]
<1>1. /\ Padded(text) \in Seq(Range(text) \cup {ZeroWord}) /\ Len(Padded(text)) = align_up_words(Len(text))
      /\ \A i \in 1 .. Len(text) : Padded(text)[i] = text[i]
      /\ Padded(data) \in Seq(Range(data) \cup {ZeroWord}) /\ Len(Padded(data)) = align_up_words(Len(data))
  BY PaddedIs DEF Words
<1>2. PICK S : S = Range(text) \cup Range(data) \cup {ZeroWord}
  OBVIOUS
<1>3. Padded(text) \in Seq(S) /\ Padded(data) \in Seq(S)
  BY <1>1, <1>2
<1>4. /\ Len(text) \in Nat /\ Len(data) \in Nat /\ TextEndOf(text) \in Nat
      /\ TextEndOf(text) = SEC_HDR_WORDS + align_up_words(Len(text))
      /\ DataEndOf(text, data) = TextEndOf(text) + align_up_words(Len(data))
  BY SizesAre DEF Words
<1>5. /\ align_up_words(Len(text)) \in Nat /\ align_up_words(Len(data)) \in Nat
      /\ Len(text) <= align_up_words(Len(text))
  BY <1>4, AlignUp
<1>6. /\ All(text, data) \in Seq(S)
      /\ Len(All(text, data)) = align_up_words(Len(text)) + align_up_words(Len(data))
      /\ \A i \in 1 .. Len(Padded(text)) : All(text, data)[i] = Padded(text)[i]
      /\ \A i \in 1 .. Len(Padded(data)) : All(text, data)[Len(Padded(text)) + i] = Padded(data)[i]
  BY <1>1, <1>3, <1>5 DEF All
<1>7. QED
  BY <1>1, <1>4, <1>5, <1>6, Parameters

LEMMA BlockWordsAre ==
    ASSUME NEW S, NEW s \in Seq(S), NEW b \in Nat, (b + 1) * INSTRS_PER_BLOCK <= Len(s)
    PROVE  /\ DOMAIN BlockWords(s, b + 1) = 1 .. INSTRS_PER_BLOCK
           /\ \A i \in 1 .. INSTRS_PER_BLOCK :
                 BlockWords(s, b + 1)[i] = s[b * INSTRS_PER_BLOCK + i]
<1>1. PICK x \in Nat : x = b * INSTRS_PER_BLOCK
  BY Parameters
<1>2. (b + 1) * INSTRS_PER_BLOCK = x + INSTRS_PER_BLOCK
  BY <1>1, Parameters
<1>3. BlockWords(s, b + 1) = SubSeq(s, x + 1, x + INSTRS_PER_BLOCK)
  <2>1. (b + 1) - 1 = b
    OBVIOUS
  <2>2. QED
    BY <1>1, <1>2, <2>1 DEF BlockWords
<1>4. SubSeq(s, x + 1, x + INSTRS_PER_BLOCK)
      = [i \in 1 .. (1 + (x + INSTRS_PER_BLOCK) - (x + 1)) |-> s[i + (x + 1) - 1]]
  BY Parameters
<1>5. 1 + (x + INSTRS_PER_BLOCK) - (x + 1) = INSTRS_PER_BLOCK
  BY Parameters
<1>6. \A i \in 1 .. INSTRS_PER_BLOCK : i + (x + 1) - 1 = x + i
  BY Parameters
<1>7. QED
  BY <1>1, <1>3, <1>4, <1>5, <1>6

LEMMA PlainIs ==
    ASSUME NEW text, NEW data, Words(text, data), NEW m, m = plain_image(text, data)
    PROVE  /\ Mem(m)
           /\ \A w \in 0 .. DataEndOf(text, data) - SEC_HDR_WORDS - 1 :
                /\ BlockOf(SEC_HDR_WORDS) + BlockOf(w) \in BlockOf(SEC_HDR_WORDS) .. BlockOf(DataEndOf(text, data)) - 1
                /\ m[BlockOf(SEC_HDR_WORDS) + BlockOf(w)].words[SlotOf(w)] = All(text, data)[w + 1]
<1>1. /\ DataEndOf(text, data) \in Nat /\ Aligned(DataEndOf(text, data))
      /\ SEC_HDR_WORDS <= DataEndOf(text, data) /\ DataEndOf(text, data) <= MEM_SIZE
  BY SizesAre, Parameters DEF Words
<1>2. PICK S : All(text, data) \in Seq(S)
  BY AllIs
<1>3. PICK d \in Nat : d = DataEndOf(text, data) - SEC_HDR_WORDS
  BY <1>1, Parameters
<1>4. Len(All(text, data)) = d
  BY <1>3, AllIs
<1>5. PICK f \in Nat, n \in Nat : f = BlockOf(SEC_HDR_WORDS) /\ n = BlockOf(d)
  BY WordIs, Parameters
<1>6. BlockOf(DataEndOf(text, data)) = f + n
  <2>1. DataEndOf(text, data) = SEC_HDR_WORDS + d
    BY <1>1, <1>3, Parameters
  <2>2. QED
    BY <2>1, <1>5, Offset, Parameters DEF Aligned
<1>7. f + n <= BlockOf(MEM_SIZE)
  BY <1>1, <1>6, Monotone, Parameters
<1>8. d = n * INSTRS_PER_BLOCK
  <2>1. Aligned(d)
    <3>1. SlotOf(SEC_HDR_WORDS + d) = SlotOf(d) /\ DataEndOf(text, data) = SEC_HDR_WORDS + d
      BY Offset, <1>1, <1>3, Parameters DEF Aligned
    <3>2. d % INSTRS_PER_BLOCK \in Int /\ (SEC_HDR_WORDS + d) % INSTRS_PER_BLOCK \in Int
      BY Parameters
    <3>3. QED
      BY <3>1, <3>2, <1>1 DEF SlotOf, Aligned
  <2>2. QED
    BY <2>1, <1>5, AtBlock
<1>9. ASSUME NEW b \in Blocks
      PROVE  /\ DOMAIN m[b] = {"key", "words", "hid"} /\ DOMAIN m[b].words = 1 .. INSTRS_PER_BLOCK
             /\ b < f + n => \A i \in 1 .. INSTRS_PER_BLOCK :
                                m[b].words[i] = All(text, data)[(b - f) * INSTRS_PER_BLOCK + i]
  <2>1. PICK c \in Nat : c = b - f
    BY <1>5, BlocksAre DEF Blocks
  <2>2. m[b] = IF c < n THEN PlainBlock(BlockWords(All(text, data), c + 1)) ELSE ZeroBlock
    <3>1. Len(All(text, data)) \div INSTRS_PER_BLOCK = n
      BY <1>4, <1>5 DEF BlockOf
    <3>2. QED
      BY <3>1, <2>1, <1>5, Parameters DEF plain_image, All
  <2>3. CASE c < n
    <3>1. (c + 1) * INSTRS_PER_BLOCK <= d
      <4>1. PICK e \in Nat : n = c + 1 + e
        BY <2>3, n - c - 1 \in Nat
      <4>2. n * INSTRS_PER_BLOCK = (c + 1) * INSTRS_PER_BLOCK + e * INSTRS_PER_BLOCK
        BY <4>1, Parameters
      <4>3. e * INSTRS_PER_BLOCK \in Nat /\ (c + 1) * INSTRS_PER_BLOCK \in Nat
        BY <4>1, Parameters
      <4>4. QED
        BY <4>2, <4>3, <1>8
    <3>2. /\ DOMAIN BlockWords(All(text, data), c + 1) = 1 .. INSTRS_PER_BLOCK
          /\ \A i \in 1 .. INSTRS_PER_BLOCK :
                BlockWords(All(text, data), c + 1)[i] = All(text, data)[c * INSTRS_PER_BLOCK + i]
      BY <3>1, <1>2, <1>4, BlockWordsAre
    <3>3. m[b] = PlainBlock(BlockWords(All(text, data), c + 1))
      BY <2>2, <2>3
    <3>4. DOMAIN m[b] = {"key", "words", "hid"} /\ m[b].words = BlockWords(All(text, data), c + 1)
      BY <3>3 DEF PlainBlock
    <3>5. QED
      BY <2>1, <3>2, <3>4
  <2>4. CASE ~(c < n)
    <3>1. m[b] = ZeroBlock
      BY <2>2, <2>4
    <3>2. ~(b < f + n)
      BY <2>1, <2>4, BlocksAre
    <3>3. QED
      BY <3>1, <3>2, FreshIs
  <2>5. QED
    BY <2>3, <2>4
<1>10. DOMAIN m = Blocks
  BY DEF plain_image
<1>11. ASSUME NEW w \in 0 .. d - 1
       PROVE  f + BlockOf(w) \in f .. f + n - 1
              /\ m[f + BlockOf(w)].words[SlotOf(w)] = All(text, data)[w + 1]
  <2>1. w \in Nat /\ BlockOf(w) \in Nat /\ SlotOf(w) \in 1 .. INSTRS_PER_BLOCK
        /\ w = BlockOf(w) * INSTRS_PER_BLOCK + SlotOf(w) - 1
    BY WordIs
  <2>2. BlockOf(w) < n
    <3>1. Aligned(d)
      BY <1>8, BlockIsAligned
    <3>2. w < d
      OBVIOUS
    <3>3. QED
      BY <3>1, <3>2, <2>1, <1>5, Below
  <2>3. f + BlockOf(w) \in Blocks
    BY <2>1, <2>2, <1>5, <1>7, BlocksAre DEF Blocks
  <2>4. (f + BlockOf(w)) - f = BlockOf(w)
    BY <2>1
  <2>5. m[f + BlockOf(w)].words[SlotOf(w)] = All(text, data)[BlockOf(w) * INSTRS_PER_BLOCK + SlotOf(w)]
    <3>1. f + BlockOf(w) < f + n
      BY <2>1, <2>2
    <3>2. QED
      BY <3>1, <2>1, <2>3, <2>4, <1>9
  <2>6. BlockOf(w) * INSTRS_PER_BLOCK + SlotOf(w) = w + 1
    <3>1. BlockOf(w) * INSTRS_PER_BLOCK \in Nat
      BY <2>1, Parameters
    <3>2. QED
      BY <3>1, <2>1, Parameters
  <2>7. QED
    BY <2>1, <2>2, <2>5, <2>6
<1>12. Mem(m)
  BY <1>9, <1>10 DEF Mem
<1>13. QED
  BY <1>3, <1>5, <1>6, <1>11, <1>12
-----------------------------------------------------------------------------
(* The encryptor.                                                            *)

LEMMA HeaderIs ==
    ASSUME NEW text, NEW data, Words(text, data), NEW s, Settings(s, text, data),
           s.epoch \in Epochs, s.epoch # 0,
           NEW key, NEW h, h = WithNonce(AlignData(ClampData(ClampText(s))), key)
    PROVE  /\ Settings(h, text, data) /\ h.epoch = s.epoch /\ h.nonce[2] = key
           /\ h.nonce = NonceOf(text, data, s.epoch, key)
           /\ secure_decode_header(h) /\ OwnText(h)
<1>1. /\ Len(text) \in Nat /\ Len(data) \in Nat
      /\ TextEndOf(text) \in Nat /\ Aligned(TextEndOf(text))
      /\ SEC_HDR_WORDS + Len(text) <= TextEndOf(text) /\ TextEndOf(text) <= MEM_SIZE
      /\ DataEndOf(text, data) \in Nat /\ Aligned(DataEndOf(text, data))
      /\ TextEndOf(text) + Len(data) <= DataEndOf(text, data) /\ DataEndOf(text, data) <= MEM_SIZE
  BY SizesAre DEF Words
<1>2. PICK t : t = AlignData(ClampData(ClampText(s)))
  OBVIOUS
<1>3. Hdr(t) /\ Same(s, t, HFields)
  <2>1. /\ Hdr(s) /\ SEC_HDR_WORDS <= s.text_start /\ s.text_start <= s.text_end
        /\ s.text_end <= MEM_SIZE /\ s.text_words <= s.text_end - s.text_start
        /\ s.text_end <= s.data_start /\ s.data_start <= s.data_end /\ s.data_end <= MEM_SIZE
        /\ s.data_words <= s.data_end - s.data_start
        /\ Aligned(s.data_start) /\ Aligned(s.data_end)
    BY <1>1, Parameters DEF Settings
  <2>2. QED
    BY <2>1, <1>2, SettingsStay
<1>4. h = [t EXCEPT !.magic = TRUE, !.nonce = secure_derive_nonce(key, t)]
  BY <1>2 DEF WithNonce
<1>5. /\ DOMAIN h = HFields /\ h.magic = TRUE /\ h.nonce = secure_derive_nonce(key, t)
      /\ Same(t, h, HFields \ {"magic", "nonce"})
  BY <1>3, <1>4 DEF Hdr, HFields, Same
<1>6. h.nonce[2] = key
  BY <1>5 DEF secure_derive_nonce
<1>7. /\ h.text_start = s.text_start /\ h.text_words = s.text_words /\ h.text_end = s.text_end
      /\ h.data_start = s.data_start /\ h.data_words = s.data_words /\ h.data_end = s.data_end
      /\ h.data_flags = s.data_flags /\ h.policy = s.policy /\ h.epoch = s.epoch
  BY <1>3, <1>5 DEF HFields, Same
<1>8. Hdr(h)
  BY <1>3, <1>5 DEF Hdr, HFields, Same, Numbers
<1>9. Settings(h, text, data)
  BY <1>7, <1>8 DEF Settings
<1>10. OwnText(h)
  BY <1>7, <1>9 DEF OwnText, Settings
<1>11. Aligned(kTextStartAddr)
  BY Parameters DEF Aligned
<1>12. secure_decode_header(h)
  BY <1>1, <1>5, <1>7, <1>9, <1>11, Parameters DEF Settings, secure_decode_header
<1>13. h.nonce = NonceOf(text, data, s.epoch, key)
  <2>1. PICK start, n, end, d, top, e, yes :
               /\ start = kTextStartAddr /\ n = Len(text) /\ end = TextEndOf(text) /\ d = Len(data)
               /\ top = DataEndOf(text, data) /\ e = s.epoch /\ yes = TRUE
    OBVIOUS
  <2>2. /\ t.policy = yes /\ t.text_start = start /\ t.text_words = n
        /\ t.text_end = end /\ t.data_start = end /\ t.data_words = d
        /\ t.data_end = top /\ t.data_flags = yes /\ t.epoch = e
    BY <2>1, <1>3, <1>7 DEF Same, HFields, Settings
  <2>3. Fields(t) = <<yes, start, n, end, end, d, top, yes, e>>
    BY <2>2 DEF Fields
  <2>4. Tail(<<yes, start, n, end, end, d, top, yes, e>>) = <<start, n, end, end, d, top, yes, e>>
    OBVIOUS
  <2>5. h.nonce = <<"nonce", key, <<start, n, end, end, d, top, yes, e>>>>
    BY <2>3, <2>4, <1>5 DEF secure_derive_nonce
  <2>6. QED
    BY <2>1, <2>5 DEF NonceOf
<1>14. QED
  BY <1>6, <1>7, <1>9, <1>10, <1>12, <1>13

\* A block that was encrypted.
Enciphered(new, old, key) == new.key = key /\ new.words = old.words /\ new.hid = <<>>

LEMMA TextEncrypted ==
    ASSUME NEW p, DOMAIN p = PFields, Mem(p.mem), p.map = <<>>, NEW key,
           NEW h, Hdr(h), secure_decode_header(h), OwnText(h),
           h.text_start = p.set.text_start, h.text_end = p.set.text_end, h.epoch = p.set.epoch,
           NEW q, q = encrypt_text_region_mapped(p, h.text_end, key)
    PROVE  /\ DOMAIN q = PFields /\ Mem(q.mem) /\ Same(p, q, PFields \ {"mem"})
           /\ \A b \in TextBlocks(h) : Enciphered(q.mem[Place(h, b)], p.mem[b], key)
           /\ Same(p.mem, q.mem, Blocks \ TextBlocks(h))
<1> DEFINE from(b) == {l \in Blocks : l < BlockOf(h.text_end) /\ secure_map_text_block(p, l) = b}
           source(b) == CHOOSE l \in from(b) : \A k \in from(b) : k <= l
           block(b) == IF b >= BlockOf(h.text_end) THEN p.mem[b]
                       ELSE IF from(b) = {} THEN p.mem[b]
                       ELSE aes_encrypt_block(p.mem[source(b)].words, key)
<1>1. q = [p EXCEPT !.mem = [b \in Blocks |-> block(b)]]
  BY DEF encrypt_text_region_mapped
<1>2. \A l : secure_map_text_block(p, l) = Place(h, l)
  BY DEF secure_map_text_block, Place, Params
<1>3. TextBlocks(h) = {l \in Blocks : l < BlockOf(h.text_end)}
  <2>1. BlockOf(h.text_start) = BlockOf(SEC_HDR_WORDS)
    BY Parameters DEF OwnText
  <2>2. BlockOf(h.text_end) \in Nat /\ TextBlocks(h) \subseteq Blocks
    BY RegionBlocks
  <2>3. QED
    BY <2>1, <2>2, BlocksAre DEF TextBlocks, Blocks
<1>4. \A b : from(b) = {l \in TextBlocks(h) : Place(h, l) = b}
  BY <1>2, <1>3
<1>5. TextBlocks(h) \subseteq Blocks /\ TextBlocks(h) \subseteq Int /\ BlockOf(h.text_end) \in Nat
  BY RegionBlocks DEF TextBlocks
<1>6. ASSUME NEW b \in TextBlocks(h)
      PROVE  /\ Place(h, b) \in TextBlocks(h)
             /\ block(Place(h, b)) = aes_encrypt_block(p.mem[b].words, key)
  <2>1. Place(h, b) \in TextBlocks(h)
    BY PlaceIs
  <2>2. from(Place(h, b)) = {b}
    <3>1. from(Place(h, b)) = {l \in TextBlocks(h) : Place(h, l) = Place(h, b)}
      BY <1>4
    <3>2. \A l \in TextBlocks(h) : Place(h, l) = Place(h, b) => l = b
      BY PlaceIs
    <3> HIDE DEF from
    <3>3. QED
      BY <3>1, <3>2
  <2>3. source(Place(h, b)) = b
    BY <2>2, <1>5
  <2>4. ~(Place(h, b) >= BlockOf(h.text_end))
    BY <2>1, <1>3, <1>5
  <2>5. QED
    BY <2>1, <2>2, <2>3, <2>4
<1>7. ASSUME NEW b \in Blocks \ TextBlocks(h) PROVE block(b) = p.mem[b]
  BY <1>3, <1>5, BlocksAre
<1>8. ASSUME NEW b \in Blocks
      PROVE  DOMAIN block(b) = {"key", "words", "hid"} /\ DOMAIN block(b).words = 1 .. INSTRS_PER_BLOCK
  <2>1. CASE block(b) = p.mem[b]
    BY <2>1 DEF Mem
  <2>2. CASE from(b) # {} /\ block(b) = aes_encrypt_block(p.mem[source(b)].words, key)
    <3>1. PICK l \in TextBlocks(h) : Place(h, l) = b
      BY <2>2, <1>4
    <3>2. block(b) = aes_encrypt_block(p.mem[l].words, key)
      BY <3>1, <1>6
    <3>3. DOMAIN p.mem[l].words = 1 .. INSTRS_PER_BLOCK
      BY <1>5 DEF Mem
    <3> HIDE DEF block
    <3>4. QED
      BY <3>2, <3>3 DEF aes_encrypt_block
  <2>3. QED
    BY <2>1, <2>2
<1> HIDE DEF block
<1>9. DOMAIN q = PFields /\ q.mem = [b \in Blocks |-> block(b)] /\ Same(p, q, PFields \ {"mem"})
  BY <1>1 DEF PFields, Same
<1>10. Mem(q.mem)
  BY <1>8, <1>9 DEF Mem
<1>11. \A b \in TextBlocks(h) : Enciphered(q.mem[Place(h, b)], p.mem[b], key)
  BY <1>5, <1>6, <1>9 DEF Enciphered, aes_encrypt_block
<1>12. QED
  BY <1>7, <1>9, <1>10, <1>11 DEF Same

LEMMA DataEncrypted ==
    ASSUME NEW p, DOMAIN p = PFields, Mem(p.mem), NEW key, NEW h, Hdr(h), secure_decode_header(h),
           NEW q, q = encrypt_data_region_in_place(p, h.data_start, h.data_end, key)
    PROVE  /\ DOMAIN q = PFields /\ Mem(q.mem) /\ Same(p, q, PFields \ {"mem"})
           /\ \A b \in DataRegion(h) : Enciphered(q.mem[b], p.mem[b], key)
           /\ Same(p.mem, q.mem, Blocks \ DataRegion(h))
<1> DEFINE block(b) == IF b >= BlockOf(h.data_start) /\ b < BlockOf(h.data_end)
                       THEN aes_encrypt_block(p.mem[b].words, key) ELSE p.mem[b]
<1>1. q = [p EXCEPT !.mem = [b \in Blocks |-> block(b)]]
  BY DEF encrypt_data_region_in_place
<1>2. DataRegion(h) \subseteq Blocks /\ BlockOf(h.data_start) \in Nat /\ BlockOf(h.data_end) \in Nat
  BY RegionBlocks
<1>3. /\ \A b \in DataRegion(h) : block(b) = aes_encrypt_block(p.mem[b].words, key)
      /\ \A b \in Blocks \ DataRegion(h) : block(b) = p.mem[b]
  BY <1>2, BlocksAre DEF DataRegion
<1> HIDE DEF block
<1>4. DOMAIN q = PFields /\ q.mem = [b \in Blocks |-> block(b)] /\ Same(p, q, PFields \ {"mem"})
  BY <1>1 DEF PFields, Same
<1>5. \A b \in DataRegion(h) : Enciphered(q.mem[b], p.mem[b], key)
                               /\ DOMAIN q.mem[b] = {"key", "words", "hid"}
  BY <1>2, <1>3, <1>4 DEF Enciphered, aes_encrypt_block
<1>6. \A b \in Blocks \ DataRegion(h) : q.mem[b] = p.mem[b]
  BY <1>3, <1>4
<1>7. Mem(q.mem)
  BY <1>4, <1>5, <1>6 DEF Mem, Enciphered
<1>8. QED
  BY <1>4, <1>5, <1>6, <1>7 DEF Same

\* There is no place for the key when the text takes all of the memory.
LEMMA NoPlace ==
    ASSUME NEW nonce
    PROVE  secure_generate_positions(nonce, kTextStartAddr, MEM_SIZE) = {}
<1>1. ASSUME NEW b \in secure_generate_positions(nonce, kTextStartAddr, MEM_SIZE)
      PROVE  FALSE
  <2>1. PICK w \in HideLow .. MEM_SIZE - 1 : ~(w >= kTextStartAddr /\ w < MEM_SIZE)
    BY <1>1, PlacedAre
  <2>2. QED
    BY <2>1, HideLowIs, Parameters
<1>2. QED
  BY <1>1

\* What opening an image gives.
LEMMA OpenIs ==
    ASSUME NEW p, Process(p), NEW x, x = extract_key_from_large_block(p)
    PROVE  /\ x.rc = 0 <=> KeyGood(p) /\ ImageTag(p) = p.hdr.img_tag
           /\ x.rc = 0 => x.p = Adopted(p) /\ x.key = UnwrapKey(p.hdr.wrapped, SessionKey(p))
           /\ x.rc # 0 => x.p = lockSecurity(p)
           /\ \A key : SealedBy(p, key) => x.rc = 0 /\ x.key = key
<1>1. PICK v : v = secure_validate_image(p)
  OBVIOUS
<1>2. /\ v.rc = 0 <=> KeyGood(p) /\ ImageTag(p) = p.hdr.img_tag
      /\ v.rc = 0 => v.p = Adopted(p)
      /\ v.rc # 0 => v.p = lockSecurity(p)
  BY <1>1, ValidateIs
<1>3. x = [rc |-> v.rc, p |-> v.p,
           key |-> IF v.rc = 0 THEN UnwrapKey(v.p.hdr.wrapped, SessionKey(v.p)) ELSE NoKey]
  BY <1>1 DEF extract_key_from_large_block, Extracted
<1>4. x.rc = v.rc /\ x.p = v.p
      /\ (v.rc = 0 => x.key = UnwrapKey(v.p.hdr.wrapped, SessionKey(v.p)))
  BY <1>3
<1>5. v.rc = 0 => v.p.hdr = p.hdr /\ SessionKey(v.p) = SessionKey(p)
  <2>1. PICK a : a = Adopted(p)
    OBVIOUS
  <2>2. a.hdr = p.hdr /\ a.mem = p.mem
    BY <2>1, AdoptIs DEF Same, PFields
  <2>3. SessionKey(a) = SessionKey(p)
    BY <2>2, SameImage
  <2>4. QED
    BY <2>1, <2>2, <2>3, <1>2
<1>6. ASSUME NEW key, SealedBy(p, key) PROVE x.rc = 0 /\ x.key = key
  <2>1. v.rc = 0 /\ x.key = UnwrapKey(WrapKey(key, SessionKey(p)), SessionKey(p))
    BY <1>2, <1>4, <1>5, <1>6 DEF SealedBy
  <2>2. QED
    BY <2>1, <1>4 DEF UnwrapKey, WrapKey
<1>7. QED
  BY <1>2, <1>4, <1>5, <1>6

LEMMA SealedSame ==
    ASSUME NEW p, NEW q, q.hdr = p.hdr, q.mem = p.mem, NEW key, SealedBy(p, key)
    PROVE  SealedBy(q, key)
  BY SameImage DEF SealedBy

\* An image that was sealed passes the encryptor's two checks.
LEMMA VerifiedIs ==
    ASSUME NEW s, s.rc = 0, Process(s.p), NEW key, SealedBy(s.p, key)
    PROVE  seal_and_verify(s, key) = <<[hdr |-> s.p.hdr, mem |-> s.p.mem]>>
<1>1. PICK v : v = secure_validate_image(s.p)
  OBVIOUS
<1>2. v.rc = 0 /\ v.p = Adopted(s.p)
  BY <1>1, ValidateIs DEF SealedBy
<1>3. Process(v.p) /\ v.p.hdr = s.p.hdr /\ v.p.mem = s.p.mem
  BY <1>2, AdoptIs DEF Same, PFields
<1>4. PICK x : x = extract_key_from_large_block(v.p)
  OBVIOUS
<1>5. x.rc = 0 /\ x.key = key /\ x.p = Adopted(v.p)
  BY <1>3, <1>4, OpenIs, SealedSame
<1>6. x.p.hdr = s.p.hdr /\ x.p.mem = s.p.mem
  BY <1>3, <1>5, AdoptIs DEF Same, PFields
<1>7. seal_and_verify(s, key) = <<[hdr |-> x.p.hdr, mem |-> x.p.mem]>>
  BY <1>1, <1>2, <1>4, <1>5 DEF seal_and_verify, verify_sealed, verify_wrapped_key_roundtrip
<1>8. QED
  BY <1>6, <1>7

\* What the encryptor writes: the encrypted text at its places, the encrypted data, over
\* which bits of the key may be hidden.
Made(g, text, data, key) ==
    /\ Image(g) /\ Settings(g.hdr, text, data) /\ OwnText(g.hdr) /\ g.hdr.nonce[2] = key
    /\ SealedBy(g, key)
    /\ \A b \in TextBlocks(g.hdr) :
          Enciphered(g.mem[Place(g.hdr, b)], plain_image(text, data)[b], key)
    /\ \A b \in DataRegion(g.hdr) \ Positions(g.hdr) :
          Enciphered(g.mem[b], plain_image(text, data)[b], key)

LEMMA EncryptorIs ==
    ASSUME NEW text, NEW data, Words(text, data), NEW key, NEW epoch \in EpochOptions,
           NEW f, f = encryptor(text, data, epoch, key)
    PROVE  /\ PlacesOf(text, data, epoch, key) = {} => f = <<>>
           /\ PlacesOf(text, data, epoch, key) # {} => f = <<f[1]>> /\ Made(f[1], text, data, key)
<1>1. PICK m : m = plain_image(text, data)
  OBVIOUS
<1>2. Mem(m)
  BY <1>1, PlainIs
<1>3. PICK p0 : p0 = [Fresh EXCEPT !.mem = m]
  OBVIOUS
<1>4. DOMAIN p0 = PFields /\ p0.mem = m /\ p0.set = Fresh.set
  BY <1>3, FreshIs DEF Process, PFields
<1>5. PICK p1 : p1 = secure_set_image_region(p0, kTextStartAddr, Len(text), TextEndOf(text))
  OBVIOUS
<1>6. PICK p2 : p2 = secure_set_data_region(p1, TextEndOf(text), Len(data), DataEndOf(text, data), TRUE)
  OBVIOUS
<1>7. DOMAIN p2 = PFields /\ p2.mem = m /\ p2.map = <<>> /\ Settings(p2.set, text, data)
  <2>1. DOMAIN p0 = PFields /\ p0.set = Fresh.set
    BY <1>4
  <2>2. DOMAIN p2 = PFields /\ Same(p0, p2, {"mem", "hdr"}) /\ p2.map = <<>> /\ Settings(p2.set, text, data)
    BY <2>1, <1>5, <1>6, RegionSet
  <2>3. QED
    BY <2>2, <1>4 DEF Same
<1>8. PICK p3 : p3 = secure_set_mapping_epoch(p2, EpochOf(text, data, epoch))
  OBVIOUS
<1>9. /\ DOMAIN p3 = PFields /\ p3.mem = m /\ p3.map = <<>>
      /\ Settings(p3.set, text, data) /\ p3.set.epoch \in Epochs /\ p3.set.epoch # 0
      /\ p3.set.epoch = EpochOf(text, data, epoch)
  BY <1>7, <1>8, EpochSet
<1>10. PICK h : h = WithNonce(AlignData(ClampData(ClampText(p3.set))), key)
  OBVIOUS
<1>11. /\ Settings(h, text, data) /\ h.epoch = p3.set.epoch /\ h.nonce[2] = key
       /\ h.nonce = NonceOf(text, data, p3.set.epoch, key)
       /\ secure_decode_header(h) /\ OwnText(h)
  BY <1>9, <1>10, HeaderIs
<1>12. /\ Hdr(h) /\ h.text_start = p3.set.text_start /\ h.text_end = p3.set.text_end
       /\ h.text_end = TextEndOf(text) /\ h.data_start = TextEndOf(text)
       /\ h.data_end = DataEndOf(text, data) /\ h.text_start = kTextStartAddr
  BY <1>9, <1>11 DEF Settings
<1>13. PICK p5 : p5 = encrypt_text_region_mapped(p3, TextEndOf(text), key)
  OBVIOUS
<1>14. /\ DOMAIN p5 = PFields /\ Mem(p5.mem) /\ Same(p3, p5, PFields \ {"mem"})
       /\ \A b \in TextBlocks(h) : Enciphered(p5.mem[Place(h, b)], m[b], key)
       /\ \A b \in Blocks \ TextBlocks(h) : p5.mem[b] = m[b]
  <2>1. /\ DOMAIN p3 = PFields /\ Mem(p3.mem) /\ p3.map = <<>>
        /\ Hdr(h) /\ secure_decode_header(h) /\ OwnText(h)
        /\ h.text_start = p3.set.text_start /\ h.text_end = p3.set.text_end /\ h.epoch = p3.set.epoch
        /\ p5 = encrypt_text_region_mapped(p3, h.text_end, key)
    BY <1>2, <1>9, <1>11, <1>12, <1>13
  <2>2. /\ DOMAIN p5 = PFields /\ Mem(p5.mem) /\ Same(p3, p5, PFields \ {"mem"})
        /\ \A b \in TextBlocks(h) : Enciphered(p5.mem[Place(h, b)], p3.mem[b], key)
        /\ Same(p3.mem, p5.mem, Blocks \ TextBlocks(h))
    BY <2>1, TextEncrypted
  <2>3. QED
    BY <2>2, <1>9 DEF Same
<1>15. PICK p4 : p4 = encrypt_data_region_in_place(p5, TextEndOf(text), DataEndOf(text, data), key)
  OBVIOUS
<1>16. /\ DOMAIN p4 = PFields /\ Mem(p4.mem) /\ Same(p5, p4, PFields \ {"mem"})
       /\ \A b \in DataRegion(h) : Enciphered(p4.mem[b], p5.mem[b], key)
       /\ \A b \in Blocks \ DataRegion(h) : p4.mem[b] = p5.mem[b]
  <2>1. /\ DOMAIN p5 = PFields /\ Mem(p5.mem) /\ Hdr(h) /\ secure_decode_header(h)
        /\ p4 = encrypt_data_region_in_place(p5, h.data_start, h.data_end, key)
    BY <1>11, <1>12, <1>14, <1>15
  <2>2. /\ DOMAIN p4 = PFields /\ Mem(p4.mem) /\ Same(p5, p4, PFields \ {"mem"})
        /\ \A b \in DataRegion(h) : Enciphered(p4.mem[b], p5.mem[b], key)
        /\ Same(p5.mem, p4.mem, Blocks \ DataRegion(h))
    BY <2>1, DataEncrypted
  <2>3. QED
    BY <2>2 DEF Same
<1>17. p4.set = p3.set
  BY <1>14, <1>16 DEF Same, PFields
<1>18. PICK x : x = create_large_block_with_key(p4, key)
  OBVIOUS
<1>19. f = seal_and_verify(x, key)
  <2>1. ~(text = <<>> \/ TextEndOf(text) > MEM_SIZE \/ DataEndOf(text, data) > MEM_SIZE)
    BY SizesAre, Parameters DEF Words
  <2>2. f = IF text = <<>> \/ TextEndOf(text) > MEM_SIZE \/ DataEndOf(text, data) > MEM_SIZE THEN <<>>
            ELSE seal_and_verify(x, key)
    BY <1>1, <1>3, <1>5, <1>6, <1>8, <1>13, <1>15, <1>18
    DEF encryptor, TextEndOf, DataEndOf, EpochOf
  <2>3. QED
    BY <2>1, <2>2
<1>20. /\ Positions(h) = {} => x.rc # 0
       /\ Positions(h) # {} =>
            /\ x.rc = 0 /\ Process(x.p) /\ SealedBy(x.p, key)
            /\ Same(h, x.p.hdr, HFields \ Terms)
            /\ x.p.mem = secure_hide_wrapped(p4.mem, Positions(h), x.p.hdr.wrapped)
  <2>1. /\ DOMAIN p4 = PFields /\ Mem(p4.mem) /\ Hdr(h) /\ secure_decode_header(h) /\ OwnText(h)
        /\ h = WithNonce(AlignData(ClampData(ClampText(p4.set))), key)
    BY <1>10, <1>11, <1>12, <1>16, <1>17
  <2>2. QED
    BY <2>1, <1>18, SealIs
<1>21. Positions(h) = PlacesOf(text, data, epoch, key)
  <2>1. /\ h.text_start = kTextStartAddr /\ h.text_end = TextEndOf(text)
        /\ h.nonce = NonceOf(text, data, EpochOf(text, data, epoch), key)
    BY <1>9, <1>11, <1>12
  <2>2. QED
    BY <2>1 DEF Positions, PlacesOf
<1>22. CASE Positions(h) = {}
  BY <1>19, <1>20, <1>21, <1>22 DEF seal_and_verify
<1>23. CASE Positions(h) # {}
  <2>1. PICK g : g = [hdr |-> x.p.hdr, mem |-> x.p.mem]
    OBVIOUS
  <2>2. g.hdr = x.p.hdr /\ g.mem = x.p.mem
    BY <2>1
  <2>3. f = <<g>>
    BY <2>1, <1>19, <1>20, <1>23, VerifiedIs
  <2>4. Image(g) /\ SealedBy(g, key)
    BY <2>1, <2>2, <1>20, <1>23, SealedSame DEF Image, Process
  <2>5. Same(h, g.hdr, HFields \ Terms)
    BY <2>2, <1>20, <1>23
  <2>6. /\ TextBlocks(g.hdr) = TextBlocks(h) /\ DataRegion(g.hdr) = DataRegion(h)
        /\ Positions(g.hdr) = Positions(h) /\ Params(g.hdr) = Params(h)
        /\ OwnText(g.hdr) /\ g.hdr.nonce[2] = key
    BY <2>4, <2>5, <1>11, <1>12, SameHeader DEF Image
  <2>7. Settings(g.hdr, text, data)
    BY <2>4, <2>5, <1>11 DEF Settings, Same, HFields, Terms, Image
  <2>8. Positions(h) \subseteq Blocks \ TextBlocks(h)
    BY <1>11, <1>12, PositionsAre
  <2>9. \A b \in Blocks \ Positions(h) : g.mem[b] = p4.mem[b]
    <3>1. Positions(h) \in SUBSET Blocks /\ Mem(p4.mem)
      BY <2>8, <1>16
    <3>2. g.mem = secure_hide_wrapped(p4.mem, Positions(h), x.p.hdr.wrapped)
      BY <2>2, <1>20, <1>23
    <3>3. QED
      BY <3>1, <3>2, HideIs
  <2>10. /\ TextBlocks(h) \subseteq Blocks /\ DataRegion(h) \subseteq Blocks
         /\ TextBlocks(h) \cap DataRegion(h) = {}
    BY <1>11, <1>12, RegionBlocks
  <2>11. ASSUME NEW b \in TextBlocks(h)
         PROVE  Enciphered(g.mem[Place(g.hdr, b)], m[b], key)
    <3>1. Place(g.hdr, b) = Place(h, b) /\ Place(h, b) \in TextBlocks(h)
      BY <2>6, <1>11, <1>12, PlaceIs DEF Place
    <3>2. g.mem[Place(h, b)] = p5.mem[Place(h, b)]
      BY <3>1, <2>8, <2>9, <2>10, <1>16
    <3>3. QED
      BY <3>1, <3>2, <1>14
  <2>12. ASSUME NEW b \in DataRegion(h) \ Positions(h) PROVE Enciphered(g.mem[b], m[b], key)
    <3>1. g.mem[b] = p4.mem[b] /\ p5.mem[b] = m[b]
      BY <2>9, <2>10, <1>14
    <3>2. QED
      BY <3>1, <1>16
  <2>13. Made(g, text, data, key)
    BY <2>4, <2>6, <2>7, <2>11, <2>12, <1>1 DEF Made
  <2>14. QED
    BY <2>3, <2>13, <1>21, <1>23
<1>24. QED
  BY <1>22, <1>23
-----------------------------------------------------------------------------
(* What the assembler accepts, the encryptor seals.                          *)

\* The files that were written passed the assembler's check.
Fits == hex.ok => validate_output_size(hex.text, hex.data)

LEMMA AcceptedWords ==
    ASSUME HexFiles, Fits, hex.ok
    PROVE  Words(hex.text, hex.data)
<1>1. hex.text \in Seq(Range(hex.text)) /\ hex.data \in Seq(Range(hex.data))
  BY DEF HexFiles
<1>2. hex.text # <<>>
  BY DEF Fits, validate_output_size
<1>3. /\ Len(hex.text) \in Nat /\ Len(hex.data) \in Nat
      /\ TextEndOf(hex.text) = SEC_HDR_WORDS + align_up_words(Len(hex.text))
      /\ DataEndOf(hex.text, hex.data) = TextEndOf(hex.text) + align_up_words(Len(hex.data))
  BY <1>1, <1>2, SizesAre
<1>4. align_up_words(Len(hex.text)) \in Nat /\ align_up_words(Len(hex.data)) \in Nat
  BY <1>3, AlignUp
<1>5. align_up_words(Len(hex.text)) + align_up_words(Len(hex.data)) <= MEM_SIZE - SEC_HDR_WORDS
  BY <1>3, AlignSame DEF Fits, validate_output_size, kAvailableWords
<1>6. QED
  BY <1>1, <1>2, <1>3, <1>4, <1>5, Parameters DEF Words

LEMMA FitsStep ==
    ASSUME Fits, [Next]_vars
    PROVE  Fits'
<1>1. CASE Assemble
  <2>1. PICK a : a = assemble(src)
    OBVIOUS
  <2>2. hex' = IF a.ok THEN a ELSE hex
    BY <1>1, <2>1 DEF Assemble
  <2>3. a.ok => validate_output_size(a.text, a.data)
    BY <2>1 DEF assemble
  <2>4. QED
    BY <2>2, <2>3 DEF Fits
<1>2. CASE ~Assemble
  <2>1. hex' = hex
    BY <1>2 DEF Next, vars, WriteLine, Encrypt, StartRun, Load, Store, Access, FinishRun, Decrypt,
                Restore, Damage
  <2>2. QED
    BY <2>1 DEF Fits
<1>3. QED
  BY <1>1, <1>2

LEMMA FitsAlways == Spec => []Fits
<1>1. Init => Fits
  BY DEF Init, Fits, NoHex
<1>2. QED
  BY <1>1, FitsStep, PTL DEF Spec

\* For every memory and block size, and whatever the generator draws: what the assembler
\* accepts the encryptor seals, with every key and epoch, exactly if the bounded search finds a
\* place for every bit of the key, and then the text does not end with the memory
\* (asm_to_hex.cpp, validate_output_size; encryptor.cpp, main; 3d.cpp,
\* secure_generate_positions).
THEOREM AssembledIsSealed == Spec /\ []HexFiles => []AcceptedIsSealed
<1>1. ASSUME HexFiles, Fits PROVE AcceptedIsSealed
  <2>1. SUFFICES ASSUME hex.ok, NEW key \in AppKeys, NEW epoch \in EpochOptions
                 PROVE  /\ (encryptor(hex.text, hex.data, epoch, key) # <<>>)
                           <=> PlacesOf(hex.text, hex.data, epoch, key) # {}
                        /\ encryptor(hex.text, hex.data, epoch, key) # <<>>
                           => TextEndOf(hex.text) < MEM_SIZE
    BY DEF AcceptedIsSealed, PlacesOf, NonceOf, EpochOf, TextEndOf, DataEndOf
  <2>2. Words(hex.text, hex.data)
    BY <1>1, <2>1, AcceptedWords
  <2>3. PICK f : f = encryptor(hex.text, hex.data, epoch, key)
    OBVIOUS
  <2>4. f # <<>> <=> PlacesOf(hex.text, hex.data, epoch, key) # {}
    BY <2>2, <2>3, EncryptorIs
  <2>5. TextEndOf(hex.text) \in Nat /\ TextEndOf(hex.text) <= MEM_SIZE
    BY <2>2, SizesAre DEF Words
  <2>6. TextEndOf(hex.text) = MEM_SIZE => PlacesOf(hex.text, hex.data, epoch, key) = {}
    BY NoPlace DEF PlacesOf
  <2>7. QED
    BY <2>3, <2>4, <2>5, <2>6, Parameters
<1>2. QED
  BY <1>1, FitsAlways, PTL
-----------------------------------------------------------------------------
(* The steps of a run.                                                       *)

CFields == {"running", "p", "key", "failed", "io", "opened", "now", "intact", "legal", "clean"}

\* A process after the first io words of a file were loaded.
Loaded(q, f, io) ==
    /\ Process(q) /\ q.locked = FALSE
    /\ secure_decode_header(q.hdr) => q.hdr = f.hdr
    /\ \A b \in Blocks : q.mem[b] = IF InFile(b, io) THEN f.mem[b] ELSE ZeroBlock
    /\ io = MEM_SIZE => q.hdr = f.hdr /\ Same(f.mem, q.mem, Blocks)

LEMMA LoadIs ==
    ASSUME NEW p, Process(p), NEW f, Image(f), NEW io \in Nat, NEW q, q = LoadImage(p, f, io)
    PROVE  Loaded(q, f, io)
<1> DEFINE h == IF io >= SEC_HDR_WORDS THEN f.hdr ELSE [f.hdr EXCEPT !.magic = FALSE]
           m == [b \in Blocks |-> IF InFile(b, io) THEN f.mem[b] ELSE ZeroBlock]
<1>1. q = [p EXCEPT !.hdr = h, !.mem = m, !.locked = FALSE, !.region = <<>>, !.map = <<>>]
  BY DEF LoadImage
<1>2. Hdr(h)
  <2>1. PICK g : g = [f.hdr EXCEPT !.magic = FALSE]
    OBVIOUS
  <2>2. DOMAIN g = HFields /\ Same(f.hdr, g, HFields \ {"magic"})
    BY <2>1 DEF Image, Hdr, HFields, Same
  <2>3. Hdr(g)
    BY <2>2 DEF Image, Hdr, HFields, Same, Numbers
  <2>4. QED
    BY <2>1, <2>3 DEF Image
<1>3. secure_decode_header(h) => h = f.hdr
  <2>1. PICK g : g = [f.hdr EXCEPT !.magic = FALSE]
    OBVIOUS
  <2>2. g.magic = FALSE
    BY <2>1 DEF Image, Hdr, HFields
  <2>3. QED
    BY <2>1, <2>2 DEF secure_decode_header
<1>4. Mem(m)
  BY FreshIs DEF Mem, Image
<1>5. io = MEM_SIZE => h = f.hdr /\ Same(f.mem, m, Blocks)
  <2>1. ASSUME io = MEM_SIZE PROVE h = f.hdr /\ \A b \in Blocks : m[b] = f.mem[b]
    <3>1. \A b \in Blocks : InFile(b, io)
      BY <2>1, BlocksAre DEF InFile
    <3>2. QED
      BY <2>1, <3>1, Parameters
  <2>2. QED
    BY <2>1 DEF Same
<1> HIDE DEF h, m
<1>6. DOMAIN q = PFields /\ q.hdr = h /\ q.mem = m /\ q.locked = FALSE
  BY <1>1 DEF Process, PFields
<1>7. \A b \in Blocks : m[b] = IF InFile(b, io) THEN f.mem[b] ELSE ZeroBlock
  BY DEF m
<1>8. QED
  BY <1>2, <1>3, <1>4, <1>5, <1>6, <1>7 DEF Process, Loaded

\* The CPU after the first fetch of a run on what was loaded.
Fetched(c, q, io, intact) ==
    /\ DOMAIN c = CFields /\ Process(c.p) /\ c.running \in BOOLEAN
    /\ c.io = io /\ c.intact = intact /\ c.legal = TRUE
    /\ c.running <=> KeyGood(q) /\ ImageTag(q) = q.hdr.img_tag
    /\ c.running => /\ c.p = Adopted(q) /\ c.p.locked = FALSE
                    /\ c.key = UnwrapKey(q.hdr.wrapped, SessionKey(q))
                    /\ c.opened = <<Content(c.p, c.key)>> /\ c.now = <<Content(c.p, c.key)>>
    /\ ~c.running => c.opened = <<>>

LEMMA FetchIs ==
    ASSUME NEW q, Process(q), q.locked = FALSE, NEW io, NEW intact,
           NEW c, c = FirstFetch(extract_key_from_large_block(q), io, intact)
    PROVE  Fetched(c, q, io, intact)
<1>1. PICK x : x = extract_key_from_large_block(q)
  OBVIOUS
<1>2. /\ x.rc = 0 <=> KeyGood(q) /\ ImageTag(q) = q.hdr.img_tag
      /\ x.rc = 0 => x.p = Adopted(q) /\ x.key = UnwrapKey(q.hdr.wrapped, SessionKey(q))
      /\ x.rc # 0 => x.p = lockSecurity(q)
  BY <1>1, OpenIs
<1>3. /\ Process(x.p) /\ (x.rc = 0 => x.p.locked = FALSE)
  <2>1. CASE x.rc = 0
    BY <2>1, <1>2, AdoptIs DEF Same, PFields
  <2>2. CASE x.rc # 0
    BY <2>2, <1>2, LockIs
  <2>3. QED
    BY <2>1, <2>2
<1> DEFINE ok == x.rc = 0 /\ ~x.p.locked
           seen == IF ~ok THEN <<>> ELSE <<Content(x.p, x.key)>>
<1>4. c = [running |-> ok, p |-> x.p, key |-> IF ok THEN x.key ELSE NoKey, failed |-> ~ok, io |-> io,
           opened |-> seen, now |-> seen, intact |-> intact, legal |-> TRUE, clean |-> FALSE]
  BY <1>1 DEF FirstFetch
<1>5. ok \in BOOLEAN /\ (ok <=> x.rc = 0)
  BY <1>3
<1>6. (ok => seen = <<Content(x.p, x.key)>>) /\ (~ok => seen = <<>>)
  OBVIOUS
<1> HIDE DEF ok, seen
<1>7. /\ DOMAIN c = CFields /\ c.running = ok /\ c.p = x.p /\ c.io = io /\ c.intact = intact
      /\ c.opened = seen /\ c.now = seen /\ c.legal = TRUE /\ (ok => c.key = x.key)
  BY <1>4 DEF CFields
<1>8. QED
  BY <1>2, <1>3, <1>5, <1>6, <1>7 DEF Fetched

\* A block in which one word was changed.
Rewritten(new, old, key, slot, v) ==
    new = aes_encrypt_block([aes_decrypt_block(old, key) EXCEPT ![slot] = v], key)

LEMMA WriteIs ==
    ASSUME NEW p, Process(p), NEW key, NEW w, BlockOf(w) \in Blocks, NEW v,
           NEW q, q = secure_write_encrypted_data_word(p, key, w, v)
    PROVE  /\ Process(q) /\ Same(p, q, PFields \ {"mem"}) /\ Same(p.mem, q.mem, Blocks \ {BlockOf(w)})
           /\ Rewritten(q.mem[BlockOf(w)], p.mem[BlockOf(w)], key, SlotOf(w), v)
<1>1. PICK new : new = aes_encrypt_block([aes_decrypt_block(p.mem[BlockOf(w)], key) EXCEPT ![SlotOf(w)] = v], key)
  OBVIOUS
<1>2. PICK m : m = [p.mem EXCEPT ![BlockOf(w)] = new]
  OBVIOUS
<1>3. DOMAIN p = PFields /\ DOMAIN p.mem = Blocks
  BY DEF Process, Mem
<1>4. q = [p EXCEPT !.mem = m]
  BY <1>1, <1>2, <1>3 DEF secure_write_encrypted_data_word, PFields
<1>5. DOMAIN q = PFields /\ q.mem = m /\ Same(p, q, PFields \ {"mem"})
  BY <1>3, <1>4 DEF PFields, Same
<1>6. DOMAIN m = Blocks /\ m[BlockOf(w)] = new /\ Same(p.mem, m, Blocks \ {BlockOf(w)})
  BY <1>2, <1>3 DEF Same
<1>7. DOMAIN new = {"key", "words", "hid"} /\ DOMAIN new.words = 1 .. INSTRS_PER_BLOCK
  <2>1. DOMAIN aes_decrypt_block(p.mem[BlockOf(w)], key) = 1 .. INSTRS_PER_BLOCK
    BY DEF aes_decrypt_block, Process, Mem
  <2>2. PICK words : words = [aes_decrypt_block(p.mem[BlockOf(w)], key) EXCEPT ![SlotOf(w)] = v]
    OBVIOUS
  <2>3. DOMAIN words = 1 .. INSTRS_PER_BLOCK
    BY <2>1, <2>2
  <2>4. QED
    BY <1>1, <2>2, <2>3 DEF aes_encrypt_block
<1>8. Mem(m)
  BY <1>6, <1>7 DEF Process, Mem, Same
<1>9. q.hdr = p.hdr
  BY <1>5 DEF Same, PFields
<1>10. QED
  BY <1>1, <1>5, <1>6, <1>8, <1>9 DEF Process, Rewritten

LEMMA ResealIs ==
    ASSUME NEW p, Process(p), NEW r, r = secure_reseal_current_image(p)
    PROVE  /\ Process(r.p) /\ Same(p, r.p, {"mem"}) /\ Same(p.hdr, r.p.hdr, HFields \ {"img_tag"})
           /\ p.hdr.policy = TRUE /\ KeyGood(p) =>
                r.rc = 0 /\ r.p.hdr.img_tag = ImageTag(p) /\ r.p.locked = p.locked
<1>1. KeyChecks(p) \in 0 .. 5 /\ (KeyChecks(p) = 0 <=> KeyGood(p))
  BY KeyChecksAre
<1>2. CASE ~secure_decode_header(p.hdr) \/ (p.hdr.policy /\ KeyChecks(p) # 0)
  <2>1. r.p = lockSecurity(p)
    BY <1>2 DEF secure_reseal_current_image, Failed
  <2>2. Process(r.p) /\ r.p.mem = p.mem /\ r.p.hdr = p.hdr
    <3>1. Process(r.p) /\ Same(p, r.p, PFields \ {"locked"})
      BY <2>1, LockIs
    <3>2. QED
      BY <3>1 DEF Same, PFields
  <2>3. ~(p.hdr.policy = TRUE /\ KeyGood(p))
    BY <1>1, <1>2 DEF KeyGood
  <2>4. QED
    BY <2>2, <2>3 DEF Same
<1>3. CASE secure_decode_header(p.hdr) /\ ~p.hdr.policy
  <2>1. r = [rc |-> 0, p |-> p]
    BY <1>3 DEF secure_reseal_current_image
  <2>2. QED
    BY <2>1, <1>3 DEF Same
<1>4. CASE secure_decode_header(p.hdr) /\ p.hdr.policy /\ KeyChecks(p) = 0
  <2>1. PICK u : u = [p EXCEPT !.hdr.img_tag = ImageTag(p)]
    OBVIOUS
  <2>2. r = [rc |-> 0, p |-> Adopted(u)]
    BY <1>4, <2>1 DEF secure_reseal_current_image
  <2>3. DOMAIN p = PFields /\ DOMAIN p.hdr = HFields
    BY DEF Process, Hdr
  <2>4. PICK h : h = [p.hdr EXCEPT !.img_tag = ImageTag(p)]
    OBVIOUS
  <2>5. u = [p EXCEPT !.hdr = h]
    BY <2>1, <2>3, <2>4 DEF PFields
  <2>6. DOMAIN u = PFields /\ u.hdr = h /\ u.mem = p.mem /\ u.locked = p.locked
    BY <2>3, <2>5 DEF PFields
  <2>7. DOMAIN h = HFields /\ h.img_tag = ImageTag(p) /\ Same(p.hdr, h, HFields \ {"img_tag"})
    BY <2>3, <2>4 DEF HFields, Same
  <2>8. Hdr(h)
    BY <2>7 DEF Process, Hdr, Numbers, HFields, Same
  <2>9. Process(u)
    BY <2>6, <2>8 DEF Process
  <2>10. Process(r.p) /\ r.p.hdr = h /\ r.p.mem = p.mem /\ r.p.locked = p.locked /\ r.rc = 0
    BY <2>2, <2>6, <2>9, AdoptIs DEF Same, PFields
  <2>11. QED
    BY <2>7, <2>10 DEF Same
<1>5. QED
  BY <1>2, <1>3, <1>4

LEMMA AddressIs ==
    ASSUME NEW p, NEW h, p.region = <<h>>, h.data_start \in Int, NEW eff \in Nat
    PROVE  translateDataAddress(p, eff) \in Int
<1>1. kDataBaseByte \in Nat
  BY ImageLayoutAssumption
<1>2. PICK mapped : mapped = secure_get_region(p).data_start + ((eff - kDataBaseByte) \div kWordBytes)
  OBVIOUS
<1>3. secure_get_region(p) = h
  BY DEF secure_get_region
<1>4. mapped \in Int
  <2>1. (eff - kDataBaseByte) \div 4 \in Int
    BY <1>1
  <2>2. QED
    BY <2>1, <1>2, <1>3 DEF kWordBytes
<1>5. eff \div kWordBytes \in Int
  BY DEF kWordBytes
<1>6. CASE eff < MEM_SIZE
  BY <1>6, Parameters DEF translateDataAddress
<1>7. CASE eff >= MEM_SIZE /\ eff % kWordBytes # 0
  BY <1>7, Parameters DEF translateDataAddress
<1>8. CASE eff >= MEM_SIZE /\ eff % kWordBytes = 0
  <2>1. translateDataAddress(p, eff)
        = IF eff >= kDataBaseByte /\ mapped < MEM_SIZE THEN mapped
          ELSE IF eff \div kWordBytes < MEM_SIZE THEN eff \div kWordBytes ELSE -1
    BY <1>2, <1>8, Parameters DEF translateDataAddress
  <2>2. QED
    BY <2>1, <1>4, <1>5
<1>9. QED
  BY <1>6, <1>7, <1>8, Parameters

\* The three outcomes of an access: nothing changes, the process locks, a word is stored.
Locks(c, d) ==
    /\ DOMAIN d = CFields /\ Same(c, d, CFields \ {"p", "legal"})
    /\ d.p = lockSecurity(c.p) /\ d.legal = FALSE
Stores(c, d, w) ==
    /\ w \in c.p.hdr.data_start .. c.p.hdr.data_end - 1
    /\ DOMAIN d = CFields /\ Same(c, d, CFields \ {"p", "now"})
    /\ d.p = secure_write_encrypted_data_word(c.p, c.key, w, StoreValue)
    /\ d.now = <<[c.now[1] EXCEPT !.data[w - c.p.hdr.data_start + 1] = StoreValue]>>

LEMMA AccessIs ==
    ASSUME NEW c, DOMAIN c = CFields, Process(c.p), c.p.region = <<c.p.hdr>>, NEW w \in Int, NEW write,
           NEW d, d = stage_memory(c, write, w)
    PROVE  d = c \/ Locks(c, d) \/ Stores(c, d, w)
<1>1. secure_is_data_word(c.p, w) <=> w >= c.p.hdr.data_start /\ w < c.p.hdr.data_end
  BY DEF secure_is_data_word, secure_get_region
<1>2. c.p.hdr.data_start \in Int /\ c.p.hdr.data_end \in Int
  BY DEF Process, Hdr, Numbers
<1>3. CASE w = -1 \/ (secure_is_data_word(c.p, w) /\ ~write)
  BY <1>3 DEF stage_memory
<1>4. CASE w # -1 /\ ~secure_is_data_word(c.p, w)
  <2>1. PICK l : l = lockSecurity(c.p)
    OBVIOUS
  <2>2. d = [c EXCEPT !.p = l, !.legal = FALSE]
    BY <1>4, <2>1 DEF stage_memory, CFields
  <2>3. DOMAIN d = CFields /\ Same(c, d, CFields \ {"p", "legal"}) /\ d.p = l /\ d.legal = FALSE
    BY <2>2 DEF CFields, Same
  <2>4. QED
    BY <2>1, <2>3 DEF Locks
<1>5. CASE w # -1 /\ secure_is_data_word(c.p, w) /\ write
  <2>1. PICK q : q = secure_write_encrypted_data_word(c.p, c.key, w, StoreValue)
    OBVIOUS
  <2>2. PICK n : n = <<[c.now[1] EXCEPT !.data[w - c.p.hdr.data_start + 1] = StoreValue]>>
    OBVIOUS
  <2>3. d = [c EXCEPT !.p = q, !.now = n]
    BY <1>5, <2>1, <2>2 DEF stage_memory, CFields
  <2>4. DOMAIN d = CFields /\ Same(c, d, CFields \ {"p", "now"}) /\ d.p = q /\ d.now = n
    BY <2>3 DEF CFields, Same
  <2>5. w \in c.p.hdr.data_start .. c.p.hdr.data_end - 1
    BY <1>1, <1>2, <1>5
  <2>6. QED
    BY <2>1, <2>2, <2>4, <2>5 DEF Stores
<1>6. QED
  BY <1>3, <1>4, <1>5

LEMMA DataWord ==
    ASSUME NEW h, Hdr(h), secure_decode_header(h), NEW w \in h.data_start .. h.data_end - 1
    PROVE  w \in Nat /\ BlockOf(w) \in DataRegion(h) /\ BlockOf(w) \in Blocks
<1>1. /\ h.data_start \in Nat /\ h.data_end \in Nat /\ Aligned(h.data_end)
  BY RegionsAre, Parameters
<1>2. w \in Nat /\ h.data_start <= w /\ w < h.data_end
  BY <1>1
<1>3. BlockOf(h.data_start) <= BlockOf(w) /\ BlockOf(w) < BlockOf(h.data_end) /\ BlockOf(w) \in Nat
  BY <1>1, <1>2, Monotone, Below, WordIs
<1>4. BlockOf(h.data_start) \in Nat /\ BlockOf(h.data_end) \in Nat /\ DataRegion(h) \subseteq Blocks
  BY RegionBlocks
<1>5. QED
  BY <1>2, <1>3, <1>4 DEF DataRegion
-----------------------------------------------------------------------------
(* What the image file and the process look like, and what a run has kept.   *)

Filed(im) == im = <<im[1]>> /\ Image(im[1])

\* A run of the image f: its header is in force, and what is not data is as it was loaded.
Underway(c, f) ==
    /\ c.p.hdr = f.hdr /\ secure_decode_header(f.hdr)
    /\ c.p.region = <<f.hdr>> /\ c.p.map = <<Params(f.hdr)>>
    /\ \A b \in Blocks \ DataRegion(f.hdr) : InFile(b, c.io) => c.p.mem[b] = f.mem[b]

Shape ==
    /\ DOMAIN cpu = CFields /\ Process(cpu.p) /\ cpu.io \in Nat
    /\ image # <<>> => Filed(image)
    /\ \A e \in pool : Filed(e.image)
    /\ cpu.running => image # <<>> /\ Underway(cpu, image[1])

LEMMA EncryptShape ==
    ASSUME HexFiles, Fits, Shape, Encrypt
    PROVE  Shape'
<1>1. PICK key \in AppKeys, epoch \in EpochOptions :
        \E new \in {encryptor(hex.text, hex.data, epoch, key)} :
           LET put == [text |-> hex.text, data |-> Padded(hex.data), words |-> Len(hex.data)]
           IN  /\ image' = IF new = <<>> THEN image ELSE new
               /\ content' = IF new = <<>> THEN content ELSE <<put>>
               /\ pool' = IF new = <<>> THEN pool
                          ELSE pool \cup {[image |-> new, content |-> <<put>>]}
  BY DEF Encrypt
<1>2. PICK new : new = encryptor(hex.text, hex.data, epoch, key)
  OBVIOUS
<1>3. PICK e : e.image = new /\ pool' = IF new = <<>> THEN pool ELSE pool \cup {e}
  <2>1. PICK put : pool' = IF new = <<>> THEN pool ELSE pool \cup {[image |-> new, content |-> <<put>>]}
    BY <1>1, <1>2
  <2>2. [image |-> new, content |-> <<put>>].image = new
    OBVIOUS
  <2>3. QED
    BY <2>1, <2>2
<1>4. image' = IF new = <<>> THEN image ELSE new
  BY <1>1, <1>2
<1>5. cpu' = cpu /\ ~cpu.running /\ hex.ok
  BY DEF Encrypt
<1>6. new # <<>> => Filed(new)
  <2>1. Words(hex.text, hex.data)
    BY <1>5, AcceptedWords
  <2>2. new # <<>> => new = <<new[1]>> /\ Made(new[1], hex.text, hex.data, key)
    BY <1>2, <2>1, EncryptorIs
  <2>3. QED
    BY <2>2 DEF Made, Filed
<1>7. image' # <<>> => Filed(image')
  BY <1>4, <1>6 DEF Shape
<1>8. \A x \in pool' : Filed(x.image)
  BY <1>3, <1>6 DEF Shape
<1>9. QED
  BY <1>5, <1>7, <1>8 DEF Shape

LEMMA StartShape ==
    ASSUME Shape, StartRun
    PROVE  Shape'
<1>1. PICK word_count \in WordCounts :
        LET io == IF word_count = 0 \/ word_count > MEM_SIZE THEN MEM_SIZE ELSE word_count
        IN  cpu' = FirstFetch(extract_key_from_large_block(LoadImage(cpu.p, image[1], io)), io,
                              IF io = MEM_SIZE THEN content ELSE <<>>)
  BY DEF StartRun
<1>2. PICK io \in Nat : io = IF word_count = 0 \/ word_count > MEM_SIZE THEN MEM_SIZE ELSE word_count
  BY ToolchainAssumption, Parameters
<1>3. PICK q : q = LoadImage(cpu.p, image[1], io)
  OBVIOUS
<1>4. PICK intact : intact = IF io = MEM_SIZE THEN content ELSE <<>>
  OBVIOUS
<1>5. cpu' = FirstFetch(extract_key_from_large_block(q), io, intact)
  BY <1>1, <1>2, <1>3, <1>4
<1>6. image' = image /\ pool' = pool /\ image # <<>> /\ Filed(image)
  BY DEF StartRun, Shape
<1>7. Loaded(q, image[1], io) /\ Process(q) /\ q.locked = FALSE
  <2>1. Loaded(q, image[1], io)
    BY <1>3, <1>6, LoadIs DEF Shape, Filed
  <2>2. QED
    BY <2>1 DEF Loaded
<1>8. /\ DOMAIN cpu' = CFields /\ Process(cpu'.p) /\ cpu'.io = io
      /\ cpu'.running => KeyGood(q) /\ cpu'.p = Adopted(q)
  <2>1. Fetched(cpu', q, io, intact)
    BY <1>5, <1>7, FetchIs
  <2>2. QED
    BY <2>1 DEF Fetched
<1>9. ASSUME cpu'.running PROVE Underway(cpu', image[1])
  <2>1. cpu'.p = Adopted(q) /\ secure_decode_header(q.hdr) /\ q.hdr = image[1].hdr
    BY <1>7, <1>8, <1>9 DEF KeyGood, Loaded
  <2>2. /\ Same(q, cpu'.p, PFields \ {"region", "map"})
        /\ cpu'.p.region = <<q.hdr>>
        /\ cpu'.p.map = <<secure_build_map_params(q.hdr.text_start, q.hdr.text_end, q.hdr.epoch)>>
    BY <2>1, <1>7, AdoptIs
  <2>3. cpu'.p.hdr = q.hdr /\ cpu'.p.mem = q.mem
    BY <2>2 DEF Same, PFields
  <2>4. QED
    BY <2>1, <2>2, <2>3, <1>7, <1>8 DEF Underway, Params, Loaded
<1>10. QED
  BY <1>6, <1>8, <1>9 DEF Shape

LEMMA AccessShape ==
    ASSUME Shape, NEW write, Access(write)
    PROVE  Shape'
<1>1. image' = image /\ pool' = pool /\ cpu.running
  BY DEF Access
<1>2. PICK eff \in EffAddrs : cpu' = stage_memory(cpu, write, translateDataAddress(cpu.p, eff))
  BY DEF Access
<1>3. /\ DOMAIN cpu = CFields /\ Process(cpu.p) /\ cpu.io \in Nat /\ Filed(image)
      /\ Underway(cpu, image[1])
  BY <1>1 DEF Shape
<1>4. PICK h : h = image[1].hdr
  OBVIOUS
<1>5. Hdr(h) /\ secure_decode_header(h) /\ cpu.p.hdr = h /\ cpu.p.region = <<h>>
  BY <1>3, <1>4 DEF Filed, Image, Underway
<1>6. PICK w : w = translateDataAddress(cpu.p, eff)
  OBVIOUS
<1>7. w \in Int
  BY <1>5, <1>6, AddressIs, ToolchainAssumption DEF Hdr, Numbers
<1>8. cpu' = cpu \/ Locks(cpu, cpu') \/ Stores(cpu, cpu', w)
  BY <1>2, <1>3, <1>5, <1>6, <1>7, AccessIs
<1>9. CASE cpu' = cpu
  BY <1>9, <1>1 DEF Shape
<1>10. CASE Locks(cpu, cpu')
  <2>1. cpu'.p = lockSecurity(cpu.p) /\ DOMAIN cpu' = CFields /\ cpu'.io = cpu.io
    BY <1>10 DEF Locks, Same, CFields
  <2>2. Process(cpu'.p) /\ Same(cpu.p, cpu'.p, PFields \ {"locked"})
    BY <2>1, <1>3, LockIs
  <2>3. /\ cpu'.p.hdr = cpu.p.hdr /\ cpu'.p.mem = cpu.p.mem
        /\ cpu'.p.region = cpu.p.region /\ cpu'.p.map = cpu.p.map
    BY <2>2 DEF Same, PFields
  <2>4. Underway(cpu', image[1])
    BY <2>1, <2>3, <1>3 DEF Underway
  <2>5. QED
    BY <2>1, <2>2, <2>4, <1>1, <1>3 DEF Shape
<1>11. CASE Stores(cpu, cpu', w)
  <2>1. /\ w \in h.data_start .. h.data_end - 1 /\ DOMAIN cpu' = CFields /\ cpu'.io = cpu.io
        /\ cpu'.p = secure_write_encrypted_data_word(cpu.p, cpu.key, w, StoreValue)
    BY <1>11, <1>5 DEF Stores, Same, CFields
  <2>2. BlockOf(w) \in DataRegion(h) /\ BlockOf(w) \in Blocks
    BY <2>1, <1>5, DataWord
  <2>3. /\ Process(cpu'.p) /\ Same(cpu.p, cpu'.p, PFields \ {"mem"})
        /\ Same(cpu.p.mem, cpu'.p.mem, Blocks \ {BlockOf(w)})
    BY <2>1, <2>2, <1>3, WriteIs
  <2>4. cpu'.p.hdr = cpu.p.hdr /\ cpu'.p.region = cpu.p.region /\ cpu'.p.map = cpu.p.map
    BY <2>3 DEF Same, PFields
  <2>5. \A b \in Blocks \ DataRegion(h) : cpu'.p.mem[b] = cpu.p.mem[b]
    BY <2>2, <2>3 DEF Same
  <2>6. Underway(cpu', image[1])
    BY <2>1, <2>4, <2>5, <1>3, <1>4 DEF Underway
  <2>7. QED
    BY <2>1, <2>3, <2>6, <1>1, <1>3 DEF Shape
<1>12. QED
  BY <1>8, <1>9, <1>10, <1>11

\* The file a run writes: its process's blocks as far as they were loaded, its header.
Written(g, q, f, io) ==
    /\ g.hdr = q.hdr
    /\ Same(q.mem, g.mem, {b \in Blocks : InFile(b, io)})
    /\ Same(f.mem, g.mem, {b \in Blocks : ~InFile(b, io)})

\* How a run ends: r is what became of the process.
Ended(r, f) ==
    /\ Process(r.p) /\ Same(cpu.p, r.p, {"mem"}) /\ Same(cpu.p.hdr, r.p.hdr, HFields \ {"img_tag"})
    /\ cpu.p.locked = TRUE => r.p = cpu.p
    /\ cpu.p.locked = FALSE => r = secure_reseal_current_image(cpu.p)
    /\ DOMAIN cpu' = CFields /\ Same(cpu, cpu', {"io", "opened", "now", "intact", "legal"})
    /\ cpu'.p = r.p /\ cpu'.running = FALSE
    /\ cpu'.clean = (~r.p.locked /\ r.rc = 0)
    /\ image' = <<image'[1]>> /\ Image(image'[1]) /\ Written(image'[1], r.p, f, cpu.io)

LEMMA FinishIs ==
    ASSUME Shape, FinishRun
    PROVE  \E r : Ended(r, image[1])
<1>1. cpu.running /\ Filed(image) /\ Process(cpu.p) /\ DOMAIN cpu = CFields
  BY DEF FinishRun, Shape
<1>2. PICK r : /\ r = IF cpu.p.locked THEN [rc |-> 0, p |-> cpu.p]
                      ELSE secure_reseal_current_image(cpu.p)
               /\ cpu' = [cpu EXCEPT !.running = FALSE, !.p = r.p, !.key = NoKey,
                                     !.failed = r.rc # 0, !.clean = ~r.p.locked /\ r.rc = 0]
               /\ image' = <<[hdr |-> r.p.hdr, mem |-> [b \in Blocks |->
                                 IF InFile(b, cpu.io) THEN r.p.mem[b] ELSE image[1].mem[b]]]>>
  BY DEF FinishRun
<1>3. /\ Process(r.p) /\ Same(cpu.p, r.p, {"mem"}) /\ Same(cpu.p.hdr, r.p.hdr, HFields \ {"img_tag"})
  <2>1. CASE cpu.p.locked
    <3>1. r = [rc |-> 0, p |-> cpu.p]
      BY <1>2, <2>1
    <3>2. r.p = cpu.p
      BY <3>1
    <3>3. QED
      BY <3>2, <1>1 DEF Same
  <2>2. CASE ~cpu.p.locked
    BY <2>2, <1>1, <1>2, ResealIs
  <2>3. QED
    BY <2>1, <2>2
<1>4. cpu.p.locked = TRUE => r.p = cpu.p
  BY <1>2
<1>5. cpu.p.locked = FALSE => r = secure_reseal_current_image(cpu.p)
  BY <1>2
<1> DEFINE clean == ~r.p.locked /\ r.rc = 0
           failed == r.rc # 0
<1>6. cpu' = [cpu EXCEPT !.running = FALSE, !.p = r.p, !.key = NoKey, !.failed = failed, !.clean = clean]
  BY <1>2
<1>7. clean = (~r.p.locked /\ r.rc = 0)
  OBVIOUS
<1> HIDE DEF clean, failed
<1>8. /\ DOMAIN cpu' = CFields /\ Same(cpu, cpu', {"io", "opened", "now", "intact", "legal"})
      /\ cpu'.p = r.p /\ cpu'.running = FALSE /\ cpu'.clean = clean
  BY <1>1, <1>6 DEF CFields, Same
<1>9. PICK m : m = [b \in Blocks |-> IF InFile(b, cpu.io) THEN r.p.mem[b] ELSE image[1].mem[b]]
  OBVIOUS
<1>10. PICK g : g = [hdr |-> r.p.hdr, mem |-> m]
  OBVIOUS
<1>11. image' = <<g>> /\ DOMAIN g = {"hdr", "mem"} /\ g.hdr = r.p.hdr /\ g.mem = m
  BY <1>2, <1>9, <1>10
<1>12. /\ Same(r.p.mem, m, {b \in Blocks : InFile(b, cpu.io)})
       /\ Same(image[1].mem, m, {b \in Blocks : ~InFile(b, cpu.io)})
  BY <1>9 DEF Same
<1>13. Mem(m)
  BY <1>1, <1>3, <1>9 DEF Mem, Process, Filed, Image
<1>14. Image(g) /\ Written(g, r.p, image[1], cpu.io)
  BY <1>3, <1>11, <1>12, <1>13 DEF Image, Process, Written
<1>15. Ended(r, image[1])
  BY <1>3, <1>4, <1>5, <1>7, <1>8, <1>11, <1>14 DEF Ended
<1>16. QED
  BY <1>15

LEMMA FinishShape ==
    ASSUME Shape, FinishRun
    PROVE  Shape'
<1>1. PICK r : Ended(r, image[1])
  BY FinishIs
<1>2. DOMAIN cpu' = CFields /\ Process(cpu'.p) /\ cpu'.io = cpu.io /\ cpu'.running = FALSE /\ Filed(image')
  BY <1>1 DEF Ended, Same, Filed
<1>3. PICK e : e = [image |-> image', content |-> content']
  OBVIOUS
<1>4. e.image = image' /\ pool' = pool \cup {e}
  BY <1>3 DEF FinishRun
<1>5. \A x \in pool' : Filed(x.image)
  BY <1>2, <1>4 DEF Shape
<1>6. QED
  BY <1>2, <1>5 DEF Shape

\* What damage leaves is an image still.
LEMMA DamageIs ==
    ASSUME Shape, Damage
    PROVE  /\ Filed(image) /\ image' = <<image'[1]>> /\ Image(image'[1]) /\ content' = <<>>
           /\ \A f \in {"img_tag", "key_tag"} :
                 \/ image'[1].hdr[f] = image[1].hdr[f]
                 \/ \E old \in pool : image'[1].hdr[f] = old.image[1].hdr[f]
                 \/ image'[1].hdr[f] = NoTerm
<1>1. Filed(image) /\ content' = <<>> /\ (\A e \in pool : Filed(e.image))
  BY DEF Damage, Shape
<1>2. PICK i : i = image[1]
  OBVIOUS
<1>3. DOMAIN i = {"hdr", "mem"} /\ Hdr(i.hdr) /\ Mem(i.mem)
  BY <1>1, <1>2 DEF Filed, Image
<1>4. JunkBlock.words = ZeroBlock.words /\ DOMAIN JunkBlock = {"key", "words", "hid"} /\ HeaderFields = HFields
  BY FreshIs DEF JunkBlock, HeaderFields, Hdr
<1>5. ASSUME NEW b \in Blocks, NEW block, NEW g, g = [i EXCEPT !.mem[b] = block], image' = <<g>>,
             DOMAIN block = {"key", "words", "hid"}, DOMAIN block.words = 1 .. INSTRS_PER_BLOCK
      PROVE  image' = <<image'[1]>> /\ Image(image'[1]) /\ image'[1].hdr = i.hdr
  <2>1. PICK m : m = [i.mem EXCEPT ![b] = block]
    OBVIOUS
  <2>2. g = [i EXCEPT !.mem = m]
    BY <1>3, <1>5, <2>1
  <2>3. DOMAIN g = {"hdr", "mem"} /\ g.mem = m /\ g.hdr = i.hdr
    BY <1>3, <2>2
  <2>4. Mem(m)
    BY <1>3, <1>5, <2>1 DEF Mem
  <2>5. QED
    BY <1>3, <1>5, <2>3, <2>4 DEF Image
<1>6. ASSUME NEW f \in HFields, NEW v, f \in Numbers => v \in Int,
             NEW g, g = [i EXCEPT !.hdr[f] = v], image' = <<g>>
      PROVE  /\ image' = <<image'[1]>> /\ Image(image'[1])
             /\ image'[1].hdr[f] = v /\ Same(i.hdr, image'[1].hdr, HFields \ {f})
  <2>1. PICK h : h = [i.hdr EXCEPT ![f] = v]
    OBVIOUS
  <2>2. g = [i EXCEPT !.hdr = h]
    BY <1>3, <1>6, <2>1
  <2>3. DOMAIN g = {"hdr", "mem"} /\ g.mem = i.mem /\ g.hdr = h
    BY <1>3, <2>2
  <2>4. DOMAIN h = HFields /\ h[f] = v /\ Same(i.hdr, h, HFields \ {f})
    BY <1>3, <2>1 DEF Hdr, Same
  <2>5. Numbers \subseteq HFields
    BY DEF Numbers, HFields
  <2>6. Hdr(h)
    BY <1>3, <1>6, <2>4, <2>5 DEF Hdr, Same
  <2>7. QED
    BY <1>3, <1>6, <2>3, <2>4, <2>6 DEF Image
<1>7. ASSUME NEW b \in Blocks, NEW block \in {old.image[1].mem[b] : old \in pool} \cup {JunkBlock},
             image' = <<[image[1] EXCEPT !.mem[b] = block]>>
      PROVE  image' = <<image'[1]>> /\ Image(image'[1]) /\ image'[1].hdr = i.hdr
  <2>1. DOMAIN block = {"key", "words", "hid"} /\ DOMAIN block.words = 1 .. INSTRS_PER_BLOCK
    <3>1. CASE block = JunkBlock
      BY <3>1, <1>4, FreshIs
    <3>2. CASE \E old \in pool : block = old.image[1].mem[b]
      <4>1. PICK old \in pool : block = old.image[1].mem[b]
        BY <3>2
      <4>2. Mem(old.image[1].mem)
        BY <1>1 DEF Filed, Image
      <4>3. QED
        BY <4>1, <4>2 DEF Mem
    <3>3. QED
      BY <3>1, <3>2
  <2>2. QED
    BY <2>1, <1>2, <1>5, <1>7
<1>8. ASSUME NEW f \in HFields, NEW old \in pool,
             image' = <<[image[1] EXCEPT !.hdr[f] = old.image[1].hdr[f]]>>
      PROVE  /\ image' = <<image'[1]>> /\ Image(image'[1])
             /\ image'[1].hdr[f] = old.image[1].hdr[f] /\ Same(i.hdr, image'[1].hdr, HFields \ {f})
  <2>1. f \in Numbers => old.image[1].hdr[f] \in Int
    BY <1>1 DEF Filed, Image, Hdr
  <2>2. QED
    BY <2>1, <1>2, <1>6, <1>8
<1>9. ASSUME NEW f \in HFields, image' = <<[image[1] EXCEPT !.hdr[f] = DamagedField(f, @)]>>
      PROVE  /\ image' = <<image'[1]>> /\ Image(image'[1])
             /\ f \in {"img_tag", "key_tag"} => image'[1].hdr[f] = NoTerm
             /\ Same(i.hdr, image'[1].hdr, HFields \ {f})
  <2>1. PICK v : v = DamagedField(f, i.hdr[f])
    OBVIOUS
  <2>2. f \in Numbers => v \in Int
    <3>1. f \in Numbers => v = i.hdr[f] + INSTRS_PER_BLOCK
      BY <2>1 DEF Numbers, DamagedField
    <3>2. QED
      BY <3>1, <1>3, Parameters DEF Hdr
  <2>3. f \in {"img_tag", "key_tag"} => v = NoTerm
    BY <2>1 DEF DamagedField
  <2>4. image' = <<[i EXCEPT !.hdr[f] = v]>>
    BY <1>2, <1>3, <1>9, <2>1 DEF Hdr
  <2>5. QED
    BY <2>2, <2>3, <2>4, <1>6
<1>10. {"img_tag", "key_tag"} \subseteq HFields
  BY DEF HFields
<1>11. \/ \E b \in Blocks : \E block \in {old.image[1].mem[b] : old \in pool} \cup {JunkBlock} :
             image' = <<[image[1] EXCEPT !.mem[b] = block]>>
       \/ \E f \in HFields :
             \/ \E old \in pool : image' = <<[image[1] EXCEPT !.hdr[f] = old.image[1].hdr[f]]>>
             \/ image' = <<[image[1] EXCEPT !.hdr[f] = DamagedField(f, @)]>>
  BY <1>4 DEF Damage
<1>12. CASE \E b \in Blocks : \E block \in {old.image[1].mem[b] : old \in pool} \cup {JunkBlock} :
              image' = <<[image[1] EXCEPT !.mem[b] = block]>>
  <2>1. image' = <<image'[1]>> /\ Image(image'[1]) /\ image'[1].hdr = i.hdr
    BY <1>12, <1>7
  <2>2. QED
    BY <2>1, <1>1, <1>2
<1>13. CASE \E f \in HFields : \E old \in pool :
              image' = <<[image[1] EXCEPT !.hdr[f] = old.image[1].hdr[f]]>>
  <2>1. PICK f \in HFields, old \in pool : image' = <<[image[1] EXCEPT !.hdr[f] = old.image[1].hdr[f]]>>
    BY <1>13
  <2>2. /\ image' = <<image'[1]>> /\ Image(image'[1])
        /\ image'[1].hdr[f] = old.image[1].hdr[f] /\ Same(i.hdr, image'[1].hdr, HFields \ {f})
    BY <2>1, <1>8
  <2>3. QED
    BY <2>2, <1>1, <1>2, <1>10 DEF Same
<1>14. CASE \E f \in HFields : image' = <<[image[1] EXCEPT !.hdr[f] = DamagedField(f, @)]>>
  <2>1. PICK f \in HFields : image' = <<[image[1] EXCEPT !.hdr[f] = DamagedField(f, @)]>>
    BY <1>14
  <2>2. /\ image' = <<image'[1]>> /\ Image(image'[1])
        /\ f \in {"img_tag", "key_tag"} => image'[1].hdr[f] = NoTerm
        /\ Same(i.hdr, image'[1].hdr, HFields \ {f})
    BY <2>1, <1>9
  <2>3. QED
    BY <2>2, <1>1, <1>2, <1>10 DEF Same
<1>15. QED
  BY <1>11, <1>12, <1>13, <1>14

LEMMA ShapeStep ==
    ASSUME HexFiles, Fits, Shape, [Next]_vars
    PROVE  Shape'
<1>1. CASE WriteLine \/ Assemble \/ Decrypt \/ vars' = vars
  <2>1. image' = image /\ cpu' = cpu /\ pool' = pool
    BY <1>1 DEF WriteLine, Assemble, Decrypt, vars
  <2>2. QED
    BY <2>1 DEF Shape
<1>2. CASE Restore
  <2>1. cpu' = cpu /\ ~cpu.running /\ pool' = pool /\ (\E old \in pool : image' = old.image)
    BY <1>2 DEF Restore
  <2>2. QED
    BY <2>1 DEF Shape
<1>3. CASE Damage
  <2>1. cpu' = cpu /\ ~cpu.running /\ pool' = pool
    BY <1>3 DEF Damage
  <2>2. Filed(image')
    BY <1>3, DamageIs DEF Filed
  <2>3. QED
    BY <2>1, <2>2 DEF Shape
<1>4. QED
  BY <1>1, <1>2, <1>3, EncryptShape, StartShape, AccessShape, FinishShape DEF Next, Load, Store

LEMMA ShapeAlways == Spec /\ []HexFiles => []Shape
<1>1. Init => Shape
  <2>1. DOMAIN Off = CFields /\ Off.p = Fresh /\ Off.io = MEM_SIZE /\ Off.running = FALSE
    BY DEF Off, CFields
  <2>2. QED
    BY <2>1, FreshIs, Parameters DEF Init, Shape
<1>2. QED
  BY <1>1, ShapeStep, FitsAlways, PTL DEF Spec

\* For every memory, image and run: however a run ends, it changes nothing of the image file but
\* the data and the image tag (3d.cpp, stage_memory and Crypto3DStackCPU_top).
THEOREM RunsKeepTheRest == Spec /\ []HexFiles => RunChangesOnlyData
<1>1. ASSUME Shape, FinishRun
      PROVE  /\ [image'[1].hdr EXCEPT !.img_tag = NoTerm] = [image[1].hdr EXCEPT !.img_tag = NoTerm]
             /\ \A b \in Blocks :
                   ~(image[1].hdr.data_start <= b * INSTRS_PER_BLOCK
                     /\ b * INSTRS_PER_BLOCK < image[1].hdr.data_end)
                   => image'[1].mem[b] = image[1].mem[b]
  <2>1. PICK r : Ended(r, image[1])
    BY <1>1, FinishIs
  <2>2. Filed(image) /\ Underway(cpu, image[1])
    BY <1>1 DEF Shape, FinishRun
  <2>3. PICK h : h = image[1].hdr
    OBVIOUS
  <2>4. Hdr(h) /\ secure_decode_header(h) /\ cpu.p.hdr = h
    BY <2>2, <2>3 DEF Filed, Image, Underway
  <2>5. PICK g : g = image'[1].hdr
    OBVIOUS
  <2>6. Hdr(g) /\ Same(h, g, HFields \ {"img_tag"})
    BY <2>1, <2>4, <2>5 DEF Ended, Image, Written
  <2>7. [g EXCEPT !.img_tag = NoTerm] = [h EXCEPT !.img_tag = NoTerm]
    BY <2>4, <2>6 DEF Hdr, HFields, Same
  <2>8. ASSUME NEW b \in Blocks \ DataRegion(h) PROVE image'[1].mem[b] = image[1].mem[b]
    <3>1. r.p.mem = cpu.p.mem
      BY <2>1 DEF Ended, Same
    <3>2. CASE InFile(b, cpu.io)
      BY <3>1, <3>2, <2>1, <2>2, <2>3, <2>8 DEF Ended, Written, Same, Underway
    <3>3. CASE ~InFile(b, cpu.io)
      BY <3>3, <2>1, <2>8 DEF Ended, Written, Same
    <3>4. QED
      BY <3>2, <3>3
  <2>9. ASSUME NEW b \in DataRegion(h)
        PROVE  h.data_start <= b * INSTRS_PER_BLOCK /\ b * INSTRS_PER_BLOCK < h.data_end
    <3>1. h.data_start \in Nat /\ h.data_end \in Nat /\ Aligned(h.data_start) /\ Aligned(h.data_end)
      BY <2>4, RegionsAre, Parameters
    <3>2. BlockOf(h.data_start) \in Nat /\ BlockOf(h.data_end) \in Nat
      BY <3>1, WordIs
    <3>3. b \in Nat /\ BlockOf(h.data_start) <= b /\ b < BlockOf(h.data_end)
      BY <2>9, <3>2 DEF DataRegion
    <3>4. b * INSTRS_PER_BLOCK \in Nat /\ BlockOf(b * INSTRS_PER_BLOCK) = b
      BY <3>3, BlockIsAligned
    <3>5. b * INSTRS_PER_BLOCK < h.data_end /\ ~(b * INSTRS_PER_BLOCK < h.data_start)
      BY <3>1, <3>2, <3>3, <3>4, Below
    <3>6. QED
      BY <3>1, <3>4, <3>5
  <2>10. QED
    BY <2>3, <2>5, <2>7, <2>8, <2>9
<1>2. ASSUME Shape, [Next]_vars
      PROVE  [FinishRun =>
                /\ [image'[1].hdr EXCEPT !.img_tag = NoTerm] = [image[1].hdr EXCEPT !.img_tag = NoTerm]
                /\ \A b \in Blocks :
                      ~(image[1].hdr.data_start <= b * INSTRS_PER_BLOCK
                        /\ b * INSTRS_PER_BLOCK < image[1].hdr.data_end)
                      => image'[1].mem[b] = image[1].mem[b]]_vars
  BY <1>1, <1>2
<1>3. QED
  BY <1>2, ShapeAlways, PTL DEF Spec, RunChangesOnlyData
-----------------------------------------------------------------------------
(* What can be read out of an image.                                         *)

Contents(f, key) ==
    LET h == f.hdr
        all == [w \in 1 .. (BlockOf(h.text_end) - BlockOf(h.text_start)) * INSTRS_PER_BLOCK |->
                   aes_decrypt_block(MappedText(f.mem, h)[BlockOf(w - 1) + 1], key)[SlotOf(w - 1)]]
    IN  [text |-> SubSeq(all, 1, h.text_words),
         data |-> [i \in 1 .. h.data_end - h.data_start |->
                     aes_decrypt_block(DataBlocks(f.mem, h)[BlockOf(i - 1) + 1], key)[SlotOf(i - 1)]],
         words |-> h.data_words]

LEMMA RegionWords ==
    ASSUME NEW lo \in Nat, Aligned(lo), NEW hi \in Nat, Aligned(hi), lo <= hi
    PROVE  (BlockOf(hi) - BlockOf(lo)) * INSTRS_PER_BLOCK = hi - lo
<1>1. /\ BlockOf(lo) \in Nat /\ lo = BlockOf(lo) * INSTRS_PER_BLOCK
      /\ BlockOf(hi) \in Nat /\ hi = BlockOf(hi) * INSTRS_PER_BLOCK
  BY AtBlock
<1>2. PICK a \in Nat, b \in Nat : a = BlockOf(lo) /\ b = BlockOf(hi)
  BY <1>1
<1>3. (b - a) * INSTRS_PER_BLOCK = b * INSTRS_PER_BLOCK - a * INSTRS_PER_BLOCK
  BY Parameters
<1>4. lo = a * INSTRS_PER_BLOCK /\ hi = b * INSTRS_PER_BLOCK
  BY <1>1, <1>2
<1>5. QED
  BY <1>2, <1>3, <1>4

LEMMA RegionIndex ==
    ASSUME NEW lo \in Nat, Aligned(lo), NEW hi \in Nat, Aligned(hi), lo <= hi, NEW i \in 1 .. hi - lo
    PROVE  /\ i - 1 \in Nat /\ BlockOf(i - 1) \in Nat /\ SlotOf(i - 1) \in 1 .. INSTRS_PER_BLOCK
           /\ BlockOf(i - 1) + 1 \in 1 .. BlockOf(hi) - BlockOf(lo)
           /\ BlockOf(lo + i - 1) = BlockOf(lo) + BlockOf(i - 1)
           /\ SlotOf(lo + i - 1) = SlotOf(i - 1)
<1>1. PICK w \in Nat : w = i - 1
  OBVIOUS
<1>2. lo + i - 1 = lo + w
  BY <1>1
<1>3. BlockOf(lo + w) = BlockOf(lo) + BlockOf(w) /\ SlotOf(lo + w) = SlotOf(w)
  BY Offset
<1>4. BlockOf(w) \in Nat /\ SlotOf(w) \in 1 .. INSTRS_PER_BLOCK /\ BlockOf(lo) \in Nat /\ BlockOf(hi) \in Nat
  BY WordIs
<1>5. lo + w < hi
  BY <1>1
<1>6. BlockOf(lo + w) < BlockOf(hi)
  BY <1>5, Below
<1>7. BlockOf(w) + 1 \in 1 .. BlockOf(hi) - BlockOf(lo)
  BY <1>3, <1>4, <1>6
<1>8. QED
  BY <1>1, <1>2, <1>3, <1>4, <1>7

\* The program, and the decryptor, see the contents of the image that was validated.
LEMMA ContentIs ==
    ASSUME NEW p, Process(p), secure_decode_header(p.hdr), p.region = <<p.hdr>>,
           p.map = <<Params(p.hdr)>>, NEW key
    PROVE  /\ decrypt_text_region(p, key) = Contents(p, key).text
           /\ Content(p, key) = Contents(p, key)
<1>1. PICK h : h = p.hdr
  OBVIOUS
<1>2. Hdr(h) /\ secure_decode_header(h) /\ secure_get_region(p) = h
  BY <1>1 DEF Process, secure_get_region
<1>3. /\ h.text_start \in Nat /\ h.text_end \in Nat /\ h.text_start <= h.text_end
      /\ Aligned(h.text_start) /\ Aligned(h.text_end)
      /\ h.data_start \in Nat /\ h.data_end \in Nat /\ h.data_start <= h.data_end
      /\ Aligned(h.data_start) /\ Aligned(h.data_end)
  BY <1>2, RegionsAre, Parameters
<1>4. \A b : secure_map_text_block(p, b) = Place(h, b)
  BY <1>1 DEF secure_map_text_block, Place
<1>5. PICK n : n = BlockOf(h.text_end) - BlockOf(h.text_start)
  OBVIOUS
<1>6. n * INSTRS_PER_BLOCK = h.text_end - h.text_start
  BY <1>3, <1>5, RegionWords
<1>7. ASSUME NEW w \in 1 .. n * INSTRS_PER_BLOCK
      PROVE  p.mem[secure_map_text_block(p, BlockOf(h.text_start) + (BlockOf(w - 1) + 1) - 1)]
             = MappedText(p.mem, h)[BlockOf(w - 1) + 1]
  <2>1. BlockOf(w - 1) + 1 \in 1 .. n
    BY <1>3, <1>5, <1>6, RegionIndex
  <2>2. MappedText(p.mem, h) = [i \in 1 .. n |-> p.mem[Place(h, BlockOf(h.text_start) + i - 1)]]
    BY <1>2, <1>5, TextIs
  <2>3. QED
    BY <2>1, <2>2, <1>4
<1> DEFINE all == [w \in 1 .. n * INSTRS_PER_BLOCK |->
                     aes_decrypt_block(MappedText(p.mem, h)[BlockOf(w - 1) + 1], key)[SlotOf(w - 1)]]
           seen == [w \in 1 .. n * INSTRS_PER_BLOCK |->
                     aes_decrypt_block(p.mem[secure_map_text_block(p,
                        BlockOf(h.text_start) + (BlockOf(w - 1) + 1) - 1)], key)[SlotOf(w - 1)]]
           data == [i \in 1 .. h.data_end - h.data_start |->
                     aes_decrypt_block(DataBlocks(p.mem, h)[BlockOf(i - 1) + 1], key)[SlotOf(i - 1)]]
<1>8. seen = all
  BY <1>7
<1>9. decrypt_text_region(p, key) = SubSeq(seen, 1, h.text_words)
  BY <1>2, <1>5 DEF decrypt_text_region
<1>10. data_seen(p, key) = data
  <2>1. data_seen(p, key) = [i \in 1 .. h.data_end - h.data_start |->
                               aes_decrypt_block(p.mem[BlockOf(h.data_start + i - 1)], key)[SlotOf(h.data_start + i - 1)]]
    BY <1>2 DEF data_seen, secure_read_encrypted_data_word
  <2>2. ASSUME NEW i \in 1 .. h.data_end - h.data_start
        PROVE  /\ p.mem[BlockOf(h.data_start + i - 1)] = DataBlocks(p.mem, h)[BlockOf(i - 1) + 1]
               /\ SlotOf(h.data_start + i - 1) = SlotOf(i - 1)
    <3>1. /\ BlockOf(i - 1) \in Nat /\ BlockOf(i - 1) + 1 \in 1 .. BlockOf(h.data_end) - BlockOf(h.data_start)
          /\ BlockOf(h.data_start + i - 1) = BlockOf(h.data_start) + BlockOf(i - 1)
          /\ SlotOf(h.data_start + i - 1) = SlotOf(i - 1)
      BY <1>3, RegionIndex
    <3>2. BlockOf(h.data_start) \in Nat
      BY <1>3, WordIs
    <3>3. BlockOf(h.data_start) + (BlockOf(i - 1) + 1) - 1 = BlockOf(h.data_start + i - 1)
      BY <3>1, <3>2
    <3>4. QED
      BY <3>1, <3>3 DEF DataBlocks
  <2>3. QED
    BY <2>1, <2>2
<1>11. Contents(p, key) = [text |-> SubSeq(all, 1, h.text_words), data |-> data, words |-> h.data_words]
  BY <1>1, <1>5 DEF Contents
<1>12. Content(p, key) = [text |-> decrypt_text_region(p, key), data |-> data_seen(p, key),
                          words |-> h.data_words]
  BY <1>1 DEF Content
<1> HIDE DEF all, seen, data
<1>13. decrypt_text_region(p, key) = SubSeq(all, 1, h.text_words)
  BY <1>8, <1>9
<1>14. Content(p, key) = Contents(p, key)
  BY <1>10, <1>11, <1>12, <1>13
<1>15. PICK t : t = SubSeq(all, 1, h.text_words)
  OBVIOUS
<1>16. Contents(p, key) = [text |-> t, data |-> data, words |-> h.data_words]
  BY <1>11, <1>15
<1>17. Contents(p, key).text = t
  BY <1>16
<1>18. QED
  BY <1>13, <1>14, <1>15, <1>17
-----------------------------------------------------------------------------
(* An image with its contents.                                               *)

\* Where its text is stored, its data, and where its key is hidden.
Reach(h) == {Place(h, b) : b \in TextBlocks(h)} \cup DataRegion(h) \cup Positions(h)

KeyOf(f) == f.hdr.nonce[2]
Own(block, key) == block.key = key /\ block.hid = <<>>

\* Its key comes out, with it all of its text and data, and they are c; the key is hidden in
\* other blocks.
Live(f, c) ==
    /\ Hdr(f.hdr) /\ OwnText(f.hdr) /\ f.hdr.policy = TRUE /\ f.hdr.data_flags = TRUE
    /\ f.hdr.text_words \in Nat /\ f.hdr.data_words \in Nat /\ f.hdr.data_end <= HideLow
    /\ KeyOf(f) \in AppKeys
    /\ KeyGood(f) /\ f.hdr.wrapped = WrapKey(KeyOf(f), SessionKey(f))
    /\ \A b \in TextBlocks(f.hdr) : Own(f.mem[Place(f.hdr, b)], KeyOf(f))
    /\ \A b \in DataRegion(f.hdr) : Own(f.mem[b], KeyOf(f))
    /\ c = Contents(f, KeyOf(f))

\* Its image tag is right too.
Sound(f, c) == Live(f, c) /\ ImageTag(f) = f.hdr.img_tag

LEMMA DataIsFree ==
    ASSUME NEW h, Hdr(h), secure_decode_header(h), h.data_end <= HideLow
    PROVE  DataRegion(h) \cap Positions(h) = {}
<1>1. h.data_end \in Nat
  BY RegionsAre, Parameters
<1>2. BlockOf(h.data_end) <= BlockOf(HideLow) /\ BlockOf(HideLow) \in Nat
  BY <1>1, HideLowIs, Monotone, WordIs
<1>3. BlockOf(h.data_start) \in Nat /\ BlockOf(h.data_end) \in Nat
  BY RegionBlocks
<1>4. \A b \in Positions(h) : b >= BlockOf(HideLow)
  BY PositionsAre
<1>5. QED
  BY <1>2, <1>3, <1>4 DEF DataRegion

LEMMA ReachIs ==
    ASSUME NEW h, Hdr(h), secure_decode_header(h), OwnText(h)
    PROVE  Reach(h) \subseteq Blocks
<1>1. TextBlocks(h) \subseteq Blocks /\ DataRegion(h) \subseteq Blocks
  BY RegionBlocks
<1>2. \A b \in TextBlocks(h) : Place(h, b) \in TextBlocks(h)
  BY PlaceIs
<1>3. Positions(h) \subseteq Blocks
  BY PositionsAre
<1>4. QED
  BY <1>1, <1>2, <1>3 DEF Reach

\* What an image says does not depend on other blocks.
LEMMA ReachSame ==
    ASSUME NEW f, NEW g, Hdr(f.hdr), KeyGood(f), g.hdr = f.hdr, Same(f.mem, g.mem, Reach(f.hdr))
    PROVE  /\ MappedText(g.mem, f.hdr) = MappedText(f.mem, f.hdr)
           /\ DataBlocks(g.mem, f.hdr) = DataBlocks(f.mem, f.hdr)
           /\ KeyGood(g) /\ SessionKey(g) = SessionKey(f) /\ ImageTag(g) = ImageTag(f)
<1>1. PICK h : h = f.hdr
  OBVIOUS
<1>2. Hdr(h) /\ secure_decode_header(h) /\ Positions(h) # {}
  BY <1>1 DEF KeyGood
<1> DEFINE N == 1 .. BlockOf(h.text_end) - BlockOf(h.text_start)
<1>3. MappedText(g.mem, h) = MappedText(f.mem, h)
  <2>1. /\ MappedText(f.mem, h) = [i \in N |-> f.mem[Place(h, BlockOf(h.text_start) + i - 1)]]
        /\ MappedText(g.mem, h) = [i \in N |-> g.mem[Place(h, BlockOf(h.text_start) + i - 1)]]
        /\ \A i \in N : BlockOf(h.text_start) + i - 1 \in TextBlocks(h)
    BY <1>2, TextIs
  <2>2. \A b \in TextBlocks(h) : g.mem[Place(h, b)] = f.mem[Place(h, b)]
    BY <1>1 DEF Same, Reach
  <2>3. QED
    BY <2>1, <2>2
<1>4. DataBlocks(g.mem, h) = DataBlocks(f.mem, h)
  BY <1>1, <1>2, SameData DEF Same, Reach
<1>5. Hidden(g) = Hidden(f)
  BY <1>1, <1>2, SameHidden DEF Same, Reach
<1>6. QED
  BY <1>1, <1>3, <1>4, <1>5, Agree

LEMMA LiveSame ==
    ASSUME NEW f, NEW g, NEW c, Live(f, c), g.hdr = f.hdr, Same(f.mem, g.mem, Reach(f.hdr))
    PROVE  Live(g, c) /\ ImageTag(g) = ImageTag(f)
<1>1. /\ MappedText(g.mem, f.hdr) = MappedText(f.mem, f.hdr)
      /\ DataBlocks(g.mem, f.hdr) = DataBlocks(f.mem, f.hdr)
      /\ KeyGood(g) /\ SessionKey(g) = SessionKey(f) /\ ImageTag(g) = ImageTag(f)
  BY ReachSame DEF Live
<1>2. KeyOf(g) = KeyOf(f)
  BY DEF KeyOf
<1>3. Contents(g, KeyOf(g)) = Contents(f, KeyOf(f))
  BY <1>1, <1>2 DEF Contents
<1>4. /\ \A b \in TextBlocks(f.hdr) : g.mem[Place(f.hdr, b)] = f.mem[Place(f.hdr, b)]
      /\ \A b \in DataRegion(f.hdr) : g.mem[b] = f.mem[b]
  BY DEF Same, Reach
<1>5. QED
  BY <1>1, <1>2, <1>3, <1>4 DEF Live

\* An image that passes the checks with tags of sealed images has the contents of one of them.
LEMMA Unforged ==
    ASSUME NEW q, Hdr(q.hdr), KeyGood(q), ImageTag(q) = q.hdr.img_tag,
           NEW f, NEW c, Sound(f, c), q.hdr.img_tag = f.hdr.img_tag,
           NEW g, NEW d, Sound(g, d), q.hdr.key_tag = g.hdr.key_tag
    PROVE  Sound(q, c)
<1>1. ImageTag(q) = ImageTag(f)
  BY DEF Sound
<1>2. /\ Fields(q.hdr) = Fields(f.hdr) /\ q.hdr.nonce = f.hdr.nonce
      /\ SessionKey(q) = SessionKey(f) /\ Meas(q) = Meas(f)
      /\ MappedText(q.mem, q.hdr) = MappedText(f.mem, f.hdr)
      /\ DataBlocks(q.mem, q.hdr) = DataBlocks(f.mem, f.hdr)
  BY <1>1 DEF ImageTag, secure_compute_img_tag, hmac_sha256, Meas
<1>3. /\ q.hdr.policy = f.hdr.policy /\ q.hdr.text_start = f.hdr.text_start
      /\ q.hdr.text_words = f.hdr.text_words /\ q.hdr.text_end = f.hdr.text_end
      /\ q.hdr.data_start = f.hdr.data_start /\ q.hdr.data_words = f.hdr.data_words
      /\ q.hdr.data_end = f.hdr.data_end /\ q.hdr.data_flags = f.hdr.data_flags
      /\ q.hdr.epoch = f.hdr.epoch
  BY <1>2 DEF Fields
<1>4. q.hdr.wrapped = WrapKey(KeyOf(q), SessionKey(q))
  <2>1. secure_compute_key_tag(q.hdr, Hidden(q), SessionKey(q), Meas(q))
        = secure_compute_key_tag(g.hdr, Hidden(g), SessionKey(g), Meas(g))
    BY DEF Sound, Live, KeyGood
  <2>2. Hidden(q) = Hidden(g) /\ SessionKey(q) = SessionKey(g) /\ q.hdr.nonce = g.hdr.nonce
    BY <2>1 DEF secure_compute_key_tag, hmac_sha256
  <2>3. Hidden(g) = WrapKey(KeyOf(g), SessionKey(g)) /\ Hidden(q) = q.hdr.wrapped
    BY DEF Sound, Live, KeyGood
  <2>4. QED
    BY <2>2, <2>3 DEF KeyOf
<1>5. KeyOf(q) = KeyOf(f)
  BY <1>2 DEF KeyOf
<1>6. TextBlocks(q.hdr) = TextBlocks(f.hdr) /\ DataRegion(q.hdr) = DataRegion(f.hdr)
      /\ Params(q.hdr) = Params(f.hdr) /\ OwnText(q.hdr)
  BY <1>3 DEF TextBlocks, DataRegion, Params, Sound, Live, OwnText
<1>7. Contents(q, KeyOf(q)) = Contents(f, KeyOf(f))
  BY <1>2, <1>3, <1>5 DEF Contents
<1>8. PICK h : h = f.hdr
  OBVIOUS
<1>9. Hdr(h) /\ secure_decode_header(h) /\ secure_decode_header(q.hdr)
  BY <1>8 DEF Sound, Live, KeyGood
<1>10. BlockOf(h.text_start) \in Nat /\ BlockOf(h.text_end) \in Nat
       /\ BlockOf(h.data_start) \in Nat /\ BlockOf(h.data_end) \in Nat
  BY <1>9, RegionBlocks
<1>11. ASSUME NEW b \in TextBlocks(h) PROVE q.mem[Place(q.hdr, b)] = f.mem[Place(h, b)]
  <2>1. PICK i \in 1 .. BlockOf(h.text_end) - BlockOf(h.text_start) : b = BlockOf(h.text_start) + i - 1
    BY <1>10, <1>11, b - BlockOf(h.text_start) + 1 \in 1 .. BlockOf(h.text_end) - BlockOf(h.text_start)
       DEF TextBlocks
  <2>2. MappedText(f.mem, h)[i] = f.mem[Place(h, b)]
    BY <2>1 DEF MappedText, Place, Params
  <2>3. MappedText(q.mem, q.hdr)[i] = q.mem[Place(q.hdr, b)]
    BY <2>1, <1>3, <1>8 DEF MappedText, Place, Params
  <2>4. QED
    BY <2>2, <2>3, <1>2, <1>8
<1>12. ASSUME NEW b \in DataRegion(h) PROVE q.mem[b] = f.mem[b]
  <2>1. PICK i \in 1 .. BlockOf(h.data_end) - BlockOf(h.data_start) : b = BlockOf(h.data_start) + i - 1
    BY <1>10, <1>12, b - BlockOf(h.data_start) + 1 \in 1 .. BlockOf(h.data_end) - BlockOf(h.data_start)
       DEF DataRegion
  <2>2. DataBlocks(f.mem, h)[i] = f.mem[b] /\ DataBlocks(q.mem, q.hdr)[i] = q.mem[b]
    BY <2>1, <1>3, <1>8 DEF DataBlocks
  <2>3. QED
    BY <2>2, <1>2, <1>8
<1>13. /\ \A b \in TextBlocks(q.hdr) : Own(q.mem[Place(q.hdr, b)], KeyOf(q))
       /\ \A b \in DataRegion(q.hdr) : Own(q.mem[b], KeyOf(q))
  BY <1>5, <1>6, <1>8, <1>11, <1>12 DEF Sound, Live
<1>14. QED
  BY <1>3, <1>4, <1>5, <1>6, <1>7, <1>13 DEF Sound, Live

LEMMA Prefix ==
    ASSUME NEW S, NEW s \in Seq(S), NEW k \in 0 .. Len(s)
    PROVE  SubSeq(s, 1, k) = [i \in 1 .. k |-> s[i]]
<1>1. SubSeq(s, 1, k) = [i \in 1 .. (1 + k - 1) |-> s[i + 1 - 1]]
  OBVIOUS
<1>2. 1 + k - 1 = k /\ \A i \in 1 .. k : i + 1 - 1 = i
  OBVIOUS
<1>3. QED
  BY <1>1, <1>2

LEMMA Deciphered ==
    ASSUME NEW new, NEW old, NEW key, Enciphered(new, old, key)
    PROVE  aes_decrypt_block(new, key) = old.words
  BY DEF Enciphered, aes_decrypt_block

\* The image file of an assembled program has the program's text and data.
LEMMA MadeIsSound ==
    ASSUME NEW text, NEW data, Words(text, data), NEW key \in AppKeys, NEW g, Made(g, text, data, key),
           DataEndOf(text, data) <= HideLow,
           NEW put, put = [text |-> text, data |-> Padded(data), words |-> Len(data)]
    PROVE  Sound(g, put)
<1>1. PICK h, m : h = g.hdr /\ m = plain_image(text, data)
  OBVIOUS
<1>2. /\ Hdr(h) /\ Settings(h, text, data) /\ OwnText(h) /\ KeyOf(g) = key /\ SealedBy(g, key)
      /\ secure_decode_header(h)
  BY <1>1 DEF Made, Image, KeyOf, SealedBy, KeyGood
<1>3. /\ h.text_start = SEC_HDR_WORDS /\ h.text_words = Len(text) /\ h.text_end = TextEndOf(text)
      /\ h.data_start = TextEndOf(text) /\ h.data_words = Len(data)
      /\ h.data_end = DataEndOf(text, data) /\ h.data_flags = TRUE /\ h.policy = TRUE
  BY <1>2, Parameters DEF Settings
<1>4. /\ Len(text) \in Nat /\ Len(data) \in Nat
      /\ TextEndOf(text) \in Nat /\ Aligned(TextEndOf(text))
      /\ SEC_HDR_WORDS + Len(text) <= TextEndOf(text)
      /\ DataEndOf(text, data) \in Nat /\ Aligned(DataEndOf(text, data))
      /\ TextEndOf(text) + Len(data) <= DataEndOf(text, data)
      /\ DataEndOf(text, data) = TextEndOf(text) + align_up_words(Len(data))
  BY SizesAre DEF Words
<1>5. DataRegion(h) \cap Positions(h) = {}
  BY <1>2, <1>3, DataIsFree
<1>6. /\ \A b \in TextBlocks(h) : Enciphered(g.mem[Place(h, b)], m[b], key)
      /\ \A b \in DataRegion(h) : Enciphered(g.mem[b], m[b], key)
  BY <1>1, <1>5 DEF Made
<1>7. \A w \in 0 .. DataEndOf(text, data) - SEC_HDR_WORDS - 1 :
          m[BlockOf(SEC_HDR_WORDS) + BlockOf(w)].words[SlotOf(w)] = All(text, data)[w + 1]
  BY <1>1, PlainIs
<1>8. Aligned(SEC_HDR_WORDS) /\ SEC_HDR_WORDS \in Nat
  BY Parameters DEF Aligned
<1>9. PICK n : n = BlockOf(h.text_end) - BlockOf(h.text_start)
  OBVIOUS
<1>10. n * INSTRS_PER_BLOCK = TextEndOf(text) - SEC_HDR_WORDS
  BY <1>3, <1>4, <1>8, <1>9, RegionWords
<1>11. ASSUME NEW w \in 1 .. n * INSTRS_PER_BLOCK
       PROVE  aes_decrypt_block(MappedText(g.mem, h)[BlockOf(w - 1) + 1], key)[SlotOf(w - 1)]
              = All(text, data)[w]
  <2>1. BlockOf(w - 1) \in Nat /\ BlockOf(w - 1) + 1 \in 1 .. n /\ w - 1 \in Nat
    BY <1>3, <1>4, <1>8, <1>9, <1>10, RegionIndex
  <2>2. PICK j \in 1 .. n : j = BlockOf(w - 1) + 1
    BY <2>1
  <2>3. PICK b : b = BlockOf(h.text_start) + j - 1
    OBVIOUS
  <2>4. b \in TextBlocks(h)
    BY <2>2, <2>3, <1>2, <1>9, TextIs
  <2>5. b = BlockOf(SEC_HDR_WORDS) + BlockOf(w - 1)
    BY <2>1, <2>2, <2>3, <1>3, BlocksAre
  <2>6. MappedText(g.mem, h)[j] = g.mem[Place(h, b)]
    BY <2>2, <2>3, <1>9 DEF MappedText, Place, Params
  <2>7. aes_decrypt_block(g.mem[Place(h, b)], key) = m[b].words
    BY <2>4, <1>6, Deciphered
  <2>8. m[b].words[SlotOf(w - 1)] = All(text, data)[w]
    <3>1. PICK v : v = w - 1
      OBVIOUS
    <3>2. v \in 0 .. DataEndOf(text, data) - SEC_HDR_WORDS - 1 /\ v + 1 = w
      BY <3>1, <2>1, <1>4, <1>8, <1>10, <1>11
    <3>3. QED
      BY <3>1, <3>2, <2>5, <1>7
  <2>9. QED
    BY <2>2, <2>6, <2>7, <2>8
<1>12. ASSUME NEW i \in 1 .. h.data_end - h.data_start
       PROVE  aes_decrypt_block(DataBlocks(g.mem, h)[BlockOf(i - 1) + 1], key)[SlotOf(i - 1)]
              = Padded(data)[i]
  <2>1. /\ BlockOf(i - 1) \in Nat /\ BlockOf(i - 1) + 1 \in 1 .. BlockOf(h.data_end) - BlockOf(h.data_start)
        /\ BlockOf(h.data_start + i - 1) = BlockOf(h.data_start) + BlockOf(i - 1)
        /\ SlotOf(h.data_start + i - 1) = SlotOf(i - 1)
    BY <1>3, <1>4, RegionIndex
  <2>2. PICK j \in 1 .. BlockOf(h.data_end) - BlockOf(h.data_start) : j = BlockOf(i - 1) + 1
    BY <2>1
  <2>3. PICK b : b = BlockOf(h.data_start) + j - 1
    OBVIOUS
  <2>4. b \in DataRegion(h)
    BY <2>2, <2>3, <1>2, TextIs
  <2>5. PICK w \in Nat : w = TextEndOf(text) - SEC_HDR_WORDS + i - 1
    BY <1>4, <1>8, <1>12, <1>3
  <2>6. w \in 0 .. DataEndOf(text, data) - SEC_HDR_WORDS - 1
    BY <2>5, <1>3, <1>4, <1>8, <1>12
  <2>7. b = BlockOf(SEC_HDR_WORDS) + BlockOf(w) /\ SlotOf(w) = SlotOf(i - 1)
    <3>1. BlockOf(SEC_HDR_WORDS + w) = BlockOf(SEC_HDR_WORDS) + BlockOf(w) /\ SlotOf(SEC_HDR_WORDS + w) = SlotOf(w)
      BY <1>8, Offset
    <3>2. SEC_HDR_WORDS + w = h.data_start + i - 1
      BY <2>5, <1>3, <1>4, <1>8, <1>12
    <3>3. BlockOf(h.data_start) \in Nat
      BY <1>3, <1>4, WordIs
    <3>4. b = BlockOf(h.data_start) + BlockOf(i - 1)
      BY <2>1, <2>2, <2>3, <3>3
    <3>5. QED
      BY <3>1, <3>2, <3>4, <2>1
  <2>8. m[b].words[SlotOf(i - 1)] = All(text, data)[w + 1]
    BY <2>6, <2>7, <1>7
  <2>9. All(text, data)[w + 1] = Padded(data)[i]
    <3>1. i \in 1 .. align_up_words(Len(data))
      <4>1. align_up_words(Len(data)) \in Nat
        BY <1>4, AlignUp
      <4>2. h.data_end - h.data_start = align_up_words(Len(data))
        BY <4>1, <1>3, <1>4
      <4>3. QED
        BY <4>1, <4>2, <1>12
    <3>2. w + 1 = TextEndOf(text) - SEC_HDR_WORDS + i
      BY <2>5, <1>4, <1>8, <1>12, <1>3
    <3>3. QED
      BY <3>1, <3>2, AllIs
  <2>10. DataBlocks(g.mem, h)[j] = g.mem[b]
    BY <2>2, <2>3 DEF DataBlocks
  <2>11. aes_decrypt_block(g.mem[b], key) = m[b].words
    BY <2>4, <1>6, Deciphered
  <2>12. QED
    BY <2>2, <2>8, <2>9, <2>10, <2>11
<1> DEFINE all == [w \in 1 .. n * INSTRS_PER_BLOCK |->
                     aes_decrypt_block(MappedText(g.mem, h)[BlockOf(w - 1) + 1], key)[SlotOf(w - 1)]]
           words == [i \in 1 .. h.data_end - h.data_start |->
                       aes_decrypt_block(DataBlocks(g.mem, h)[BlockOf(i - 1) + 1], key)[SlotOf(i - 1)]]
<1>13. SubSeq(all, 1, Len(text)) = text
  <2>1. PICK N \in Nat : N = n * INSTRS_PER_BLOCK
    BY <1>4, <1>8, <1>10
  <2>2. DOMAIN all = 1 .. N /\ all \in [1 .. N -> {All(text, data)[w] : w \in 1 .. N}]
        /\ \A w \in 1 .. N : all[w] = All(text, data)[w]
    BY <2>1, <1>11
  <2> HIDE DEF all
  <2>3. PICK S : all \in Seq(S) /\ Len(all) = N
    <3>1. PICK S : S = {All(text, data)[w] : w \in 1 .. N}
      OBVIOUS
    <3>2. all \in [1 .. N -> S]
      BY <2>2, <3>1
    <3>3. all \in Seq(S) /\ Len(all) = N
      BY <2>1, <3>2
    <3>4. QED
      BY <3>3
  <2>4. Len(text) \in 0 .. N
    BY <2>1, <1>4, <1>8, <1>10
  <2>5. SubSeq(all, 1, Len(text)) = [i \in 1 .. Len(text) |-> all[i]]
    BY <2>3, <2>4, Prefix
  <2>6. \A i \in 1 .. Len(text) : all[i] = text[i]
    <3>1. \A i \in 1 .. Len(text) : All(text, data)[i] = text[i]
      BY AllIs
    <3>2. \A i \in 1 .. Len(text) : i \in 1 .. N
      BY <2>1, <2>4, <1>4
    <3>3. QED
      BY <2>2, <3>1, <3>2
  <2>7. text = [i \in 1 .. Len(text) |-> text[i]]
    BY DEF Words
  <2>8. QED
    BY <2>5, <2>6, <2>7
<1>14. words = Padded(data)
  <2>1. Padded(data) \in Seq(Range(data) \cup {ZeroWord}) /\ Len(Padded(data)) = align_up_words(Len(data))
    BY PaddedIs DEF Words
  <2>2. h.data_end - h.data_start = align_up_words(Len(data)) /\ align_up_words(Len(data)) \in Nat
    BY <1>3, <1>4, AlignUp
  <2>3. Padded(data) = [i \in 1 .. h.data_end - h.data_start |-> Padded(data)[i]]
    BY <2>1, <2>2
  <2>4. QED
    BY <2>3, <1>12
<1>15. Contents(g, key) = [text |-> SubSeq(all, 1, Len(text)), data |-> words, words |-> Len(data)]
  BY <1>1, <1>3, <1>9 DEF Contents
<1> HIDE DEF all, words
<1>16. Contents(g, key) = put
  BY <1>13, <1>14, <1>15
<1>17. /\ \A b \in TextBlocks(h) : Own(g.mem[Place(h, b)], key)
       /\ \A b \in DataRegion(h) : Own(g.mem[b], key)
  BY <1>6 DEF Enciphered, Own
<1>18. QED
  BY <1>1, <1>2, <1>3, <1>4, <1>16, <1>17 DEF Sound, Live, SealedBy
-----------------------------------------------------------------------------
(* The decryptor.                                                            *)

\* What it reads of a sound image, word by word.
LEMMA PlainWords ==
    ASSUME NEW p, Process(p), NEW c, Live(p, c), p.region = <<p.hdr>>,
           NEW d, d = dump_data_region_plain(p)
    PROVE  /\ DOMAIN d = 1 .. c.words /\ \A i \in DOMAIN d : d[i].rc = 0
           /\ [i \in DOMAIN d |-> d[i].value] = SubSeq(c.data, 1, c.words)
<1>1. PICK h, key : h = p.hdr /\ key = KeyOf(p)
  OBVIOUS
<1>2. /\ Hdr(h) /\ secure_decode_header(h) /\ KeyGood(p) /\ h.data_flags = TRUE /\ h.data_words \in Nat
      /\ c = Contents(p, key) /\ h.wrapped = WrapKey(key, SessionKey(p))
  BY <1>1 DEF Live, KeyGood
<1>3. /\ h.data_start \in Nat /\ h.data_end \in Nat /\ h.data_start <= h.data_end
      /\ Aligned(h.data_start) /\ Aligned(h.data_end) /\ h.data_end <= MEM_SIZE
      /\ h.data_words <= h.data_end - h.data_start
  BY <1>2, RegionsAre, Parameters
<1>4. KeyChecks(p) = 0
  BY <1>2, KeyChecksAre
<1>5. UnwrapKey(h.wrapped, SessionKey(p)) = key
  BY <1>2 DEF UnwrapKey, WrapKey
<1>6. d = [i \in 1 .. h.data_words |-> secure_read_data_word_plain(p, h.data_start + i - 1)]
  BY <1>1 DEF dump_data_region_plain, secure_get_region
<1> DEFINE data == [i \in 1 .. h.data_end - h.data_start |->
                     aes_decrypt_block(DataBlocks(p.mem, h)[BlockOf(i - 1) + 1], key)[SlotOf(i - 1)]]
<1>7. c.data = data /\ c.words = h.data_words
  <2>1. PICK t : Contents(p, key) = [text |-> t, data |-> data, words |-> h.data_words]
    BY <1>1 DEF Contents
  <2> HIDE DEF data
  <2>2. QED
    BY <2>1, <1>2
<1>8. ASSUME NEW i \in 1 .. h.data_words
      PROVE  d[i].rc = 0 /\ d[i].value = data[i]
  <2>1. i \in 1 .. h.data_end - h.data_start
    BY <1>2, <1>3, <1>8
  <2>2. /\ BlockOf(i - 1) \in Nat /\ BlockOf(i - 1) + 1 \in 1 .. BlockOf(h.data_end) - BlockOf(h.data_start)
        /\ BlockOf(h.data_start + i - 1) = BlockOf(h.data_start) + BlockOf(i - 1)
        /\ SlotOf(h.data_start + i - 1) = SlotOf(i - 1)
    BY <2>1, <1>3, RegionIndex
  <2>3. PICK w \in Nat : w = h.data_start + i - 1
    BY <1>3, <2>1
  <2>4. w < MEM_SIZE /\ ~(w < h.data_start) /\ ~(w >= h.data_end)
    BY <2>1, <2>3, <1>3, Parameters
  <2>5. PICK x : x = aes_decrypt_block(p.mem[BlockOf(w)], key)[SlotOf(w)]
    OBVIOUS
  <2>6. secure_read_data_word_plain(p, w) = [rc |-> 0, value |-> x]
    BY <2>4, <2>5, <1>1, <1>2, <1>4, <1>5, Parameters DEF secure_read_data_word_plain
  <2>7. d[i] = [rc |-> 0, value |-> x]
    BY <2>3, <2>6, <1>6, <1>8
  <2>8. p.mem[BlockOf(w)] = DataBlocks(p.mem, h)[BlockOf(i - 1) + 1]
    <3>1. BlockOf(h.data_start) \in Nat
      BY <1>3, WordIs
    <3>2. BlockOf(h.data_start) + (BlockOf(i - 1) + 1) - 1 = BlockOf(w)
      BY <3>1, <2>2, <2>3
    <3>3. QED
      BY <3>2, <2>2 DEF DataBlocks
  <2>9. data[i] = x
    BY <2>1, <2>2, <2>3, <2>5, <2>8
  <2> HIDE DEF data
  <2>10. QED
    BY <2>7, <2>9
<1>9. DOMAIN d = 1 .. h.data_words
  BY <1>6
<1>10. [i \in DOMAIN d |-> d[i].value] = [i \in 1 .. h.data_words |-> data[i]]
  <2> HIDE DEF data
  <2>1. QED
    BY <1>8, <1>9
<1>11. SubSeq(data, 1, h.data_words) = [i \in 1 .. h.data_words |-> data[i]]
  <2>1. PICK N \in Nat : N = h.data_end - h.data_start
    BY <1>3
  <2>2. PICK S : S = {data[i] : i \in 1 .. N}
    OBVIOUS
  <2>3. data \in [1 .. N -> S]
    BY <2>1, <2>2
  <2> HIDE DEF data
  <2>4. data \in Seq(S) /\ Len(data) = N
    BY <2>3
  <2>5. h.data_words \in 0 .. Len(data)
    BY <2>1, <2>4, <1>2, <1>3
  <2>6. QED
    BY <2>4, <2>5, Prefix
<1> HIDE DEF data
<1>12. QED
  BY <1>7, <1>8, <1>9, <1>10, <1>11

\* What it writes for a sound image; it fails on one that does not pass the checks.
Dumped(d, f) ==
    /\ d.rc = 0 => KeyGood(f) /\ ImageTag(f) = f.hdr.img_tag
    /\ \A c : Sound(f, c) => d.rc = 0 /\ d.text = c.text /\ d.data = SubSeq(c.data, 1, c.words)

LEMMA DecryptorIs ==
    ASSUME NEW f, Image(f), NEW d, d = decryptor(f)
    PROVE  Dumped(d, f)
<1>1. PICK p : p = [Fresh EXCEPT !.hdr = f.hdr, !.mem = f.mem]
  OBVIOUS
<1>2. Process(p) /\ p.hdr = f.hdr /\ p.mem = f.mem /\ p.locked = FALSE
  <2>1. DOMAIN p = PFields /\ p.hdr = f.hdr /\ p.mem = f.mem /\ p.locked = FALSE
    BY <1>1, FreshIs DEF Process, PFields
  <2>2. QED
    BY <2>1 DEF Process, Image
<1>3. PICK v : v = secure_validate_image(p)
  OBVIOUS
<1>4. /\ v.rc = 0 <=> KeyGood(p) /\ ImageTag(p) = p.hdr.img_tag
      /\ v.rc = 0 => v.p = Adopted(p)
  BY <1>3, ValidateIs
<1>5. v.rc = 0 <=> KeyGood(f) /\ ImageTag(f) = f.hdr.img_tag
  BY <1>2, <1>4, SameImage
<1>6. d = extract_and_dump(v)
  BY <1>1, <1>3 DEF decryptor
<1>7. v.rc # 0 => d.rc # 0
  BY <1>6 DEF extract_and_dump, NoDump
<1>8. ASSUME NEW c, Sound(f, c) PROVE d.rc = 0 /\ d.text = c.text /\ d.data = SubSeq(c.data, 1, c.words)
  <2>1. v.rc = 0 /\ v.p = Adopted(p)
    BY <1>4, <1>5, <1>8 DEF Sound, Live
  <2>2. Process(v.p) /\ Same(p, v.p, PFields \ {"region", "map"})
    BY <2>1, <1>2, AdoptIs
  <2>3. v.p.hdr = f.hdr /\ v.p.mem = f.mem /\ v.p.locked = FALSE
    BY <2>2, <1>2 DEF Same, PFields
  <2>4. PICK x : x = extract_key_from_large_block(v.p)
    OBVIOUS
  <2>5. SealedBy(v.p, KeyOf(f))
    BY <2>3, <1>8, SameImage DEF SealedBy, Sound, Live
  <2>6. x.rc = 0 /\ x.key = KeyOf(f) /\ x.p = Adopted(v.p)
    BY <2>2, <2>4, <2>5, OpenIs
  <2>7. /\ Process(x.p) /\ Same(v.p, x.p, PFields \ {"region", "map"})
        /\ x.p.region = <<v.p.hdr>>
        /\ x.p.map = <<secure_build_map_params(v.p.hdr.text_start, v.p.hdr.text_end, v.p.hdr.epoch)>>
    BY <2>2, <2>6, AdoptIs
  <2>8. x.p.hdr = f.hdr /\ x.p.mem = f.mem /\ x.p.locked = FALSE
    BY <2>3, <2>7 DEF Same, PFields
  <2>9. x.p.region = <<x.p.hdr>> /\ x.p.map = <<Params(x.p.hdr)>>
    BY <2>3, <2>7, <2>8 DEF Params
  <2>10. Live(x.p, c)
    BY <2>8, <1>8, LiveSame DEF Same, Sound
  <2>11. secure_decode_header(x.p.hdr) /\ KeyOf(x.p) = KeyOf(f) /\ c = Contents(x.p, KeyOf(f))
    BY <2>8, <2>10 DEF Live, KeyGood, KeyOf
  <2>12. decrypt_text_region(x.p, x.key) = c.text
    BY <2>6, <2>7, <2>9, <2>11, ContentIs
  <2>13. PICK data : data = dump_data_region_plain(x.p)
    OBVIOUS
  <2>14. /\ DOMAIN data = 1 .. c.words /\ \A i \in DOMAIN data : data[i].rc = 0
         /\ [i \in DOMAIN data |-> data[i].value] = SubSeq(c.data, 1, c.words)
    BY <2>7, <2>9, <2>10, <2>13, PlainWords
  <2>15. read_and_validate_metadata(x.p)
    <3>1. PICK g : g = [x.p.hdr EXCEPT !.magic = TRUE]
      OBVIOUS
    <3>2. Hdr(x.p.hdr)
      BY <2>7 DEF Process
    <3>3. DOMAIN g = HFields /\ g.magic = TRUE /\ Same(x.p.hdr, g, HFields \ {"magic"})
      BY <3>1, <3>2 DEF Hdr, HFields, Same
    <3>4. secure_decode_header(g)
      BY <3>3, <2>11 DEF secure_decode_header, Same, HFields
    <3>5. QED
      BY <3>1, <3>4, <2>9 DEF read_and_validate_metadata, secure_get_region
  <2>16. d = decrypt_and_dump(x)
    BY <2>1, <2>3, <2>4, <1>6 DEF extract_and_dump
  <2>17. d = dump(c.text, data)
    BY <2>16, <2>6, <2>8, <2>12, <2>13, <2>15 DEF decrypt_and_dump
  <2>18. PICK words : words = [i \in DOMAIN data |-> data[i].value]
    OBVIOUS
  <2>19. d = [rc |-> 0, text |-> c.text, data |-> words]
    BY <2>14, <2>17, <2>18 DEF dump
  <2>20. QED
    BY <2>14, <2>18, <2>19
<1>9. QED
  BY <1>5, <1>7, <1>8 DEF Dumped
-----------------------------------------------------------------------------
(* What the history of image files allows.                                   *)

SealedIn(P) == {e.content[1] : e \in {old \in P : old.content # <<>>}}

\* Tags are made by sealing only: a header has none, or tags of files that were sealed.
TagFrom(tag, f, P) == tag = NoTerm \/ \E e \in {old \in P : old.content # <<>>} : tag = e.image[1].hdr[f]
Tagged(h, P) == TagFrom(h.img_tag, "img_tag", P) /\ TagFrom(h.key_tag, "key_tag", P)

\* A file in the history, and its content if it is as it was sealed.
Kept(im, c, P) ==
    /\ Tagged(im[1].hdr, P)
    /\ c # <<>> => c = <<c[1]>> /\ c[1] \in SealedIn(P) /\ Sound(im[1], c[1])

\* A run, under way or over.
CpuKept(c, S) ==
    /\ c.running => /\ c.now = <<c.now[1]>> /\ Live(c.p, c.now[1]) /\ c.key = KeyOf(c.p)
                    /\ c.opened # <<>> /\ c.p.locked \in BOOLEAN /\ (c.legal => c.p.locked = FALSE)
                    /\ \A b \in Reach(c.p.hdr) : InFile(b, c.io)
    /\ c.opened # <<>> => c.opened[1] \in S
    /\ c.intact # <<>> => c.opened # <<>> /\ c.opened[1] = c.intact[1]
    /\ (~c.running /\ c.legal /\ c.opened # <<>>) => c.clean /\ Sound(c.p, c.now[1])

OutKept(o, S) ==
    /\ o.rc = 0 => \E c \in S : o.text = c.text /\ o.data = SubSeq(c.data, 1, c.words)
    /\ o.of # <<>> => o.rc = 0 /\ o.text = o.of[1].text
                      /\ o.data = SubSeq(o.of[1].data, 1, o.of[1].words)

Trust ==
    /\ \A e \in pool : Kept(e.image, e.content, pool)
    /\ image # <<>> => Kept(image, content, pool)
    /\ CpuKept(cpu, SealedIn(pool))
    /\ OutKept(out, SealedIn(pool))

LEMMA HistoryGrows ==
    ASSUME NEW P, NEW Q, P \subseteq Q
    PROVE  /\ SealedIn(P) \subseteq SealedIn(Q)
           /\ \A h : Tagged(h, P) => Tagged(h, Q)
           /\ \A im, c : Kept(im, c, P) => Kept(im, c, Q)
           /\ \A c : CpuKept(c, SealedIn(P)) => CpuKept(c, SealedIn(Q))
           /\ \A o : OutKept(o, SealedIn(P)) => OutKept(o, SealedIn(Q))
<1>1. SealedIn(P) \subseteq SealedIn(Q)
  BY DEF SealedIn
<1>2. \A h : Tagged(h, P) => Tagged(h, Q)
  BY DEF Tagged, TagFrom
<1>3. QED
  BY <1>1, <1>2 DEF Kept, CpuKept, OutKept

\* What is sealed last has tags from the history too.
LEMMA SealedIsKept ==
    ASSUME NEW P, NEW im, NEW c, NEW e, e.image = im, e.content = <<c>>, e \in P, Sound(im[1], c)
    PROVE  Kept(im, <<c>>, P)
<1>1. e \in {old \in P : old.content # <<>>}
  <2>1. e.content # <<>>
    BY <<c>> # <<>>
  <2>2. QED
    BY <2>1
<1>2. Tagged(im[1].hdr, P)
  BY <1>1 DEF Tagged, TagFrom
<1>3. e.content[1] = c /\ e.content[1] \in SealedIn(P)
  BY <1>1 DEF SealedIn
<1>4. QED
  BY <1>2, <1>3 DEF Kept

\* What passes the checks was sealed.
LEMMA ValidIsSealed ==
    ASSUME NEW P, \A e \in P : Kept(e.image, e.content, P),
           NEW q, Hdr(q.hdr), Tagged(q.hdr, P), KeyGood(q), ImageTag(q) = q.hdr.img_tag
    PROVE  \E c \in SealedIn(P) : Sound(q, c)
<1>1. q.hdr.img_tag # NoTerm /\ q.hdr.key_tag # NoTerm
  <2>1. ImageTag(q)[1] = "mac"
    BY DEF ImageTag, secure_compute_img_tag, hmac_sha256
  <2>2. q.hdr.key_tag[1] = "mac"
    BY DEF KeyGood, secure_compute_key_tag, hmac_sha256
  <2>3. NoTerm[1] = "none"
    BY DEF NoTerm
  <2>4. QED
    BY <2>1, <2>2, <2>3
<1>2. PICK e \in {old \in P : old.content # <<>>} : q.hdr.img_tag = e.image[1].hdr.img_tag
  BY <1>1 DEF Tagged, TagFrom
<1>3. PICK k \in {old \in P : old.content # <<>>} : q.hdr.key_tag = k.image[1].hdr.key_tag
  BY <1>1 DEF Tagged, TagFrom
<1>4. /\ e.content[1] \in SealedIn(P) /\ Sound(e.image[1], e.content[1])
      /\ Sound(k.image[1], k.content[1])
  BY <1>2, <1>3 DEF Kept
<1>5. Sound(q, e.content[1])
  BY <1>2, <1>3, <1>4, Unforged
<1>6. QED
  BY <1>4, <1>5

LEMMA EncryptTrust ==
    ASSUME HexFiles, DataBelowKey, Fits, Trust, Encrypt
    PROVE  Trust'
<1>1. PICK key \in AppKeys, epoch \in EpochOptions :
        \E new \in {encryptor(hex.text, hex.data, epoch, key)} :
           LET put == [text |-> hex.text, data |-> Padded(hex.data), words |-> Len(hex.data)]
           IN  /\ image' = IF new = <<>> THEN image ELSE new
               /\ content' = IF new = <<>> THEN content ELSE <<put>>
               /\ pool' = IF new = <<>> THEN pool
                          ELSE pool \cup {[image |-> new, content |-> <<put>>]}
  BY DEF Encrypt
<1>2. PICK new : new = encryptor(hex.text, hex.data, epoch, key)
  OBVIOUS
<1>3. PICK put : put = [text |-> hex.text, data |-> Padded(hex.data), words |-> Len(hex.data)]
  OBVIOUS
<1>4. PICK e : e = [image |-> new, content |-> <<put>>]
  OBVIOUS
<1>5. /\ image' = IF new = <<>> THEN image ELSE new
      /\ content' = IF new = <<>> THEN content ELSE <<put>>
      /\ pool' = IF new = <<>> THEN pool ELSE pool \cup {e}
  BY <1>1, <1>2, <1>3, <1>4
<1>6. cpu' = cpu /\ out' = out /\ hex.ok
  BY DEF Encrypt
<1>7. CASE new = <<>>
  BY <1>5, <1>6, <1>7 DEF Trust
<1>8. CASE new # <<>>
  <2>1. Words(hex.text, hex.data)
    BY <1>6, AcceptedWords
  <2>2. Made(new[1], hex.text, hex.data, key)
    BY <1>2, <1>8, <2>1, EncryptorIs
  <2>3. DataEndOf(hex.text, hex.data) <= HideLow
    BY <1>6 DEF DataBelowKey, DataEndOf, TextEndOf
  <2>4. Sound(new[1], put)
    BY <1>3, <2>1, <2>2, <2>3, MadeIsSound
  <2>5. e.image = new /\ e.content = <<put>> /\ pool' = pool \cup {e} /\ image' = new /\ content' = <<put>>
    BY <1>4, <1>5, <1>8
  <2>6. e \in pool' /\ pool \subseteq pool'
    BY <2>5
  <2>7. Kept(new, <<put>>, pool')
    BY <2>4, <2>5, <2>6, SealedIsKept
  <2>8. \A x \in pool' : Kept(x.image, x.content, pool')
    BY <2>5, <2>6, <2>7, HistoryGrows DEF Trust
  <2>9. CpuKept(cpu', SealedIn(pool')) /\ OutKept(out', SealedIn(pool'))
    BY <1>6, <2>6, HistoryGrows DEF Trust
  <2>10. QED
    BY <2>5, <2>7, <2>8, <2>9 DEF Trust
<1>9. QED
  BY <1>7, <1>8

\* Every block a sound image is read from came out of the file.
LEMMA SoundIsLoaded ==
    ASSUME NEW q, NEW f, NEW io, Loaded(q, f, io), NEW c, Live(q, c)
    PROVE  \A b \in Reach(q.hdr) : InFile(b, io)
<1>1. Hdr(q.hdr) /\ secure_decode_header(q.hdr) /\ OwnText(q.hdr) /\ Positions(q.hdr) # {}
  BY DEF Live, KeyGood
<1>2. Reach(q.hdr) \subseteq Blocks
  BY <1>1, ReachIs
<1>3. KeyOf(q) # NoKey
  BY ToolchainAssumption DEF Live
<1>4. \A b \in Positions(q.hdr) : q.mem[b].hid # <<>>
  <2>1. Hidden(q) = WrapKey(KeyOf(q), SessionKey(q))
    BY DEF Live, KeyGood
  <2>2. QED
    BY <2>1, <1>1, HiddenEverywhere
<1>5. \A b \in Reach(q.hdr) : q.mem[b].key # NoKey \/ q.mem[b].hid # <<>>
  BY <1>3, <1>4 DEF Reach, Live, Own
<1>6. ZeroBlock.key = NoKey /\ ZeroBlock.hid = <<>>
  BY FreshIs
<1>7. QED
  BY <1>2, <1>5, <1>6 DEF Loaded

LEMMA StartTrust ==
    ASSUME Shape, Trust, StartRun
    PROVE  Trust'
<1>1. PICK word_count \in WordCounts :
        LET io == IF word_count = 0 \/ word_count > MEM_SIZE THEN MEM_SIZE ELSE word_count
        IN  cpu' = FirstFetch(extract_key_from_large_block(LoadImage(cpu.p, image[1], io)), io,
                              IF io = MEM_SIZE THEN content ELSE <<>>)
  BY DEF StartRun
<1>2. PICK io \in Nat : io = IF word_count = 0 \/ word_count > MEM_SIZE THEN MEM_SIZE ELSE word_count
  BY ToolchainAssumption, Parameters
<1>3. PICK q : q = LoadImage(cpu.p, image[1], io)
  OBVIOUS
<1>4. PICK intact : intact = IF io = MEM_SIZE THEN content ELSE <<>>
  OBVIOUS
<1>5. cpu' = FirstFetch(extract_key_from_large_block(q), io, intact)
  BY <1>1, <1>2, <1>3, <1>4
<1>6. /\ image' = image /\ pool' = pool /\ content' = content /\ out' = out
      /\ Filed(image) /\ Kept(image, content, pool)
  BY DEF StartRun, Shape, Trust
<1>7. Loaded(q, image[1], io) /\ Process(q) /\ q.locked = FALSE
  <2>1. Loaded(q, image[1], io)
    BY <1>3, <1>6, LoadIs DEF Shape, Filed
  <2>2. QED
    BY <2>1 DEF Loaded
<1>8. Fetched(cpu', q, io, intact)
  BY <1>5, <1>7, FetchIs
<1>9. PICK S : S = SealedIn(pool)
  OBVIOUS
<1>10. ASSUME cpu'.running
       PROVE  \E c \in S : /\ Sound(q, c) /\ cpu'.opened = <<c>> /\ cpu'.now = <<c>>
                           /\ cpu'.key = KeyOf(q) /\ cpu'.p.hdr = q.hdr /\ cpu'.p.mem = q.mem
  <2>1. /\ KeyGood(q) /\ ImageTag(q) = q.hdr.img_tag /\ cpu'.p = Adopted(q)
        /\ cpu'.key = UnwrapKey(q.hdr.wrapped, SessionKey(q))
        /\ cpu'.opened = <<Content(cpu'.p, cpu'.key)>> /\ cpu'.now = <<Content(cpu'.p, cpu'.key)>>
    BY <1>8, <1>10 DEF Fetched
  <2>2. q.hdr = image[1].hdr
    BY <2>1, <1>7 DEF Loaded, KeyGood
  <2>3. Hdr(q.hdr) /\ Tagged(q.hdr, pool)
    BY <2>2, <1>6 DEF Kept, Filed, Image
  <2>4. PICK c \in S : Sound(q, c)
    BY <2>1, <2>3, <1>9, ValidIsSealed DEF Trust
  <2>5. cpu'.key = KeyOf(q)
    BY <2>1, <2>4 DEF Sound, Live, UnwrapKey, WrapKey
  <2>6. /\ Process(cpu'.p) /\ Same(q, cpu'.p, PFields \ {"region", "map"})
        /\ cpu'.p.region = <<q.hdr>>
        /\ cpu'.p.map = <<secure_build_map_params(q.hdr.text_start, q.hdr.text_end, q.hdr.epoch)>>
    BY <2>1, <1>7, AdoptIs
  <2>7. cpu'.p.hdr = q.hdr /\ cpu'.p.mem = q.mem
    BY <2>6 DEF Same, PFields
  <2>8. cpu'.p.region = <<cpu'.p.hdr>> /\ cpu'.p.map = <<Params(cpu'.p.hdr)>>
    BY <2>6, <2>7 DEF Params
  <2>9. Content(cpu'.p, cpu'.key) = Contents(cpu'.p, cpu'.key)
    BY <2>1, <2>6, <2>7, <2>8, ContentIs DEF KeyGood
  <2>10. Contents(cpu'.p, cpu'.key) = c
    <3>1. Contents(cpu'.p, cpu'.key) = Contents(q, KeyOf(q))
      BY <2>5, <2>7 DEF Contents
    <3>2. QED
      BY <3>1, <2>4 DEF Sound, Live
  <2>11. QED
    BY <2>1, <2>4, <2>5, <2>7, <2>9, <2>10
<1>11. ASSUME cpu'.running
       PROVE  /\ cpu'.now = <<cpu'.now[1]>> /\ Live(cpu'.p, cpu'.now[1]) /\ cpu'.key = KeyOf(cpu'.p)
              /\ cpu'.opened # <<>> /\ cpu'.p.locked \in BOOLEAN /\ cpu'.p.locked = FALSE
              /\ \A b \in Reach(cpu'.p.hdr) : InFile(b, cpu'.io)
              /\ cpu'.opened[1] \in S /\ cpu'.opened[1] = Contents(q, KeyOf(q))
  <2>1. PICK c \in S : /\ Sound(q, c) /\ cpu'.opened = <<c>> /\ cpu'.now = <<c>>
                       /\ cpu'.key = KeyOf(q) /\ cpu'.p.hdr = q.hdr /\ cpu'.p.mem = q.mem
    BY <1>10, <1>11
  <2>2. Live(cpu'.p, c)
    BY <2>1, LiveSame DEF Sound, Same
  <2>3. cpu'.io = io /\ cpu'.p.locked = FALSE
    BY <1>8, <1>11 DEF Fetched
  <2>4. \A b \in Reach(q.hdr) : InFile(b, io)
    BY <2>1, <1>7, SoundIsLoaded DEF Sound
  <2>5. c = Contents(q, KeyOf(q)) /\ KeyOf(cpu'.p) = KeyOf(q)
    BY <2>1 DEF Sound, Live, KeyOf
  <2>6. cpu'.now[1] = c /\ cpu'.opened[1] = c /\ cpu'.opened # <<>>
    BY <2>1
  <2>7. cpu'.now = <<cpu'.now[1]>>
    BY <2>1, <2>6
  <2>8. \A b \in Reach(cpu'.p.hdr) : InFile(b, cpu'.io)
    BY <2>1, <2>3, <2>4
  <2>9. Live(cpu'.p, cpu'.now[1]) /\ cpu'.key = KeyOf(cpu'.p)
    BY <2>1, <2>2, <2>5, <2>6
  <2>10. cpu'.opened[1] \in S /\ cpu'.opened[1] = Contents(q, KeyOf(q))
    BY <2>5, <2>6
  <2>11. QED
    BY <2>3, <2>6, <2>7, <2>8, <2>9, <2>10
<1>12. ASSUME intact # <<>>
       PROVE  cpu'.running /\ content = <<content[1]>> /\ intact = content
              /\ content[1] = Contents(q, KeyOf(q))
  <2>1. io = MEM_SIZE /\ intact = content /\ content # <<>>
    BY <1>4, <1>12
  <2>2. content = <<content[1]>> /\ Sound(image[1], content[1])
    BY <2>1, <1>6 DEF Kept
  <2>3. q.hdr = image[1].hdr /\ Same(image[1].mem, q.mem, Blocks)
    BY <2>1, <1>7 DEF Loaded
  <2>4. Reach(image[1].hdr) \subseteq Blocks
    BY <2>2, ReachIs DEF Sound, Live, KeyGood
  <2>5. Same(image[1].mem, q.mem, Reach(image[1].hdr))
    BY <2>3, <2>4 DEF Same
  <2>6. Live(q, content[1]) /\ ImageTag(q) = ImageTag(image[1])
    BY <2>2, <2>3, <2>5, LiveSame DEF Sound
  <2>7. KeyGood(q) /\ ImageTag(q) = q.hdr.img_tag /\ content[1] = Contents(q, KeyOf(q))
    BY <2>2, <2>3, <2>6 DEF Live, Sound
  <2>8. QED
    BY <2>1, <2>2, <2>7, <1>8 DEF Fetched
<1>13. cpu'.intact = intact /\ (~cpu'.running => cpu'.opened = <<>>)
  BY <1>8 DEF Fetched
<1>14. CpuKept(cpu', S)
  BY <1>11, <1>12, <1>13 DEF CpuKept
<1>15. QED
  BY <1>6, <1>9, <1>14 DEF Trust

\* A store changes the word it is for, and nothing else of what the program sees.
LEMMA StoreIsSeen ==
    ASSUME NEW p, Process(p), NEW c, Live(p, c), NEW w \in p.hdr.data_start .. p.hdr.data_end - 1, NEW v,
           NEW q, q = secure_write_encrypted_data_word(p, KeyOf(p), w, v),
           NEW d, d = [c EXCEPT !.data[w - p.hdr.data_start + 1] = v]
    PROVE  Live(q, d)
<1>1. PICK h, key : h = p.hdr /\ key = KeyOf(p)
  OBVIOUS
<1>2. /\ Hdr(h) /\ secure_decode_header(h) /\ OwnText(h) /\ KeyGood(p) /\ h.data_end <= HideLow
      /\ Positions(h) # {} /\ c = Contents(p, key)
  BY <1>1 DEF Live, KeyGood
<1>3. /\ h.data_start \in Nat /\ h.data_end \in Nat /\ h.data_start <= h.data_end
      /\ Aligned(h.data_start) /\ Aligned(h.data_end)
  BY <1>2, RegionsAre, Parameters
<1>4. w \in Nat /\ BlockOf(w) \in DataRegion(h) /\ BlockOf(w) \in Blocks
  BY <1>1, <1>2, DataWord
<1>5. PICK at : at = BlockOf(w)
  OBVIOUS
<1>6. /\ Process(q) /\ Same(p, q, PFields \ {"mem"}) /\ Same(p.mem, q.mem, Blocks \ {at})
      /\ Rewritten(q.mem[at], p.mem[at], key, SlotOf(w), v)
  BY <1>1, <1>4, <1>5, WriteIs
<1>7. q.hdr = h /\ KeyOf(q) = key
  BY <1>1, <1>6 DEF Same, PFields, KeyOf
<1>8. /\ TextBlocks(h) \subseteq Blocks \ {at} /\ DataRegion(h) \subseteq Blocks
      /\ Positions(h) \subseteq Blocks \ {at}
  BY <1>2, <1>4, <1>5, RegionBlocks, PositionsAre, DataIsFree
<1>9. MappedText(q.mem, h) = MappedText(p.mem, h)
  BY <1>2, <1>6, <1>8, SameText DEF Same
<1>10. Hidden(q) = Hidden(p)
  BY <1>1, <1>2, <1>6, <1>7, <1>8, SameHidden DEF Same
<1>11. KeyGood(q) /\ SessionKey(q) = SessionKey(p)
  BY <1>1, <1>2, <1>7, <1>9, <1>10, Agree
<1>12. Own(p.mem[at], key) /\ DOMAIN p.mem[at].words = 1 .. INSTRS_PER_BLOCK
  BY <1>1, <1>4, <1>5 DEF Live, Process, Mem
<1>13. Own(q.mem[at], key) /\ q.mem[at].words = [p.mem[at].words EXCEPT ![SlotOf(w)] = v]
  <2>1. aes_decrypt_block(p.mem[at], key) = p.mem[at].words
    BY <1>12 DEF aes_decrypt_block, Own
  <2>2. PICK words : words = [p.mem[at].words EXCEPT ![SlotOf(w)] = v]
    OBVIOUS
  <2>3. q.mem[at] = [key |-> key, words |-> words, hid |-> <<>>]
    BY <1>6, <2>1, <2>2 DEF Rewritten, aes_encrypt_block
  <2>4. QED
    BY <2>2, <2>3 DEF Own
<1>14. /\ \A b \in TextBlocks(h) : Own(q.mem[Place(h, b)], key)
       /\ \A b \in DataRegion(h) : Own(q.mem[b], key)
  <2>1. \A b \in TextBlocks(h) : Place(h, b) \in TextBlocks(h)
    BY <1>2, PlaceIs
  <2>2. /\ \A b \in TextBlocks(h) : Own(p.mem[Place(h, b)], key)
        /\ \A b \in DataRegion(h) : Own(p.mem[b], key)
    BY <1>1 DEF Live
  <2>3. \A b \in Blocks \ {at} : q.mem[b] = p.mem[b]
    BY <1>6 DEF Same
  <2>4. QED
    BY <2>1, <2>2, <2>3, <1>8, <1>13
<1> DEFINE old == [i \in 1 .. h.data_end - h.data_start |->
                     aes_decrypt_block(DataBlocks(p.mem, h)[BlockOf(i - 1) + 1], key)[SlotOf(i - 1)]]
           new == [i \in 1 .. h.data_end - h.data_start |->
                     aes_decrypt_block(DataBlocks(q.mem, h)[BlockOf(i - 1) + 1], key)[SlotOf(i - 1)]]
<1>15. PICK j : j = w - h.data_start + 1
  OBVIOUS
<1>16. ASSUME NEW i \in 1 .. h.data_end - h.data_start
       PROVE  /\ i = j => new[i] = v
              /\ i # j => new[i] = old[i]
  <2>1. /\ BlockOf(i - 1) \in Nat /\ BlockOf(i - 1) + 1 \in 1 .. BlockOf(h.data_end) - BlockOf(h.data_start)
        /\ BlockOf(h.data_start + i - 1) = BlockOf(h.data_start) + BlockOf(i - 1)
        /\ SlotOf(h.data_start + i - 1) = SlotOf(i - 1)
    BY <1>3, RegionIndex
  <2>2. PICK u \in Nat : u = h.data_start + i - 1
    BY <1>3, <1>16
  <2>3. BlockOf(h.data_start) \in Nat
    BY <1>3, WordIs
  <2>4. BlockOf(h.data_start) + (BlockOf(i - 1) + 1) - 1 = BlockOf(u)
    BY <2>1, <2>2, <2>3
  <2>5. /\ DataBlocks(p.mem, h)[BlockOf(i - 1) + 1] = p.mem[BlockOf(u)]
        /\ DataBlocks(q.mem, h)[BlockOf(i - 1) + 1] = q.mem[BlockOf(u)]
    BY <2>1, <2>4 DEF DataBlocks
  <2>6. /\ old[i] = aes_decrypt_block(p.mem[BlockOf(u)], key)[SlotOf(u)]
        /\ new[i] = aes_decrypt_block(q.mem[BlockOf(u)], key)[SlotOf(u)]
    BY <2>1, <2>2, <2>5, <1>16
  <2> HIDE DEF old, new
  <2>7. u < h.data_end /\ ~(u < h.data_start)
    BY <2>2, <1>3, <1>16
  <2>8. BlockOf(u) \in DataRegion(h)
    BY <2>2, <2>7, <1>2, <1>3, DataWord
  <2>9. SlotOf(u) \in 1 .. INSTRS_PER_BLOCK /\ SlotOf(w) \in 1 .. INSTRS_PER_BLOCK
    BY <2>2, <1>4, WordIs
  <2>10. CASE BlockOf(u) # at
    <3>1. q.mem[BlockOf(u)] = p.mem[BlockOf(u)]
      BY <2>8, <2>10, <1>6, <1>8 DEF Same
    <3>2. i # j
      BY <2>2, <2>10, <1>3, <1>4, <1>5, <1>15
    <3>3. QED
      BY <2>6, <3>1, <3>2
  <2>11. CASE BlockOf(u) = at
    <3>1. /\ aes_decrypt_block(p.mem[at], key) = p.mem[at].words
          /\ aes_decrypt_block(q.mem[at], key) = [p.mem[at].words EXCEPT ![SlotOf(w)] = v]
      BY <1>12, <1>13 DEF Own, aes_decrypt_block
    <3>2. i = j <=> SlotOf(u) = SlotOf(w)
      <4>1. i = j <=> u = w
        BY <2>2, <1>3, <1>4, <1>15, <1>16
      <4>2. u = w <=> SlotOf(u) = SlotOf(w)
        BY <2>2, <2>11, <1>4, <1>5, WordIs, Parameters
      <4>3. QED
        BY <4>1, <4>2
    <3>3. QED
      BY <2>6, <2>9, <2>11, <3>1, <3>2, <1>12
  <2>12. QED
    BY <2>10, <2>11
<1>17. new = [old EXCEPT ![j] = v]
  <2>1. DOMAIN old = 1 .. h.data_end - h.data_start /\ new = [i \in 1 .. h.data_end - h.data_start |-> new[i]]
    OBVIOUS
  <2> HIDE DEF old, new
  <2>2. QED
    BY <2>1, <1>16
<1>18. PICK text : /\ Contents(p, key) = [text |-> text, data |-> old, words |-> h.data_words]
                   /\ Contents(q, key) = [text |-> text, data |-> new, words |-> h.data_words]
  BY <1>1, <1>7, <1>9 DEF Contents
<1> HIDE DEF old, new
<1>19. d = Contents(q, key)
  <2>1. d = [c EXCEPT !.data[j] = v]
    BY <1>1, <1>15
  <2>2. c = [text |-> text, data |-> old, words |-> h.data_words]
    BY <1>2, <1>18
  <2>3. PICK n : n = [old EXCEPT ![j] = v]
    OBVIOUS
  <2>4. d = [text |-> text, data |-> n, words |-> h.data_words]
    BY <2>1, <2>2, <2>3
  <2>5. QED
    BY <2>3, <2>4, <1>17, <1>18
<1>20. QED
  BY <1>1, <1>2, <1>7, <1>11, <1>14, <1>19 DEF Live

LEMMA AccessTrust ==
    ASSUME Shape, Trust, NEW write, Access(write)
    PROVE  Trust'
<1>1. /\ image' = image /\ pool' = pool /\ content' = content /\ out' = out
      /\ cpu.running /\ ~cpu.p.locked
  BY DEF Access
<1>2. PICK eff \in EffAddrs : cpu' = stage_memory(cpu, write, translateDataAddress(cpu.p, eff))
  BY DEF Access
<1>3. /\ DOMAIN cpu = CFields /\ Process(cpu.p) /\ Filed(image) /\ Underway(cpu, image[1])
  BY <1>1 DEF Shape
<1>4. PICK h : h = image[1].hdr
  OBVIOUS
<1>5. Hdr(h) /\ cpu.p.hdr = h /\ cpu.p.region = <<h>>
  BY <1>3, <1>4 DEF Filed, Image, Underway
<1>6. PICK w : w = translateDataAddress(cpu.p, eff)
  OBVIOUS
<1>7. w \in Int
  BY <1>5, <1>6, AddressIs, ToolchainAssumption DEF Hdr, Numbers
<1>8. cpu' = cpu \/ Locks(cpu, cpu') \/ Stores(cpu, cpu', w)
  BY <1>2, <1>3, <1>5, <1>6, <1>7, AccessIs
<1>9. PICK S : S = SealedIn(pool)
  OBVIOUS
<1>10. CpuKept(cpu, S)
  BY <1>9 DEF Trust
<1>11. /\ cpu.now = <<cpu.now[1]>> /\ Live(cpu.p, cpu.now[1]) /\ cpu.key = KeyOf(cpu.p)
       /\ cpu.opened # <<>> /\ \A b \in Reach(cpu.p.hdr) : InFile(b, cpu.io)
       /\ cpu.p.locked = FALSE
  BY <1>1, <1>10 DEF CpuKept
<1>12. CASE cpu' = cpu
  BY <1>1, <1>12 DEF Trust
<1>13. CASE Locks(cpu, cpu')
  <2>1. /\ cpu'.p = lockSecurity(cpu.p) /\ cpu'.legal = FALSE
        /\ Same(cpu, cpu', CFields \ {"p", "legal"})
    BY <1>13 DEF Locks
  <2>2. /\ cpu'.running = cpu.running /\ cpu'.now = cpu.now /\ cpu'.key = cpu.key
        /\ cpu'.opened = cpu.opened /\ cpu'.io = cpu.io /\ cpu'.intact = cpu.intact
    BY <2>1 DEF Same, CFields
  <2>3. cpu'.p.locked = TRUE /\ Same(cpu.p, cpu'.p, PFields \ {"locked"})
    BY <2>1, <1>3, LockIs
  <2>4. cpu'.p.hdr = cpu.p.hdr /\ cpu'.p.mem = cpu.p.mem
    BY <2>3 DEF Same, PFields
  <2>5. Live(cpu'.p, cpu.now[1])
    BY <2>4, <1>11, LiveSame DEF Same
  <2>6. KeyOf(cpu'.p) = KeyOf(cpu.p)
    BY <2>4 DEF KeyOf
  <2>7. CpuKept(cpu', S)
    BY <2>1, <2>2, <2>3, <2>4, <2>5, <2>6, <1>1, <1>10, <1>11 DEF CpuKept
  <2>8. QED
    BY <2>7, <1>1, <1>9 DEF Trust
<1>14. CASE Stores(cpu, cpu', w)
  <2>1. PICK d : d = [cpu.now[1] EXCEPT !.data[w - cpu.p.hdr.data_start + 1] = StoreValue]
    OBVIOUS
  <2>2. /\ w \in cpu.p.hdr.data_start .. cpu.p.hdr.data_end - 1
        /\ cpu'.p = secure_write_encrypted_data_word(cpu.p, KeyOf(cpu.p), w, StoreValue)
        /\ cpu'.now = <<d>> /\ Same(cpu, cpu', CFields \ {"p", "now"})
    BY <2>1, <1>11, <1>14 DEF Stores
  <2>3. /\ cpu'.running = cpu.running /\ cpu'.key = cpu.key /\ cpu'.legal = cpu.legal
        /\ cpu'.opened = cpu.opened /\ cpu'.io = cpu.io /\ cpu'.intact = cpu.intact
    BY <2>2 DEF Same, CFields
  <2>4. Live(cpu'.p, d)
    BY <2>1, <2>2, <1>3, <1>11, StoreIsSeen
  <2>5. BlockOf(w) \in Blocks
    BY <2>2, <1>11, DataWord DEF Live, KeyGood
  <2>6. Same(cpu.p, cpu'.p, PFields \ {"mem"})
    BY <2>2, <2>5, <1>3, WriteIs
  <2>7. cpu'.p.hdr = cpu.p.hdr /\ cpu'.p.locked = FALSE
    BY <2>6, <1>11 DEF Same, PFields
  <2>8. KeyOf(cpu'.p) = KeyOf(cpu.p)
    BY <2>7 DEF KeyOf
  <2>9. cpu'.now[1] = d
    BY <2>2
  <2>10. cpu'.now = <<cpu'.now[1]>> /\ Live(cpu'.p, cpu'.now[1])
    BY <2>2, <2>4, <2>9
  <2>11. CpuKept(cpu', S)
    BY <2>3, <2>7, <2>8, <2>10, <1>1, <1>10, <1>11 DEF CpuKept
  <2>12. QED
    BY <2>11, <1>1, <1>9 DEF Trust
<1>15. QED
  BY <1>8, <1>12, <1>13, <1>14

\* Sealing again: a new image tag makes what a run worked on sound.
LEMMA Resealed ==
    ASSUME NEW p, NEW c, Live(p, c), NEW q, Hdr(q.hdr), q.mem = p.mem,
           Same(p.hdr, q.hdr, HFields \ {"img_tag"}), q.hdr.img_tag = ImageTag(p)
    PROVE  Sound(q, c) /\ Reach(q.hdr) = Reach(p.hdr)
<1>1. PICK g, h : g = p.hdr /\ h = q.hdr
  OBVIOUS
<1>2. Hdr(g) /\ Hdr(h) /\ Same(g, h, HFields \ {"img_tag"}) /\ KeyGood(p)
  BY <1>1 DEF Live
<1>3. /\ h.wrapped = g.wrapped /\ h.measurements = g.measurements /\ h.key_tag = g.key_tag
      /\ h.policy = g.policy /\ h.data_flags = g.data_flags /\ h.text_words = g.text_words
      /\ h.data_words = g.data_words /\ h.data_end = g.data_end /\ h.nonce = g.nonce
      /\ h.text_start = g.text_start /\ h.text_end = g.text_end /\ h.data_start = g.data_start
      /\ Same(g, h, HFields \ Terms)
  BY <1>2 DEF Same, HFields, Terms
<1>4. /\ secure_decode_header(h) <=> secure_decode_header(g)
      /\ Fields(h) = Fields(g)
      /\ Positions(h) = Positions(g) /\ Params(h) = Params(g) /\ (OwnText(h) <=> OwnText(g))
      /\ TextBlocks(h) = TextBlocks(g) /\ DataRegion(h) = DataRegion(g)
      /\ \A m : MappedText(m, h) = MappedText(m, g) /\ DataBlocks(m, h) = DataBlocks(m, g)
      /\ \A m : secure_derive_session_key(h, m) = secure_derive_session_key(g, m)
      /\ \A m : secure_collect_measurements(m, h) = secure_collect_measurements(m, g)
  BY <1>2, <1>3, SameHeader
<1>5. Hidden(q) = Hidden(p) /\ Meas(q) = Meas(p)
  BY <1>1, <1>4 DEF Hidden, Meas
<1>6. SessionKey(q) = SessionKey(p)
  BY <1>1, <1>4 DEF SessionKey
<1>7. secure_compute_key_tag(h, Hidden(q), SessionKey(q), Meas(q))
      = secure_compute_key_tag(g, Hidden(p), SessionKey(p), Meas(p))
  BY <1>3, <1>4, <1>5, <1>6 DEF secure_compute_key_tag
<1>8. KeyGood(q)
  BY <1>1, <1>2, <1>3, <1>4, <1>5, <1>7 DEF KeyGood
<1>9. ImageTag(q) = ImageTag(p)
  BY <1>1, <1>3, <1>4, <1>6 DEF ImageTag, secure_compute_img_tag
<1>10. KeyOf(q) = KeyOf(p)
  BY <1>1, <1>3 DEF KeyOf
<1>11. Contents(q, KeyOf(q)) = Contents(p, KeyOf(p))
  BY <1>1, <1>3, <1>4, <1>10 DEF Contents
<1>12. \A b : Place(h, b) = Place(g, b)
  BY <1>4 DEF Place
<1>13. Reach(h) = Reach(g)
  BY <1>4, <1>12 DEF Reach
<1>14. Live(q, c)
  BY <1>1, <1>2, <1>3, <1>4, <1>6, <1>8, <1>10, <1>11, <1>12 DEF Live
<1>15. QED
  BY <1>1, <1>9, <1>13, <1>14 DEF Sound

LEMMA FinishTrust ==
    ASSUME Shape, Trust, FinishRun
    PROVE  Trust'
<1>1. PICK r : Ended(r, image[1])
  BY FinishIs
<1>2. /\ cpu.running /\ out' = out /\ Filed(image) /\ Underway(cpu, image[1]) /\ Process(cpu.p)
      /\ content' = IF ~cpu'.p.locked THEN cpu.now ELSE IF image' = image THEN content ELSE <<>>
  BY DEF FinishRun, Shape
<1>3. PICK e : e = [image |-> image', content |-> content']
  OBVIOUS
<1>4. e.image = image' /\ e.content = content' /\ pool' = pool \cup {e}
  BY <1>3 DEF FinishRun
<1>5. e \in pool' /\ pool \subseteq pool'
  BY <1>4
<1>6. PICK c : c = cpu.now[1]
  OBVIOUS
<1>7. /\ cpu.now = <<c>> /\ Live(cpu.p, c) /\ cpu.opened # <<>> /\ cpu.p.locked \in BOOLEAN
      /\ (cpu.legal => cpu.p.locked = FALSE) /\ \A b \in Reach(cpu.p.hdr) : InFile(b, cpu.io)
      /\ cpu.opened[1] \in SealedIn(pool)
      /\ cpu.intact # <<>> => cpu.opened[1] = cpu.intact[1]
  BY <1>2, <1>6 DEF Trust, CpuKept
<1>8. /\ Process(r.p) /\ r.p.mem = cpu.p.mem /\ Same(cpu.p.hdr, r.p.hdr, HFields \ {"img_tag"})
      /\ cpu'.opened = cpu.opened /\ cpu'.now = cpu.now /\ cpu'.intact = cpu.intact
      /\ cpu'.legal = cpu.legal /\ cpu'.p = r.p /\ cpu'.running = FALSE
      /\ cpu'.clean = (~r.p.locked /\ r.rc = 0) /\ Written(image'[1], r.p, image[1], cpu.io)
  BY <1>1 DEF Ended, Same
<1>9. SealedIn(pool) \subseteq SealedIn(pool') /\ Kept(image, content, pool')
  BY <1>2, <1>5, HistoryGrows DEF Trust, Filed
<1>10. CASE cpu.p.locked = TRUE
  <2>1. r.p = cpu.p
    BY <1>1, <1>10 DEF Ended
  <2>2. image'[1].hdr = image[1].hdr
    BY <2>1, <1>2, <1>8 DEF Written, Underway
  <2>3. (content' = content /\ image' = image) \/ content' = <<>>
    BY <2>1, <1>2, <1>8, <1>10
  <2>4. Kept(image', content', pool')
    BY <2>2, <2>3, <1>9 DEF Kept
  <2>5. cpu'.legal => FALSE
    BY <1>7, <1>8, <1>10
  <2>6. CpuKept(cpu', SealedIn(pool'))
    BY <2>5, <1>7, <1>8, <1>9 DEF CpuKept
  <2>7. QED
    BY <2>4, <2>6, <1>2, <1>4, <1>5, HistoryGrows DEF Trust
<1>11. CASE cpu.p.locked = FALSE
  <2>1. r = secure_reseal_current_image(cpu.p)
    BY <1>1, <1>11 DEF Ended
  <2>2. r.rc = 0 /\ r.p.hdr.img_tag = ImageTag(cpu.p) /\ r.p.locked = FALSE
    BY <2>1, <1>2, <1>7, <1>11, ResealIs DEF Live
  <2>3. Sound(r.p, c) /\ Reach(r.p.hdr) = Reach(cpu.p.hdr)
    BY <2>2, <1>7, <1>8, Resealed DEF Process
  <2>4. cpu'.clean /\ content' = <<c>> /\ Sound(cpu'.p, cpu'.now[1])
    BY <2>2, <2>3, <1>2, <1>6, <1>7, <1>8
  <2>5. Reach(r.p.hdr) \subseteq {b \in Blocks : InFile(b, cpu.io)}
    <3>1. Reach(r.p.hdr) \subseteq Blocks
      BY <2>3, ReachIs DEF Sound, Live, KeyGood
    <3>2. QED
      BY <3>1, <2>3, <1>7
  <2>6. image'[1].hdr = r.p.hdr /\ Same(r.p.mem, image'[1].mem, Reach(r.p.hdr))
    BY <2>5, <1>8 DEF Written, Same
  <2>7. Sound(image'[1], c)
    BY <2>3, <2>6, LiveSame DEF Sound
  <2>8. Kept(image', content', pool')
    BY <2>4, <2>7, <1>4, <1>5, SealedIsKept
  <2>9. CpuKept(cpu', SealedIn(pool'))
    BY <2>4, <1>7, <1>8, <1>9 DEF CpuKept
  <2>10. QED
    BY <2>8, <2>9, <1>2, <1>4, <1>5, HistoryGrows DEF Trust
<1>12. QED
  BY <1>7, <1>10, <1>11

LEMMA DamageTrust ==
    ASSUME Shape, Trust, Damage
    PROVE  Trust'
<1>1. cpu' = cpu /\ out' = out /\ pool' = pool /\ image # <<>>
  BY DEF Damage
<1>2. /\ content' = <<>>
      /\ \A f \in {"img_tag", "key_tag"} :
            \/ image'[1].hdr[f] = image[1].hdr[f]
            \/ \E old \in pool : image'[1].hdr[f] = old.image[1].hdr[f]
            \/ image'[1].hdr[f] = NoTerm
  BY DamageIs
<1>3. Tagged(image[1].hdr, pool) /\ \A old \in pool : Tagged(old.image[1].hdr, pool)
  BY <1>1 DEF Trust, Kept
<1>4. \A f \in {"img_tag", "key_tag"} : TagFrom(image'[1].hdr[f], f, pool)
  <2>1. \A f \in {"img_tag", "key_tag"} :
            /\ TagFrom(image[1].hdr[f], f, pool)
            /\ \A old \in pool : TagFrom(old.image[1].hdr[f], f, pool)
            /\ TagFrom(NoTerm, f, pool)
    BY <1>3 DEF Tagged, TagFrom
  <2>2. QED
    BY <2>1, <1>2
<1>5. Kept(image', content', pool')
  BY <1>1, <1>2, <1>4 DEF Kept, Tagged
<1>6. QED
  BY <1>1, <1>5 DEF Trust

LEMMA DecryptTrust ==
    ASSUME Shape, Trust, Decrypt
    PROVE  Trust'
<1>1. image' = image /\ cpu' = cpu /\ content' = content /\ pool' = pool /\ Filed(image)
  BY DEF Decrypt, Shape
<1>2. PICK d : /\ d = decryptor(image[1])
               /\ out' = [rc |-> d.rc, text |-> d.text, data |-> d.data, of |-> content]
  BY DEF Decrypt
<1>3. out'.rc = d.rc /\ out'.text = d.text /\ out'.data = d.data /\ out'.of = content
  BY <1>2
<1>4. Dumped(d, image[1])
  BY <1>1, <1>2, DecryptorIs DEF Filed
<1>5. Kept(image, content, pool) /\ Hdr(image[1].hdr)
  BY <1>1 DEF Trust, Filed, Image
<1>6. ASSUME d.rc = 0
      PROVE  \E c \in SealedIn(pool) : d.text = c.text /\ d.data = SubSeq(c.data, 1, c.words)
  <2>1. KeyGood(image[1]) /\ ImageTag(image[1]) = image[1].hdr.img_tag
    BY <1>4, <1>6 DEF Dumped
  <2>2. PICK c \in SealedIn(pool) : Sound(image[1], c)
    BY <2>1, <1>5, ValidIsSealed DEF Kept, Trust
  <2>3. QED
    BY <2>2, <1>4 DEF Dumped
<1>7. ASSUME content # <<>>
      PROVE  d.rc = 0 /\ d.text = content[1].text /\ d.data = SubSeq(content[1].data, 1, content[1].words)
  BY <1>4, <1>5, <1>7 DEF Kept, Dumped
<1>8. OutKept(out', SealedIn(pool))
  BY <1>3, <1>6, <1>7 DEF OutKept
<1>9. QED
  BY <1>1, <1>8 DEF Trust

LEMMA TrustStep ==
    ASSUME HexFiles, DataBelowKey, Fits, Shape, Trust, [Next]_vars
    PROVE  Trust'
<1>1. CASE WriteLine \/ Assemble \/ vars' = vars
  <2>1. image' = image /\ cpu' = cpu /\ pool' = pool /\ content' = content /\ out' = out
    BY <1>1 DEF WriteLine, Assemble, vars
  <2>2. QED
    BY <2>1 DEF Trust
<1>2. CASE Restore
  <2>1. cpu' = cpu /\ out' = out /\ pool' = pool
    BY <1>2 DEF Restore
  <2>2. PICK old \in pool : image' = old.image /\ content' = old.content
    BY <1>2 DEF Restore
  <2>3. QED
    BY <2>1, <2>2 DEF Trust
<1>3. QED
  BY <1>1, <1>2, EncryptTrust, StartTrust, AccessTrust, FinishTrust, DecryptTrust, DamageTrust
     DEF Next, Load, Store

LEMMA TrustAlways == Spec /\ []HexFiles /\ []DataBelowKey => []Trust
<1>1. Init => Trust
  <2>1. /\ Off.running = FALSE /\ Off.opened = <<>> /\ Off.intact = <<>>
        /\ NoOut.rc = -1 /\ NoOut.of = <<>>
    BY DEF Off, NoOut
  <2>2. CpuKept(Off, SealedIn({})) /\ OutKept(NoOut, SealedIn({}))
    BY <2>1 DEF CpuKept, OutKept
  <2>3. QED
    BY <2>2 DEF Init, Trust
<1>2. QED
  BY <1>1, TrustStep, FitsAlways, ShapeAlways, PTL DEF Spec

\* For every program, memory size, key, run and damage, while data and hidden key do not share
\* blocks: the text and data a run starts on, and those the decryptor writes, are of one image
\* that was sealed (3d.cpp, secure_validate_image; decryptor.cpp).
THEOREM OnlySealedRuns == Spec /\ []HexFiles /\ []DataBelowKey => []RunsOnlySealedContent
<1>1. Trust => RunsOnlySealedContent
  BY DEF Trust, CpuKept, OutKept, SealedIn, RunsOnlySealedContent, Sealed
<1>2. QED
  BY <1>1, TrustAlways, PTL

\* Under the same hypotheses, an image as it was sealed opens with its text and data in every run
\* that loads it whole, and in the decryptor (3d.cpp, Crypto3DStackCPU_top; decryptor.cpp).
THEOREM SealedOpens == Spec /\ []HexFiles /\ []DataBelowKey => []IntactImageOpens
<1>1. Trust => IntactImageOpens
  BY DEF Trust, CpuKept, OutKept, IntactImageOpens
<1>2. QED
  BY <1>1, TrustAlways, PTL

\* Under the same hypotheses, a run that only accesses its data ends clean, and the image it leaves
\* opens with every store in it (3d.cpp, secure_reseal_current_image).
THEOREM RunsStayReloadable == Spec /\ []HexFiles /\ []DataBelowKey => []ReloadableAfterRun
<1>1. ASSUME Shape, Trust
      PROVE  ReloadableAfterRun
  <2>1. SUFFICES ASSUME ~cpu.running, cpu.legal, cpu.opened # <<>>
                 PROVE  /\ cpu.clean
                        /\ image = <<[hdr |-> cpu.p.hdr, mem |-> cpu.p.mem]>>
                           => Opens(image[1], cpu.now[1])
    BY DEF ReloadableAfterRun
  <2>2. cpu.clean /\ Sound(cpu.p, cpu.now[1])
    BY <1>1, <2>1 DEF Trust, CpuKept
  <2>3. ASSUME image = <<[hdr |-> cpu.p.hdr, mem |-> cpu.p.mem]>>
        PROVE  Opens(image[1], cpu.now[1])
    <3>1. image[1].hdr = cpu.p.hdr /\ image[1].mem = cpu.p.mem /\ image # <<>>
      BY <2>3
    <3>2. Sound(image[1], cpu.now[1])
      BY <3>1, <2>2, LiveSame DEF Sound, Same
    <3>3. Image(image[1])
      BY <3>1, <1>1 DEF Shape, Filed
    <3>4. PICK d : d = decryptor(image[1])
      OBVIOUS
    <3>5. Dumped(d, image[1])
      BY <3>3, <3>4, DecryptorIs
    <3>6. QED
      BY <3>2, <3>4, <3>5 DEF Dumped, Opens
  <2>4. QED
    BY <2>2, <2>3
<1>2. QED
  BY <1>1, TrustAlways, ShapeAlways, PTL
=============================================================================
