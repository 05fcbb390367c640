------------------------------- MODULE Toolchain -------------------------------
(***************************************************************************)
(* From assembly source to a sealed image and back: the assembler writes    *)
(* hex files, the encryptor seals them into an image file, the CPU runs the *)
(* image and seals it again, the decryptor recovers text and data           *)
(* (src/asm_to_hex.cpp, src/encryptor.cpp, src/3d.cpp, src/decryptor.cpp).  *)
(*                                                                          *)
(* The tools are processes that share files; the CPU's process lives on     *)
(* between runs.  A program's run is any sequence of loads and stores: what *)
(* the instructions compute is the subject of CpuPipeline.                  *)
(***************************************************************************)
EXTENDS Assembler, SecureImage

CONSTANTS
    AppKeys,        \* what generate_secure_app_key may return
    EpochOptions,   \* the encryptor's epoch argument
    WordCounts,     \* word_count arguments of the top function: whole blocks, or within the header
    EffAddrs,       \* effective addresses of loads and stores
    Lines,          \* source lines that may be written
    Scenarios       \* initial source and how often each kind of step may happen

ASSUME ToolchainAssumption ==
    /\ NoKey \notin AppKeys
    /\ EpochOptions \subseteq Nat /\ WordCounts \subseteq Nat /\ EffAddrs \subseteq Nat

VARIABLES
    src,            \* the source file
    built,          \* history: the source the hex files come from
    hex,            \* the assembler's output files
    image,          \* the image file: <<>> or <<[hdr, mem]>>
    cpu,            \* the CPU's process
    out,            \* what the decryptor wrote last
    content,        \* history: what is sealed in the image file, <<>> when it was changed at rest
    pool,           \* history: the image files there have been, with their content
    left            \* how many steps of each kind may still happen

vars == <<src, built, hex, image, cpu, out, content, pool, left>>

NoHex == [ok |-> FALSE, text |-> <<>>, data |-> <<>>, symbols |-> <<>>, statements |-> <<>>]
NoOut == [rc |-> -1, text |-> <<>>, data |-> <<>>, of |-> <<>>]

\* p: its memory and secure state.  History: opened, what the run found in the image;
\* now, the same with the stores since; intact, what had been sealed in the image if it
\* was loaded whole and untouched; legal, no access outside the data
Off == [running |-> FALSE, p |-> Fresh, key |-> NoKey, failed |-> FALSE, io |-> MEM_SIZE,
        opened |-> <<>>, now |-> <<>>, intact |-> <<>>, legal |-> TRUE, clean |-> FALSE]

Use(kind) == left[kind] > 0 /\ left' = [left EXCEPT ![kind] = @ - 1]

-----------------------------------------------------------------------------
(* Editor and assembler.                                                     *)

WriteLine ==
    /\ UNCHANGED <<built, hex, image, cpu, out, content, pool>>
    /\ Use("lines")
    /\ \E line \in Lines : src' = Append(src, line)

\* An error leaves the files of the last success
Assemble ==
    /\ UNCHANGED <<src, image, cpu, out, content, pool>>
    /\ Use("assemble")
    /\ LET a == assemble(src)
       IN  /\ hex' = IF a.ok THEN a ELSE hex
           /\ built' = IF a.ok THEN src ELSE built

-----------------------------------------------------------------------------
(* Encryptor.                                                                *)

align_up_words(n) ==
    IF n % INSTRS_PER_BLOCK = 0 THEN n ELSE n + (INSTRS_PER_BLOCK - (n % INSTRS_PER_BLOCK))

\* A number that is never 0
derive_auto_epoch(text_words, text_end, data_words) == 1 + ((text_words + text_end + data_words) % 3)
Epochs == (EpochOptions \ {0}) \cup 1 .. 3

\* Multiplier and block count have no factor in common: the text blocks are stored in
\* distinct places of the text region (see TextMapIsPermutation)
ASSUME MapAssumption ==
    \A text_end \in {w \in SEC_HDR_WORDS .. MEM_SIZE : Aligned(w)}, epoch \in Epochs :
        LET text == BlockOf(kTextStartAddr) .. BlockOf(text_end) - 1
            place == [b \in text |-> secure_map_block_with_params(b,
                                        secure_build_map_params(kTextStartAddr, text_end, epoch))]
        IN  place \in [text -> text] /\ \A a, b \in text : place[a] = place[b] => a = b

\* Words from a block boundary, padded with zeros to whole blocks
Padded(words) == words \o [i \in 1 .. align_up_words(Len(words)) - Len(words) |-> ZeroWord]
BlockWords(words, i) ==
    SubSeq(words, (i - 1) * INSTRS_PER_BLOCK + 1, i * INSTRS_PER_BLOCK)

\* The memory with text and data written in plain, zero elsewhere
plain_image(text, data) ==
    LET all == Padded(text) \o Padded(data)
        first == BlockOf(kTextStartAddr)
    IN  [b \in Blocks |-> IF b - first < Len(all) \div INSTRS_PER_BLOCK
                          THEN PlainBlock(BlockWords(all, b - first + 1)) ELSE ZeroBlock]

\* Through a buffer: a block that the map sends elsewhere is read before it is overwritten
encrypt_text_region_mapped(p, text_end, key) ==
    [p EXCEPT !.mem = [b \in Blocks |->
        IF b >= BlockOf(text_end) THEN p.mem[b]
        ELSE LET from == {l \in Blocks : l < BlockOf(text_end) /\ secure_map_text_block(p, l) = b}
             IN  IF from = {} THEN p.mem[b]
                 ELSE aes_encrypt_block(p.mem[CHOOSE l \in from : \A k \in from : k <= l].words, key)]]

encrypt_data_region_in_place(p, data_start, data_end, key) ==
    [p EXCEPT !.mem = [b \in Blocks |->
        IF b >= BlockOf(data_start) /\ b < BlockOf(data_end)
        THEN aes_encrypt_block(p.mem[b].words, key) ELSE p.mem[b]]]

\* The file is written if the key comes out of the sealed image again
verify_wrapped_key_roundtrip(x, key) ==
    IF x.rc # 0 \/ x.key # key THEN <<>> ELSE <<[hdr |-> x.p.hdr, mem |-> x.p.mem]>>

verify_sealed(valid, key) ==
    IF valid.rc # 0 THEN <<>>
    ELSE verify_wrapped_key_roundtrip(extract_key_from_large_block(valid.p), key)

seal_and_verify(sealed, key) ==
    IF sealed.rc # 0 THEN <<>> ELSE verify_sealed(secure_validate_image(sealed.p), key)

\* The image of a fresh process, <<>> on any error
encryptor(text, data, epoch, key) ==
    LET text_end == align_up_words(kTextStartAddr + Len(text))
        data_end == align_up_words(text_end + Len(data))
        p0 == [Fresh EXCEPT !.mem = plain_image(text, data)]
        p1 == secure_set_image_region(p0, kTextStartAddr, Len(text), text_end)
        p2 == secure_set_data_region(p1, text_end, Len(data), data_end, TRUE)
        p3 == secure_set_mapping_epoch(p2, IF epoch # 0 THEN epoch
                ELSE derive_auto_epoch(Len(text), text_end, Len(data)))
        p4 == encrypt_data_region_in_place(encrypt_text_region_mapped(p3, text_end, key),
                                           text_end, data_end, key)
    IN  IF text = <<>> \/ text_end > MEM_SIZE \/ data_end > MEM_SIZE THEN <<>>
        ELSE seal_and_verify(create_large_block_with_key(p4, key), key)

Encrypt ==
    /\ UNCHANGED <<src, built, hex, cpu, out>>
    /\ Use("encrypt")
    /\ ~cpu.running /\ hex.ok
    /\ \E key \in AppKeys, epoch \in EpochOptions :
          \E new \in {encryptor(hex.text, hex.data, epoch, key)} :
             LET put == [text |-> hex.text, data |-> Padded(hex.data), words |-> Len(hex.data)]
             IN  /\ image' = IF new = <<>> THEN image ELSE new
                 /\ content' = IF new = <<>> THEN content ELSE <<put>>
                 /\ pool' = IF new = <<>> THEN pool
                            ELSE pool \cup {[image |-> new, content |-> <<put>>]}

-----------------------------------------------------------------------------
(* What can be read out of an image that was validated.                      *)

\* The text as the CPU fetches it and the decryptor dumps it
decrypt_text_region(p, key) ==
    LET r == secure_get_region(p)
        n == BlockOf(r.text_end) - BlockOf(r.text_start)
        block(i) == aes_decrypt_block(
                        p.mem[secure_map_text_block(p, BlockOf(r.text_start) + i - 1)], key)
        all == [w \in 1 .. n * INSTRS_PER_BLOCK |-> block(BlockOf(w - 1) + 1)[SlotOf(w - 1)]]
    IN  SubSeq(all, 1, r.text_words)

-----------------------------------------------------------------------------
(* CPU.                                                                      *)

\* Among the words that are read from and written to the file
InFile(b, io) == (b + 1) * INSTRS_PER_BLOCK <= io

\* Mutant of LoadImage: the lock of the run before stays
LoadImageLocked(p, f, io) ==
    [p EXCEPT !.hdr = f.hdr, !.mem = f.mem, !.region = <<>>, !.map = <<>>]

\* The first io words of the file, zero above them; a header that is cut is not one
LoadImage(p, f, io) ==
    [p EXCEPT !.hdr = IF io >= SEC_HDR_WORDS THEN f.hdr ELSE [f.hdr EXCEPT !.magic = FALSE],
              !.mem = [b \in Blocks |-> IF InFile(b, io) THEN f.mem[b] ELSE ZeroBlock],
              !.locked = FALSE, !.region = <<>>, !.map = <<>>]

\* Mutant of translateDataAddress: the data is taken to start where the text does
translateDataAddressText(p, eff) ==
    IF eff < MEM_SIZE THEN eff
    ELSE secure_get_region(p).text_start + ((eff - kDataBaseByte) \div kWordBytes)

translateDataAddress(p, eff) ==
    LET mapped == secure_get_region(p).data_start + ((eff - kDataBaseByte) \div kWordBytes)
    IN  CASE eff < MEM_SIZE -> eff
          [] eff >= MEM_SIZE /\ eff % kWordBytes # 0 -> -1
          [] eff >= MEM_SIZE /\ eff % kWordBytes = 0 ->
                IF eff >= kDataBaseByte /\ mapped < MEM_SIZE THEN mapped
                ELSE IF eff \div kWordBytes < MEM_SIZE THEN eff \div kWordBytes ELSE -1

computeJumpTargetBlock(word) ==
    BlockOf(IF word[2] >= kTextBaseByte \div kWordBytes
            THEN kTextStartAddr + (word[2] - (kTextBaseByte \div kWordBytes)) ELSE word[2])

computeBranchTargetBlock(word_addr, word) ==
    BlockOf(AtLeast(word_addr + 1 + word[2], 0))

secure_is_data_word(p, w) ==
    w >= secure_get_region(p).data_start /\ w < secure_get_region(p).data_end

secure_read_encrypted_data_word(p, key, w) == aes_decrypt_block(p.mem[BlockOf(w)], key)[SlotOf(w)]

secure_write_encrypted_data_word(p, key, w, v) ==
    [p EXCEPT !.mem[BlockOf(w)] =
        aes_encrypt_block([aes_decrypt_block(@, key) EXCEPT ![SlotOf(w)] = v], key)]

StoreValue == <<"word", 7>>

\* The data the program sees, by word of the region
data_seen(p, key) ==
    LET r == secure_get_region(p)
    IN  [i \in 1 .. r.data_end - r.data_start |->
            secure_read_encrypted_data_word(p, key, r.data_start + i - 1)]

Content(p, key) == [text |-> decrypt_text_region(p, key), data |-> data_seen(p, key),
                    words |-> p.hdr.data_words]

\* x: what opening the image gave
FirstFetch(x, io, intact) ==
    LET ok == x.rc = 0 /\ ~x.p.locked
        seen == IF ~ok THEN <<>> ELSE <<Content(x.p, x.key)>>
    IN  [running |-> ok, p |-> x.p, key |-> IF ok THEN x.key ELSE NoKey, failed |-> ~ok, io |-> io,
         opened |-> seen, now |-> seen, intact |-> intact, legal |-> TRUE, clean |-> FALSE]

\* The top function up to the first fetch, which validates the image and opens its key.
\* On failure it returns: it writes back what it loaded.
StartRun ==
    /\ UNCHANGED <<src, built, hex, image, out, content, pool>>
    /\ Use("runs")
    /\ ~cpu.running /\ image # <<>>
    /\ \E word_count \in WordCounts :
          LET io == IF word_count = 0 \/ word_count > MEM_SIZE THEN MEM_SIZE ELSE word_count
          IN  cpu' = FirstFetch(extract_key_from_large_block(LoadImage(cpu.p, image[1], io)), io,
                                IF io = MEM_SIZE THEN content ELSE <<>>)

\* Mutant of stage_memory: a store is checked after it is done
stage_memory_late(c, write, w) ==
    IF w = -1 \/ ~write THEN c
    ELSE [c EXCEPT !.p = [secure_write_encrypted_data_word(@, c.key, w, StoreValue)
                             EXCEPT !.locked = ~secure_is_data_word(c.p, w)],
                   !.legal = secure_is_data_word(c.p, w)]

\* An access outside the data region locks; an address that means no word does nothing.
\* The data of an image that opens is encrypted: the plain path is in CpuPipeline.
stage_memory(c, write, w) ==
    IF w = -1 THEN c
    ELSE IF ~secure_is_data_word(c.p, w) THEN [c EXCEPT !.p = lockSecurity(@), !.legal = FALSE]
    ELSE IF ~write THEN c
    ELSE [c EXCEPT !.p = secure_write_encrypted_data_word(@, c.key, w, StoreValue),
                   !.now = <<[@[1] EXCEPT !.data[w - c.p.hdr.data_start + 1] = StoreValue]>>]

Access(write) ==
    /\ UNCHANGED <<src, built, hex, image, out, content, pool>>
    /\ Use("accesses")
    /\ cpu.running /\ ~cpu.p.locked
    /\ \E eff \in EffAddrs : cpu' = stage_memory(cpu, write, translateDataAddress(cpu.p, eff))

Load == Access(FALSE)
Store == Access(TRUE)

\* The rest of the top function: seal again unless locked, write the image back
FinishRun ==
    /\ UNCHANGED <<src, built, hex, out, left>>
    /\ cpu.running
    /\ \E r \in {IF cpu.p.locked THEN [rc |-> 0, p |-> cpu.p]
                 ELSE secure_reseal_current_image(cpu.p)} :
          /\ cpu' = [cpu EXCEPT !.running = FALSE, !.p = r.p, !.key = NoKey,
                                !.failed = r.rc # 0, !.clean = ~r.p.locked /\ r.rc = 0]
          /\ image' = <<[hdr |-> r.p.hdr, mem |-> [b \in Blocks |->
                            IF InFile(b, cpu.io) THEN r.p.mem[b] ELSE image[1].mem[b]]]>>
    /\ content' = IF ~cpu'.p.locked THEN cpu.now ELSE IF image' = image THEN content ELSE <<>>
    /\ pool' = pool \cup {[image |-> image', content |-> content']}

-----------------------------------------------------------------------------
(* Decryptor, a fresh process each time.                                     *)

dump_data_region_plain(p) ==
    LET r == secure_get_region(p)
    IN  [i \in 1 .. r.data_words |-> secure_read_data_word_plain(p, r.data_start + i - 1)]

read_and_validate_metadata(p) == secure_decode_header([secure_get_region(p) EXCEPT !.magic = TRUE])

NoDump(rc) == [rc |-> rc, text |-> <<>>, data |-> <<>>]

\* The data file is written after the text file: the text stays when a word fails
dump(text, data) ==
    IF \E i \in DOMAIN data : data[i].rc # 0 THEN [rc |-> 9, text |-> text, data |-> <<>>]
    ELSE [rc |-> 0, text |-> text, data |-> [i \in DOMAIN data |-> data[i].value]]

decrypt_and_dump(x) ==
    IF x.rc # 0 \/ x.p.locked THEN NoDump(4)
    ELSE IF ~read_and_validate_metadata(x.p) THEN NoDump(5)
    ELSE dump(decrypt_text_region(x.p, x.key), dump_data_region_plain(x.p))

extract_and_dump(v) ==
    IF v.rc # 0 \/ v.p.locked THEN NoDump(3)
    ELSE decrypt_and_dump(extract_key_from_large_block(v.p))

decryptor(f) == extract_and_dump(secure_validate_image([Fresh EXCEPT !.hdr = f.hdr, !.mem = f.mem]))

Decrypt ==
    /\ UNCHANGED <<src, built, hex, image, cpu, content, pool>>
    /\ Use("decrypt")
    /\ ~cpu.running /\ image # <<>>
    /\ \E d \in {decryptor(image[1])} :
          out' = [rc |-> d.rc, text |-> d.text, data |-> d.data, of |-> content]

-----------------------------------------------------------------------------
(* The file between runs: an older image is put back, or a block or a header *)
(* field of it is damaged or comes from an older image.                      *)

Restore ==
    /\ UNCHANGED <<src, built, hex, cpu, out, pool>>
    /\ Use("restore")
    /\ ~cpu.running
    /\ \E old \in pool : old.image # image /\ image' = old.image /\ content' = old.content

JunkBlock == [key |-> "junk", words |-> ZeroBlock.words, hid |-> <<>>]
HeaderFields == DOMAIN Fresh.hdr

DamagedField(field, old) ==
    CASE field \in {"magic", "policy", "data_flags"} -> FALSE
      [] field = "nonce" -> Fresh.hdr.nonce
      [] field \in {"wrapped", "key_tag", "img_tag", "measurements"} -> NoTerm
      [] OTHER -> old + INSTRS_PER_BLOCK

Damage ==
    /\ UNCHANGED <<src, built, hex, cpu, out, pool>>
    /\ Use("damage")
    /\ ~cpu.running /\ image # <<>>
    /\ \/ \E b \in Blocks : \E block \in {old.image[1].mem[b] : old \in pool} \cup {JunkBlock} :
             image' = <<[image[1] EXCEPT !.mem[b] = block]>>
       \/ \E f \in HeaderFields :
             \/ \E old \in pool : image' = <<[image[1] EXCEPT !.hdr[f] = old.image[1].hdr[f]]>>
             \/ image' = <<[image[1] EXCEPT !.hdr[f] = DamagedField(f, @)]>>
    /\ image' # image
    /\ content' = <<>>

-----------------------------------------------------------------------------

Init ==
    /\ left \in Scenarios
    /\ src = left.src
    /\ built = <<>> /\ hex = NoHex /\ image = <<>> /\ cpu = Off /\ out = NoOut
    /\ content = <<>> /\ pool = {}

Next ==
    \/ WriteLine \/ Assemble \/ Encrypt
    \/ StartRun \/ Load \/ Store \/ FinishRun
    \/ Decrypt \/ Restore \/ Damage

Spec == Init /\ [][Next]_vars

-----------------------------------------------------------------------------
(* What a source says, line by line: the reference for the assembler.        *)

\* The section in force before a line
SectionBefore(k) ==
    LET at == {j \in 1 .. k - 1 : built[j].op \in {".data", ".text"}}
    IN  IF at = {} THEN "None"
        ELSE IF built[CHOOSE j \in at : \A i \in at : i <= j].op = ".data" THEN "Data" ELSE "Text"

WordsOf(line) ==
    CASE line.op = ".word" -> Len(line.args)
      [] line.op = ".space" -> line.args[1][2] \div kWordBytes
      [] line.op = "la" -> 2
      [] line.op \in {"nop", "alu", "lw", "beq", "j"} -> 1
      [] OTHER -> 0

WordsBefore(k, section) ==
    Cardinality(UNION {{j} \X (1 .. WordsOf(built[j])) :
                       j \in {i \in 1 .. k - 1 : SectionBefore(i) = section}})

LabelLine(s) == CHOOSE k \in DOMAIN built : built[k].label = s
LabelIndex(s) == WordsBefore(LabelLine(s), SectionBefore(LabelLine(s)))
LabelAddress(s) ==
    (IF SectionBefore(LabelLine(s)) = "Data" THEN kDataBaseByte ELSE kTextBaseByte)
    + kWordBytes * LabelIndex(s)
ArgValue(arg) == IF arg[1] = "num" THEN arg[2] ELSE LabelAddress(arg[2])

File(section) == IF section = "Data" THEN hex.data ELSE hex.text

\* The words a line asks for, where they do not depend on how far away a label is
Wanted(line) ==
    CASE line.op = ".word" -> [i \in DOMAIN line.args |-> W("word", ArgValue(line.args[i]))]
      [] line.op = ".space" -> [i \in 1 .. WordsOf(line) |-> ZeroWord]
      [] line.op = "nop" -> <<ZeroWord>>
      [] line.op = "la" -> <<W("lui", ArgValue(line.args[1]) \div HalfMod),
                             W("ori", ArgValue(line.args[1]) % HalfMod)>>
      [] OTHER -> <<>>

-----------------------------------------------------------------------------
(* Properties.                                                               *)

\* The hex files are sequences of words
HexFiles == hex.ok => hex.text \in Seq(Range(hex.text)) /\ hex.data \in Seq(Range(hex.data))

\* The first pass of the assembler hands out addresses, the second emits words without
\* looking at them: every line's words are where the words of the lines before it in its
\* section end, and every label means that place (asm_to_hex.cpp, first_pass and second_pass).
TwoPassesAgree ==
    /\ HexFiles
    /\ hex.ok => \A k \in DOMAIN built :
        LET line == built[k]
            before == WordsBefore(k, SectionBefore(k))
        IN  /\ line.label # "" => hex.symbols[line.label].address = LabelAddress(line.label)
            /\ \A i \in DOMAIN Wanted(line) :
                  File(SectionBefore(k))[before + i] = Wanted(line)[i]

\* Assembler and encryptor each check that a program fits, with code of their own: what the
\* assembler accepts the encryptor seals exactly if the search for the places of the key's bits
\* finds them all.  It never does when the text ends with the memory, and with one block free it
\* has to draw every bit of that block, each in a bounded number of attempts over the whole upper
\* half: the encryptor may refuse what the assembler accepted (asm_to_hex.cpp,
\* validate_output_size; encryptor.cpp, main; 3d.cpp, secure_generate_positions).
AcceptedIsSealed ==
    (hex.ok /\ image = <<>> /\ left["encrypt"] > 0) =>
        \A key \in AppKeys, epoch \in EpochOptions :
            LET t == Len(hex.text)
                d == Len(hex.data)
                text_end == align_up_words(kTextStartAddr + t)
                data_end == align_up_words(text_end + d)
                e == IF epoch # 0 THEN epoch ELSE derive_auto_epoch(t, text_end, d)
                nonce == <<"nonce", key,
                           <<kTextStartAddr, t, text_end, text_end, d, data_end, TRUE, e>>>>
                sealed == encryptor(hex.text, hex.data, epoch, key) # <<>>
            IN  /\ sealed <=> secure_generate_positions(nonce, kTextStartAddr, text_end) # {}
                /\ sealed => text_end < MEM_SIZE

\* Whatever its length and the generator's draws, the text's blocks are stored in distinct
\* places of the text region (3d.cpp, secure_build_map_params).
TextMapIsPermutation ==
    src = <<>> => \A count \in 1 .. MEM_SIZE, seed \in 0 .. MEM_SIZE, draw \in {0, 1, 5} :
        LET m == MapParams(1, count, seed, draw)
        IN  {secure_map_block_with_params(b, m) : b \in 1 .. count} = 1 .. count

\* The data ends below the memory the key is hidden in (see the run image_overlap)
DataBelowKey ==
    hex.ok => align_up_words(align_up_words(kTextStartAddr + Len(hex.text)) + Len(hex.data)) <= HideLow

Sealed == {e.content[1] : e \in {old \in pool : old.content # <<>>}}

\* Whatever was damaged or mixed between runs: the text and data that a run starts on, and
\* that the decryptor writes, are those of one image that was sealed (3d.cpp,
\* secure_validate_image; decryptor.cpp).
RunsOnlySealedContent ==
    /\ cpu.opened # <<>> => cpu.opened[1] \in Sealed
    /\ out.rc = 0 => \E c \in Sealed : out.text = c.text /\ out.data = SubSeq(c.data, 1, c.words)

\* An image as it was sealed, by the encryptor or by a run, opens with its text and data in
\* every run, after runs that were refused or locked too, and in the decryptor (3d.cpp,
\* Crypto3DStackCPU_top; decryptor.cpp).
IntactImageOpens ==
    /\ cpu.intact # <<>> => cpu.opened # <<>> /\ cpu.opened[1] = cpu.intact[1]
    /\ out.of # <<>> => out.rc = 0 /\ out.text = out.of[1].text
                        /\ out.data = SubSeq(out.of[1].data, 1, out.of[1].words)

Opens(f, c) ==
    \E d \in {decryptor(f)} : d.rc = 0 /\ d.text = c.text /\ d.data = SubSeq(c.data, 1, c.words)

\* A run that only accesses its data ends clean and leaves an image that opens again, with
\* every store in it (3d.cpp, secure_reseal_current_image: "This makes the post-execution
\* output image reloadable and authenticatable after runtime stores.").
ReloadableAfterRun ==
    (~cpu.running /\ cpu.intact # <<>> /\ cpu.legal /\ cpu.opened # <<>>) =>
        /\ cpu.clean
        /\ image = <<[hdr |-> cpu.p.hdr, mem |-> cpu.p.mem]>> => Opens(image[1], cpu.now[1])

\* The CPU goes on at the first word of a block, so the assembler takes only labels there:
\* where the CPU goes for a branch or jump of an accepted source is the word of its label
\* (asm_to_hex.cpp, encode_instruction; 3d.cpp, computeBranchTargetBlock).
BranchesFindTheirLabel ==
    hex.ok => \A k \in DOMAIN built :
        built[k].op \in {"beq", "j"} =>
            LET at == WordsBefore(k, "Text")
                word == hex.text[at + 1]
                block == IF built[k].op = "j" THEN computeJumpTargetBlock(word)
                         ELSE computeBranchTargetBlock(kTextStartAddr + at, word)
            IN  block * INSTRS_PER_BLOCK = kTextStartAddr + LabelIndex(built[k].args[1][2])

\* The address a program loads with la finds, in the running image, the word that the source
\* put after the label (asm_to_hex.cpp, encode_instruction; 3d.cpp, translateDataAddress).
AddressesFindTheirData ==
    (cpu.running /\ cpu.intact # <<>> /\ cpu.p.mem = image[1].mem /\ cpu.opened[1].text = hex.text) =>
        \A s \in DOMAIN hex.symbols :
            LET w == translateDataAddress(cpu.p, hex.symbols[s].address)
            IN  (hex.symbols[s].section = "Data" /\ LabelIndex(s) < Len(hex.data)) =>
                    /\ secure_is_data_word(cpu.p, w)
                    /\ secure_read_encrypted_data_word(cpu.p, cpu.key, w)
                       = cpu.opened[1].data[LabelIndex(s) + 1]

\* What the assembler makes of a label is what the CPU makes of it again, for code and for
\* data: the two count words and blocks from different starts, with code of their own
\* (asm_to_hex.cpp, encode_instruction; 3d.cpp, computeBranchTargetBlock and
\* translateDataAddress).
LabelsMeanTheSame == BranchesFindTheirLabel /\ AddressesFindTheirData

\* A run, however it ends, changes nothing of the image file but the data and the image tag
\* (3d.cpp, stage_memory and Crypto3DStackCPU_top).
RunChangesOnlyData ==
    [][FinishRun =>
        /\ [image'[1].hdr EXCEPT !.img_tag = NoTerm] = [image[1].hdr EXCEPT !.img_tag = NoTerm]
        /\ \A b \in Blocks :
              ~(image[1].hdr.data_start <= b * INSTRS_PER_BLOCK
                /\ b * INSTRS_PER_BLOCK < image[1].hdr.data_end)
              => image'[1].mem[b] = image[1].mem[b]]_vars
=============================================================================
