------------------------------ MODULE CpuPipeline ------------------------------
(***************************************************************************)
(* The pipelined CPU (src/3d.cpp): fetch through the instruction cache,     *)
(* decrypt, decode, execute, memory, write back.                            *)
(*                                                                          *)
(* A step is one cycle of the main loop of Crypto3DStackCPU_top.  The code  *)
(* calls its stages one after the other, last stage first, on shared        *)
(* registers: each stage is an operator from a CPU state to the next one,   *)
(* and a cycle is their composition.  The image is loaded in Init; its      *)
(* validation and resealing are black boxes that succeed or fail.           *)
(***************************************************************************)
EXTENDS CpuInstructions

CONSTANTS
    InitialData,    \* plaintext of the data region, by word address
    Images,         \* what may be loaded: its text (block, slot -> instruction) and whether
                    \* its data is encrypted
    StartBlock,     \* kTextStartBlock
    MapMul, MapAdd, \* secure_runtime_map: where the text blocks are stored
    ICACHE_LINES, DCACHE_LINES,
    num_cycles      \* bound of the main loop: 2000 in the code

TextBlocks == block_of(TextStart) .. block_of(TextEnd) - 1
DataBlocks == block_of(DataStart) .. block_of(DataEnd) - 1
DataWords == DataStart .. DataEnd - 1

VARIABLES
    program,        \* the plaintext of the text loaded
    encrypted,      \* SEC_DATA_FLAG_ENCRYPTED of the image
    cpu,            \* pipeline registers, caches, register file, data memory
    cycle,
    status,         \* status_word, once the top function has returned
    idle            \* history: cycles since an instruction left the execute stage

vars == <<program, encrypted, cpu, cycle, status, idle>>

NotReturned == [lock |-> FALSE, keycheck |-> FALSE, retired |-> -1]
NOP == [op |-> "NOP", rs |-> 0, rt |-> 0, rd |-> 0, imm |-> 0]

-----------------------------------------------------------------------------
(* Memory.  A block that is encrypted is a term of its plaintext.            *)

aes_encrypt_block(plain) == [cipher |-> plain]
aes_decrypt_block(block) == block.cipher

secure_map_text_block(b) ==
    LET count == block_of(TextEnd) - block_of(TextStart)
    IN block_of(TextStart) + ((MapMul * (b - block_of(TextStart)) + MapAdd) % count)

\* The caches have lines, the run has a bound, the CPU starts where the encryptor puts the
\* text, and no two text blocks are stored in one place (multiplier and block count have no
\* factor in common: TextMapIsPermutation of Toolchain).
ASSUME PipelineAssumption ==
    /\ {ICACHE_LINES, DCACHE_LINES} \subseteq Nat \ {0}
    /\ num_cycles \in Nat
    /\ Images \subseteq [text : [TextBlocks -> [Slots -> Instructions]], encrypted : BOOLEAN]
    /\ InitialData \in [DataWords -> Words]
    /\ StartBlock = block_of(TextStart)
    /\ \A a, b \in TextBlocks : secure_map_text_block(a) = secure_map_text_block(b) => a = b

\* The text in memory: each block encrypted, where the map puts it.
stored_text(p) == aes_encrypt_block(program[CHOOSE b \in TextBlocks : secure_map_text_block(b) = p])

icache_hit(c, b) ==
    /\ c.icache[b % ICACHE_LINES].valid
    /\ c.icache[b % ICACHE_LINES].tag = b \div ICACHE_LINES

icache_read_block(c, b) ==
    IF icache_hit(c, b) THEN c
    ELSE [c EXCEPT !.icache[b % ICACHE_LINES] =
            [valid |-> TRUE, tag |-> b \div ICACHE_LINES, data |-> stored_text(secure_map_text_block(b))]]

dcache_hit(c, w) ==
    /\ c.dcache[w % DCACHE_LINES].valid
    /\ c.dcache[w % DCACHE_LINES].tag = w \div DCACHE_LINES

dcache_fill(c, w, v) ==
    [c EXCEPT !.dcache[w % DCACHE_LINES] = [valid |-> TRUE, tag |-> w \div DCACHE_LINES, data |-> v]]

dcache_read(c, w) ==
    IF dcache_hit(c, w) THEN c ELSE dcache_fill(c, w, c.data[block_of(w)][slot_of(w)])

\* Write-through.
dcache_write(c, w, v) ==
    [dcache_fill(c, w, v) EXCEPT !.data[block_of(w)][slot_of(w)] = v]

secure_read_encrypted_data_word(c, w) == aes_decrypt_block(c.data[block_of(w)])[slot_of(w)]

\* A word is written by decrypting and encrypting its block; its cached copies
\* are dropped.
secure_write_encrypted_data_word(c, w, v) ==
    [c EXCEPT !.data[block_of(w)] =
                 aes_encrypt_block([aes_decrypt_block(@) EXCEPT ![slot_of(w)] = v]),
              !.dcache = [l \in 0 .. DCACHE_LINES - 1 |->
                 IF \E a \in DataWords : block_of(a) = block_of(w) /\ a % DCACHE_LINES = l /\ dcache_hit(c, a)
                 THEN [@[l] EXCEPT !.valid = FALSE]
                 ELSE @[l]]]

-----------------------------------------------------------------------------
(* Stages, in the order the main loop calls them.                            *)

final_val(m) ==
    CASE m.instr.op = "LW" -> m.mem_read_val
      [] m.instr.op # "LW" /\ isWriteInstruction(m.instr) -> m.alu_result
      [] OTHER -> 0

stage_writeback(c) ==
    LET i == c.mem.instr
        d == getDestReg(i)
    IN IF ~c.mem.valid THEN c
       ELSE [c EXCEPT !.reg_file[d] = IF d # 0 THEN final_val(c.mem) ELSE @,
                      !.retired = IF isWriteInstruction(i) THEN @ + 1 ELSE @,
                      !.wb = [valid |-> TRUE, final_val |-> final_val(c.mem), instr |-> i],
                      !.mem.valid = FALSE]

FlushFrontend(c) == [c EXCEPT !.fetch.valid = FALSE, !.decr.valid = FALSE, !.decode.valid = FALSE]

\* Recovery from a misprediction, when the branch goes on to the memory stage.
recover(c) ==
    IF ~c.exec.control_mispredict THEN c
    ELSE [FlushFrontend(c) EXCEPT !.fetch.block_addr = c.exec.recovery_block_addr]

lockSecurity(c) == [c EXCEPT !.locked = TRUE]

load(c, w) ==
    CASE w = NoWord -> [cpu |-> c, val |-> 0]
      [] w # NoWord /\ ~secure_is_data_word(w) -> [cpu |-> lockSecurity(c), val |-> 0]
      [] w # NoWord /\ secure_is_data_word(w) /\ encrypted ->
            [cpu |-> c, val |-> secure_read_encrypted_data_word(c, w)]
      [] OTHER -> [cpu |-> dcache_read(c, w), val |-> dcache_read(c, w).dcache[w % DCACHE_LINES].data]

store(c, w) ==
    CASE w = NoWord -> c
      [] w # NoWord /\ (w < SEC_HDR_WORDS \/ secure_is_text_word(w) \/ ~secure_is_data_word(w)) ->
            lockSecurity(c)
      [] w # NoWord /\ secure_is_data_word(w) /\ encrypted ->
            secure_write_encrypted_data_word(c, w, c.exec.rt_forward_val)
      [] OTHER -> FlushFrontend(dcache_write(c, w, c.exec.rt_forward_val))

stage_memory(c) ==
    LET i == c.exec.instr
        w == translateDataAddress(c.exec.alu_result)
        l == load(c, w)
        d == CASE i.op = "LW" -> l.cpu
               [] i.op = "SW" -> store(c, w)
               [] OTHER -> c
    IN IF ~c.exec.valid \/ c.mem.valid THEN c
       ELSE [d EXCEPT !.mem = [valid |-> TRUE, instr |-> i, alu_result |-> c.exec.alu_result,
                               mem_read_val |-> IF i.op = "LW" THEN l.val ELSE c.exec.alu_result,
                               word_addr |-> c.exec.word_addr],
                      !.exec.valid = FALSE]

\* Mutant of forwarded: the older of two producers wins.
forwarded_oldest_first(c, r, v) ==
    LET produces(s) == s.valid /\ isWriteInstruction(s.instr) /\ getDestReg(s.instr) = r /\ r # 0
    IN IF produces(c.wb) THEN c.wb.final_val
       ELSE IF produces(c.mem) THEN c.mem.mem_read_val
       ELSE v

\* The value of register r in the execute stage, read as v in the decode stage:
\* from the instruction before it or from the one before that.
forwarded(c, r, v) ==
    LET produces(s) == s.valid /\ isWriteInstruction(s.instr) /\ getDestReg(s.instr) = r /\ r # 0
    IN IF produces(c.mem) THEN c.mem.mem_read_val
       ELSE IF produces(c.wb) THEN c.wb.final_val
       ELSE v

target_block(i, word_addr) ==
    IF i.op = "J" THEN block_of(jump_target(i)) ELSE block_of(branch_target(word_addr, i))

stage_execute(c) ==
    LET d == c.decode
        rs_val == forwarded(c, d.rs_idx, d.rs_val)
        rt_val == forwarded(c, d.rt_idx, d.rt_val)
        br == branch_taken(d.instr, rs_val, rt_val)
        actual_block == IF br THEN target_block(d.instr, d.word_addr) ELSE d.fallthrough_block_addr
        predicted_block == IF d.predicted_taken THEN d.predicted_block_addr ELSE d.fallthrough_block_addr
    IN IF ~d.valid \/ c.exec.valid THEN c
       ELSE [c EXCEPT !.exec = [valid |-> TRUE, instr |-> d.instr, word_addr |-> d.word_addr,
                                alu_result |-> alu(d.instr, rs_val, rt_val, c.copro),
                                rt_forward_val |-> rt_val,
                                taken_branch |-> br,
                                control_mispredict |->
                                    isControlInstruction(d.instr) /\ actual_block # predicted_block,
                                recovery_block_addr |-> actual_block,
                                copro_before |-> c.copro],
                      !.copro = IF d.instr.op = "AESENC" THEN [rs |-> rs_val, rt |-> rt_val] ELSE @,
                      !.decode.valid = FALSE]

\* Mutant of must_stall: a load that has left the execute stage still counts.
must_stall_stale(c) ==
    LET i == c.decr.decr_block[c.decr.instr_index]
    IN /\ c.exec.instr.op = "LW"
       /\ getDestReg(c.exec.instr) # 0
       /\ getDestReg(c.exec.instr) \in {source_rs(i), source_rt(i)}

\* checkDataHazard: the consumer of a load waits for a cycle.
must_stall(c) ==
    LET i == c.decr.decr_block[c.decr.instr_index]
    IN /\ c.exec.valid /\ c.exec.instr.op = "LW"
       /\ getDestReg(c.exec.instr) # 0
       /\ getDestReg(c.exec.instr) \in {source_rs(i), source_rt(i)}

block_left(c) == c.decr.instr_index + 1 < INSTRS_PER_BLOCK

\* A jump redirects the fetch here; a branch is predicted not taken.
stage_decode(c) ==
    LET i == c.decr.decr_block[c.decr.instr_index]
        word_addr == c.decr.block_addr * INSTRS_PER_BLOCK + c.decr.instr_index
        pred_taken == i.op = "J"
        pred_block == IF pred_taken THEN target_block(i, word_addr) ELSE block_of(word_addr + 1)
    IN IF c.decode.valid \/ must_stall(c) THEN c
       ELSE [c EXCEPT !.decode = [valid |-> TRUE, instr |-> i, word_addr |-> word_addr,
                                  rs_val |-> c.reg_file[source_rs(i)], rt_val |-> c.reg_file[source_rt(i)],
                                  rs_idx |-> source_rs(i), rt_idx |-> source_rt(i),
                                  predicted_taken |-> pred_taken,
                                  predicted_block_addr |-> pred_block,
                                  fallthrough_block_addr |-> block_of(word_addr + 1)],
                      !.decr.instr_index = @ + 1,
                      !.decr.valid = ~pred_taken /\ block_left(c),
                      !.fetch.valid = @ /\ ~pred_taken,
                      !.fetch.block_addr = IF pred_taken THEN pred_block ELSE @]

stage_decrypt(c) ==
    IF ~c.fetch.valid THEN c
    ELSE [c EXCEPT !.decr = [valid |-> TRUE, block_addr |-> c.fetch.block_addr, instr_index |-> 0,
                             decr_block |-> aes_decrypt_block(c.fetch.block_data)],
                   !.fetch.valid = FALSE,
                   !.fetch.block_addr = @ + 1]

\* The key is extracted, and the image validated, with the first fetch.
stage_fetch(c, image_ok) ==
    LET b == IF c.fetch.block_addr < block_of(TextStart) THEN block_of(TextStart) ELSE c.fetch.block_addr
        d == icache_read_block(c, b)
    IN IF c.fetch.valid THEN c
       ELSE IF ~c.key_valid /\ ~image_ok THEN [lockSecurity(c) EXCEPT !.key_check_failed = TRUE]
       ELSE IF b >= block_of(TextEnd) THEN [c EXCEPT !.key_valid = TRUE, !.fetch.block_addr = b]
       ELSE [d EXCEPT !.key_valid = TRUE,
                      !.fetch = [valid |-> TRUE, block_addr |-> b,
                                 block_data |-> d.icache[b % ICACHE_LINES].data]]

-----------------------------------------------------------------------------
(* Specification.                                                            *)

Running == status = NotReturned

Cycle ==
    /\ Running
    /\ cycle < num_cycles
    /\ ~cpu.key_check_failed /\ ~cpu.locked
    /\ cycle' = cycle + 1
    /\ LET c1 == stage_writeback([cpu EXCEPT !.wb.valid = FALSE])
           c2 == IF c1.exec.valid THEN stage_memory(recover(c1)) ELSE c1
           c3 == stage_execute(c2)
           c4 == IF c3.decr.valid THEN stage_decode(c3) ELSE stage_decrypt(c3)
       IN \E image_ok \in BOOLEAN :
            /\ cpu.key_valid => image_ok
            /\ cpu' = stage_fetch(c4, image_ok)
    /\ idle' = IF cpu'.mem.valid THEN 0 ELSE idle + 1
    /\ UNCHANGED <<program, encrypted, status>>

\* The image is resealed, which may fail, the status word is written, and key and
\* coprocessor are wiped.
Return ==
    /\ Running
    /\ cycle = num_cycles \/ cpu.key_check_failed \/ cpu.locked
    /\ \E resealed \in BOOLEAN :
          LET reseals == cpu.key_valid /\ ~cpu.key_check_failed /\ ~cpu.locked
              failed == cpu.key_check_failed \/ (reseals /\ ~resealed)
          IN /\ resealed \/ reseals
             /\ status' = [lock |-> cpu.locked \/ (reseals /\ ~resealed), keycheck |-> failed,
                           retired |-> cpu.retired % 2 ^ 16]
             /\ cpu' = [cpu EXCEPT !.key_check_failed = failed, !.key_valid = FALSE, !.copro = NoBlock]
    /\ UNCHANGED <<program, encrypted, cycle, idle>>

loaded(b) == [s \in Slots |-> InitialData[b * INSTRS_PER_BLOCK + s]]

Init ==
    /\ \E image \in Images : program = image.text /\ encrypted = image.encrypted
    /\ cycle = 0
    /\ status = NotReturned
    /\ idle = 0
    /\ cpu = [fetch |-> [valid |-> FALSE, block_addr |-> StartBlock, block_data |-> <<>>],
              decr |-> [valid |-> FALSE, block_addr |-> 0, decr_block |-> <<>>, instr_index |-> 0],
              decode |-> [valid |-> FALSE],
              exec |-> [valid |-> FALSE, instr |-> NOP],
              mem |-> [valid |-> FALSE],
              wb |-> [valid |-> FALSE],
              reg_file |-> [r \in Regs |-> 0],
              copro |-> NoBlock,
              data |-> [b \in DataBlocks |-> IF encrypted THEN aes_encrypt_block(loaded(b)) ELSE loaded(b)],
              icache |-> [l \in 0 .. ICACHE_LINES - 1 |-> [valid |-> FALSE]],
              dcache |-> [l \in 0 .. DCACHE_LINES - 1 |-> [valid |-> FALSE]],
              retired |-> 0, locked |-> FALSE, key_valid |-> FALSE, key_check_failed |-> FALSE]

Next == Cycle \/ Return

Spec == Init /\ [][Next]_vars /\ WF_vars(Next)

-----------------------------------------------------------------------------
(* Properties.                                                               *)

\* The address of the first instruction behind the execute stage.
next_word ==
    IF cpu.decode.valid THEN cpu.decode.word_addr
    ELSE IF cpu.decr.valid THEN cpu.decr.block_addr * INSTRS_PER_BLOCK + cpu.decr.instr_index
    ELSE cpu.fetch.block_addr * INSTRS_PER_BLOCK

\* The program counter: the oldest instruction that has not reached memory, or the
\* one that locked the device.
pc ==
    IF cpu.locked /\ ~cpu.key_check_failed THEN cpu.mem.word_addr
    ELSE IF cpu.exec.valid THEN cpu.exec.word_addr
    ELSE next_word

plain_data ==
    [w \in DataWords |->
        IF encrypted THEN secure_read_encrypted_data_word(cpu, w) ELSE cpu.data[block_of(w)][slot_of(w)]]

\* An instruction takes effect when it leaves the execute stage: one in the memory
\* stage counts as written back, unless it locked the device.
committed == IF cpu.locked THEN cpu ELSE stage_writeback(cpu)

Reference == INSTANCE CpuIsa
         WITH pc <- pc, regs <- committed.reg_file, retired <- committed.retired, mem <- plain_data,
              copro <- IF status = NotReturned /\ cpu.exec.valid THEN cpu.exec.copro_before ELSE cpu.copro,
              locked <- cpu.locked /\ ~cpu.key_check_failed, stopped <- status # NotReturned

\* The pipeline does what the program says: with forwarding, the load-use stall,
\* prediction, recovery and the caches, registers, data and lock change as if one
\* instruction ran after the other, and an access outside the data region stops the
\* program exactly there.
ImplementsIsa == Reference!Spec

\* The images for which that is so, those of the assembler and the encryptor but for one case:
\* branches and jumps go to the first word of a text block, no branch that may be taken goes
\* back to the start of the block it falls through to (see BranchesAreRecovered), and only
\* an image with encrypted data has stores.
Assembled(text, data_encrypted) ==
    \A b \in TextBlocks, s \in Slots :
        LET i == text[b][s]
            w == b * INSTRS_PER_BLOCK + s
            target == IF i.op = "J" THEN jump_target(i) ELSE branch_target(w, i)
        IN  /\ isControlInstruction(i) => TextStart <= target /\ slot_of(target) = 0
            /\ i.op \in {"BEQ", "BNE"} /\ block_of(target) = block_of(w + 1) => target = w + 1
            /\ i.op = "SW" => data_encrypted

\* No bubble lasts: while there is an instruction to run, one leaves the execute stage
\* within the depth of the pipeline (a stuck valid bit or a stall that repeats would
\* silently use up the cycles of the run).
NeverStuck == status = NotReturned /\ ~cpu.locked /\ pc < TextEnd => idle <= 5

\* Behind a branch that was not mispredicted comes its successor ("conditional branches
\* use static predict-not-taken and are recovered by flush").
BranchesAreRecovered ==
    cpu.exec.valid /\ isControlInstruction(cpu.exec.instr) /\ ~cpu.exec.control_mispredict =>
        next_word = IF cpu.exec.taken_branch
                    THEN cpu.exec.recovery_block_addr * INSTRS_PER_BLOCK
                    ELSE cpu.exec.word_addr + 1

=============================================================================
