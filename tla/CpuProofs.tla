------------------------------ MODULE CpuProofs ------------------------------
(***************************************************************************)
(* Proofs about the pipelined CPU, for every layout, cache size, image and  *)
(* number of cycles: no bubble lasts, and the pipeline implements the       *)
(* reference that runs one instruction after the other.                     *)
(*                                                                          *)
(* The invariant (State) says of every stage register which instruction of  *)
(* the program text it holds and from which registers it was computed;      *)
(* Progress bounds the idle cycles by the first stage that is occupied, and *)
(* Path says that the stages hold successive instructions, as predicted.    *)
(***************************************************************************)
EXTENDS CpuPipeline, TLAPS

-----------------------------------------------------------------------------
(* Words, blocks and slots.                                                  *)

LEMMA Parameters ==
    /\ INSTRS_PER_BLOCK \in Nat /\ INSTRS_PER_BLOCK > 0
    /\ NUM_REGS \in Nat /\ NUM_REGS > 0
    /\ WordMod \in Nat /\ WordMod > 0
    /\ TextStart \in Nat /\ TextEnd \in Nat /\ TextStart < TextEnd
    /\ DataStart \in Nat /\ DataEnd \in Nat /\ TextEnd <= DataStart /\ DataStart < DataEnd
    /\ ICACHE_LINES \in Nat /\ ICACHE_LINES > 0
    /\ DCACHE_LINES \in Nat /\ DCACHE_LINES > 0
    /\ MEM_SIZE \in Nat
    /\ kMarsTextBaseWord \in Nat /\ kMarsDataBaseByte \in Nat
    /\ JunkWord \in Words
  BY LayoutAssumption, PipelineAssumption DEF Words

LEMMA Division ==
    ASSUME NEW n \in Nat, n > 0, NEW w \in Nat
    PROVE  /\ w \div n \in Nat
           /\ w % n \in 0 .. n - 1
           /\ w = n * (w \div n) + (w % n)
  OBVIOUS

LEMMA Quotient ==
    ASSUME NEW n \in Nat, n > 0, NEW b \in Nat, NEW s \in 0 .. n - 1
    PROVE  /\ (b * n + s) \div n = b
           /\ (b * n + s) % n = s
<1> DEFINE w == b * n + s
           q == w \div n
           r == w % n
<1>1. b * n \in Nat /\ w \in Nat
  OBVIOUS
<1>2. q \in Nat /\ r \in 0 .. n - 1 /\ w = n * q + r
  BY <1>1, Division
<1>3. CASE q < b
  <2>1. PICK d \in Nat : b = q + d + 1
    BY <1>2, <1>3, b - q - 1 \in Nat
  <2>2. b * n = n * q + d * n + n
    BY <2>1, <1>2
  <2>3. d * n >= 0
    BY <2>1
  <2>4. QED
    BY <2>2, <2>3, <1>2
<1>4. CASE q > b
  <2>1. PICK d \in Nat : q = b + d + 1
    BY <1>2, <1>4, q - b - 1 \in Nat
  <2>2. n * q = b * n + d * n + n
    BY <2>1, <1>2
  <2>3. d * n >= 0
    BY <2>1
  <2>4. QED
    BY <2>2, <2>3, <1>2
<1>5. CASE q = b
  BY <1>2, <1>5
<1>6. QED
  BY <1>2, <1>3, <1>4, <1>5

\* A larger word is in no smaller block.
LEMMA Monotone ==
    ASSUME NEW n \in Nat, n > 0, NEW v \in Nat, NEW w \in Nat, v <= w
    PROVE  v \div n <= w \div n
<1> DEFINE p == v \div n
           q == w \div n
<1>1. p \in Nat /\ v % n \in 0 .. n - 1 /\ v = n * p + (v % n)
  BY Division
<1>2. q \in Nat /\ w % n \in 0 .. n - 1 /\ w = n * q + (w % n)
  BY Division
<1>3. SUFFICES ASSUME q < p PROVE FALSE
  BY <1>1, <1>2
<1>4. PICK d \in Nat : p = q + d + 1
  BY <1>1, <1>2, <1>3, p - q - 1 \in Nat
<1>5. n * p = n * q + n * d + n
  BY <1>4, <1>2
<1>6. n * d >= 0
  BY <1>4
<1>7. QED
  BY <1>1, <1>2, <1>5, <1>6

LEMMA BlockSlot ==
    ASSUME NEW w \in Nat
    PROVE  /\ block_of(w) \in Nat /\ slot_of(w) \in Slots
           /\ w = block_of(w) * INSTRS_PER_BLOCK + slot_of(w)
  BY Division, Parameters DEF block_of, slot_of, Slots

LEMMA WordOf ==
    ASSUME NEW b \in Nat, NEW s \in Slots
    PROVE  /\ b * INSTRS_PER_BLOCK + s \in Nat
           /\ block_of(b * INSTRS_PER_BLOCK + s) = b
           /\ slot_of(b * INSTRS_PER_BLOCK + s) = s
  BY Quotient, Parameters DEF block_of, slot_of, Slots

LEMMA AtBlock ==
    ASSUME NEW w \in Nat, slot_of(w) = 0
    PROVE  block_of(w) \in Nat /\ w = block_of(w) * INSTRS_PER_BLOCK
<1>1. block_of(w) \in Nat /\ w = block_of(w) * INSTRS_PER_BLOCK + 0
  BY BlockSlot
<1>2. block_of(w) * INSTRS_PER_BLOCK \in Nat
  BY <1>1, Parameters
<1>3. QED
  BY <1>1, <1>2

\* A region that starts and ends with a block.
LEMMA Region ==
    ASSUME NEW lo \in Nat, NEW hi \in Nat, lo % INSTRS_PER_BLOCK = 0, hi % INSTRS_PER_BLOCK = 0,
           NEW w \in Nat
    PROVE  w \in lo .. hi - 1 <=> block_of(w) \in block_of(lo) .. block_of(hi) - 1
<1>1. /\ block_of(lo) \in Nat /\ lo = block_of(lo) * INSTRS_PER_BLOCK
      /\ block_of(hi) \in Nat /\ hi = block_of(hi) * INSTRS_PER_BLOCK
  BY AtBlock DEF slot_of
<1>2. block_of(w) \in Nat /\ slot_of(w) \in Slots /\ w = block_of(w) * INSTRS_PER_BLOCK + slot_of(w)
  BY BlockSlot
<1>3. lo <= w => block_of(lo) <= block_of(w)
  BY Monotone, Parameters DEF block_of
<1>4. w < lo => block_of(w) < block_of(lo)
  <2> HAVE w < lo
  <2>1. block_of(w) <= block_of(lo)
    BY Monotone, Parameters DEF block_of
  <2>2. block_of(w) # block_of(lo)
    BY <1>1, <1>2, Parameters DEF Slots
  <2>3. QED
    BY <2>1, <2>2, <1>1, <1>2
<1>5. w < hi => block_of(w) < block_of(hi)
  <2> HAVE w < hi
  <2>1. block_of(w) <= block_of(hi)
    BY Monotone, Parameters DEF block_of
  <2>2. block_of(w) # block_of(hi)
    BY <1>1, <1>2, Parameters DEF Slots
  <2>3. QED
    BY <2>1, <2>2, <1>1, <1>2
<1>6. hi <= w => block_of(hi) <= block_of(w)
  BY Monotone, Parameters DEF block_of
<1>7. QED
  BY <1>1, <1>2, <1>3, <1>4, <1>5, <1>6

LEMMA DataRegion ==
    ASSUME NEW w \in DataWords
    PROVE  w \in Nat /\ block_of(w) \in DataBlocks /\ slot_of(w) \in Slots
<1>1. w \in Nat /\ DataStart \in Nat /\ DataEnd \in Nat
  BY Parameters DEF DataWords
<1>2. DataStart % INSTRS_PER_BLOCK = 0 /\ DataEnd % INSTRS_PER_BLOCK = 0
  BY LayoutAssumption
<1>3. QED
  BY <1>1, <1>2, Region, BlockSlot DEF DataWords, DataBlocks

LEMMA TextAligned ==
    /\ block_of(TextStart) \in Nat /\ TextStart = block_of(TextStart) * INSTRS_PER_BLOCK
    /\ block_of(TextEnd) \in Nat /\ TextEnd = block_of(TextEnd) * INSTRS_PER_BLOCK
    /\ block_of(TextStart) < block_of(TextEnd)
<1>1. TextStart % INSTRS_PER_BLOCK = 0 /\ TextEnd % INSTRS_PER_BLOCK = 0
  BY LayoutAssumption
<1>2. /\ block_of(TextStart) \in Nat /\ TextStart = block_of(TextStart) * INSTRS_PER_BLOCK
      /\ block_of(TextEnd) \in Nat /\ TextEnd = block_of(TextEnd) * INSTRS_PER_BLOCK
  BY <1>1, AtBlock, Parameters DEF slot_of
<1>3. TextStart \in TextStart .. TextEnd - 1
  BY Parameters
<1>4. block_of(TextStart) \in block_of(TextStart) .. block_of(TextEnd) - 1
  BY <1>1, <1>3, Region, Parameters
<1>5. QED
  BY <1>2, <1>4

-----------------------------------------------------------------------------
(* The registers of the CPU as a record: what a stage changes.               *)

CpuFields == {"fetch", "decr", "decode", "exec", "mem", "wb", "reg_file", "copro", "data", "icache",
              "dcache", "retired", "locked", "key_valid", "key_check_failed"}

\* The fetch and decrypt registers, a register with a valid bit, and the rest.
FetchShape(x) == DOMAIN x = {"valid", "block_addr", "block_data"} /\ x.valid \in BOOLEAN
DecrShape(x) ==
    DOMAIN x = {"valid", "block_addr", "decr_block", "instr_index"} /\ x.valid \in BOOLEAN
StageShape(x) == "valid" \in DOMAIN x /\ x.valid \in BOOLEAN
CoproShape(x) == x \in [rs : Words, rt : Words]

Shape(c) ==
    /\ DOMAIN c = CpuFields
    /\ FetchShape(c.fetch) /\ DecrShape(c.decr)
    /\ StageShape(c.decode) /\ StageShape(c.exec) /\ StageShape(c.mem) /\ StageShape(c.wb)
    /\ c.locked \in BOOLEAN /\ c.key_valid \in BOOLEAN /\ c.key_check_failed \in BOOLEAN
    /\ c.reg_file \in [Regs -> Words]
    /\ CoproShape(c.copro)
    /\ c.retired \in Nat

TextWords == TextStart .. TextEnd - 1
InstructionAt(w) == program[block_of(w)][slot_of(w)]

\* An instruction in the execute stage, and one in the decode stage.
Executed(x) ==
    x.valid => /\ x.word_addr \in TextWords /\ x.instr = InstructionAt(x.word_addr)
               /\ x.instr \in Instructions
               /\ x.alu_result \in Words /\ x.rt_forward_val \in Words
               /\ x.recovery_block_addr \in Int
               /\ CoproShape(x.copro_before)

Decoded(x) ==
    x.valid => /\ x.word_addr \in TextWords /\ x.instr = InstructionAt(x.word_addr)
               /\ x.instr \in Instructions
               /\ x.rs_idx = source_rs(x.instr) /\ x.rt_idx = source_rt(x.instr)
               /\ x.rs_val \in Words /\ x.rt_val \in Words
               /\ x.predicted_taken = (x.instr.op = "J")
               /\ x.instr.op = "J" => x.predicted_block_addr = target_block(x.instr, x.word_addr)
               /\ x.fallthrough_block_addr = block_of(x.word_addr + 1)

\* A block in the decrypt stage and one in the fetch stage.
Decrypted(x) ==
    x.valid => /\ x.block_addr \in TextBlocks /\ x.decr_block = program[x.block_addr]
               /\ x.instr_index \in Slots

Fetched(x) ==
    /\ x.block_addr \in Int
    /\ x.valid => x.block_addr \in TextBlocks
                  /\ x.block_data = aes_encrypt_block(program[x.block_addr])

\* A line of the instruction cache holds the block its tag says.
ICacheOK(x) ==
    /\ DOMAIN x = 0 .. ICACHE_LINES - 1
    /\ \A b \in TextBlocks :
          LET line == x[b % ICACHE_LINES]
          IN  line.valid /\ line.tag = b \div ICACHE_LINES =>
                line.data = aes_encrypt_block(program[b])

\* The plaintext of a data word, and the data region, encrypted, or plain with a cache that
\* agrees with it.
PlainWord(c, w) ==
    IF encrypted THEN c.data[block_of(w)].cipher[slot_of(w)] ELSE c.data[block_of(w)][slot_of(w)]

DataOK(c) ==
    /\ encrypted => c.data \in [DataBlocks -> [cipher : [Slots -> Words]]]
    /\ ~encrypted =>
          /\ c.data \in [DataBlocks -> [Slots -> Words]]
          /\ DOMAIN c.dcache = 0 .. DCACHE_LINES - 1
          /\ \A w \in DataWords : dcache_hit(c, w) =>
                c.dcache[w % DCACHE_LINES].data = c.data[block_of(w)][slot_of(w)]

\* An instruction that has passed the memory stage.
Passed(c) ==
    c.mem.valid => /\ c.mem.instr \in Instructions
                   /\ c.mem.alu_result \in Words
                   /\ c.mem.mem_read_val \in Words
                   /\ c.mem.instr.op # "LW" => c.mem.mem_read_val = c.mem.alu_result

Same(c, d, F) == \A f \in F : d[f] = c[f]

LEMMA Destination ==
    ASSUME NEW i \in Instructions
    PROVE  /\ getDestReg(i) \in Regs
           /\ source_rs(i) \in Regs /\ source_rt(i) \in Regs
           /\ ~isWriteInstruction(i) => getDestReg(i) = 0
  BY Parameters DEF Instructions, getDestReg, source_rs, source_rt, isWriteInstruction, Regs, RWriteFuncts

\* What the instruction in the memory stage leaves in the registers.
WrittenRegs(c) ==
    IF c.mem.valid /\ getDestReg(c.mem.instr) # 0
    THEN [c.reg_file EXCEPT ![getDestReg(c.mem.instr)] = c.mem.mem_read_val] ELSE c.reg_file

WrittenCount(c) == IF c.mem.valid /\ isWriteInstruction(c.mem.instr) THEN c.retired + 1 ELSE c.retired

LEMMA FinalValue ==
    ASSUME NEW c, Passed(c), c.mem.valid
    PROVE  /\ final_val(c.mem) = IF isWriteInstruction(c.mem.instr) THEN c.mem.mem_read_val ELSE 0
           /\ getDestReg(c.mem.instr) # 0 => isWriteInstruction(c.mem.instr)
           /\ final_val(c.mem) \in Words
  BY Destination, Parameters DEF Passed, final_val, isWriteInstruction, Words

\* The write-back stage of a cycle, and what it does.
WriteStage(c) == stage_writeback([c EXCEPT !.wb.valid = FALSE])

WriteFacts(c, d) ==
    /\ d.mem.valid = FALSE
    /\ d.reg_file = WrittenRegs(c)
    /\ d.retired = WrittenCount(c)
    /\ d.wb.valid = c.mem.valid
    /\ c.mem.valid => d.wb.instr = c.mem.instr /\ d.wb.final_val = final_val(c.mem)
    /\ Same(c, d, CpuFields \ {"mem", "wb", "reg_file", "retired"})

LEMMA WritebackIs ==
    ASSUME NEW c, Shape(c), Passed(c), NEW d, d = WriteStage(c)
    PROVE  Shape(d) /\ WriteFacts(c, d)
<1>1. PICK e : e = [c EXCEPT !.wb.valid = FALSE]
  OBVIOUS
<1>2. Shape(e) /\ e.wb.valid = FALSE /\ Same(c, e, CpuFields \ {"wb"})
  BY <1>1 DEF Shape, Same, CpuFields, StageShape
<1>3. d = IF ~e.mem.valid THEN e
          ELSE [e EXCEPT !.reg_file[getDestReg(e.mem.instr)] =
                             IF getDestReg(e.mem.instr) # 0 THEN final_val(e.mem) ELSE @,
                         !.retired = IF isWriteInstruction(e.mem.instr) THEN @ + 1 ELSE @,
                         !.wb = [valid |-> TRUE, final_val |-> final_val(e.mem), instr |-> e.mem.instr],
                         !.mem.valid = FALSE]
  BY <1>1 DEF WriteStage, stage_writeback
<1>4. e.mem = c.mem /\ e.reg_file = c.reg_file /\ e.retired = c.retired
  BY <1>2 DEF Same, CpuFields
<1>5. CASE ~c.mem.valid
  <2>1. d = e
    BY <1>3, <1>4, <1>5
  <2>2. QED
    BY <2>1, <1>2, <1>4, <1>5 DEF Same, CpuFields, WrittenRegs, WrittenCount, Shape, StageShape, WriteFacts
<1>6. CASE c.mem.valid
  <2> DEFINE i == c.mem.instr
             r == getDestReg(i)
             v == final_val(c.mem)
  <2>2. i \in Instructions /\ r \in Regs /\ v \in Words /\ (r # 0 => v = c.mem.mem_read_val)
    BY <1>6, Destination, FinalValue DEF Passed
  <2>3. d = [e EXCEPT !.reg_file = [c.reg_file EXCEPT ![r] = IF r # 0 THEN v ELSE @],
                      !.retired = IF isWriteInstruction(i) THEN c.retired + 1 ELSE c.retired,
                      !.wb = [valid |-> TRUE, final_val |-> v, instr |-> i],
                      !.mem = [c.mem EXCEPT !.valid = FALSE]]
    BY <1>3, <1>4, <1>6
  <2> HIDE DEF i, r, v
  <2>4. /\ d.reg_file = [c.reg_file EXCEPT ![r] = IF r # 0 THEN v ELSE @]
        /\ d.retired = IF isWriteInstruction(i) THEN c.retired + 1 ELSE c.retired
        /\ d.wb = [valid |-> TRUE, final_val |-> v, instr |-> i]
        /\ d.mem = [c.mem EXCEPT !.valid = FALSE]
        /\ Same(e, d, CpuFields \ {"mem", "wb", "reg_file", "retired"}) /\ DOMAIN d = CpuFields
    BY <2>3, <1>2 DEF Shape, CpuFields, Same
  <2>5. d.reg_file \in [Regs -> Words] /\ d.reg_file = WrittenRegs(c)
    <3>1. c.reg_file \in [Regs -> Words]
      BY DEF Shape
    <3>2. QED
      BY <2>4, <2>2, <3>1, <1>6 DEF WrittenRegs, r, i
  <2>6. d.retired = WrittenCount(c) /\ d.retired \in Nat
    <3>2. c.retired \in Nat
      BY DEF Shape
    <3>3. QED
      BY <2>4, <3>2, <1>6 DEF WrittenCount, i
  <2>7. StageShape(d.mem) /\ d.mem.valid = FALSE
    BY <2>4 DEF Shape, StageShape
  <2>8. StageShape(d.wb) /\ d.wb.valid = TRUE /\ d.wb.instr = i /\ d.wb.final_val = v
    <3>1. d.wb = [valid |-> TRUE, final_val |-> v, instr |-> i]
      BY <2>4
    <3>2. d.wb.valid = TRUE
      BY <3>1
    <3>3. d.wb.instr = i /\ d.wb.final_val = v
      BY <3>1
    <3>4. "valid" \in DOMAIN d.wb
      BY <3>1
    <3>5. QED
      BY <3>2, <3>3, <3>4 DEF StageShape
  <2>9. Same(c, d, CpuFields \ {"mem", "wb", "reg_file", "retired"})
    BY <2>4, <1>2 DEF CpuFields, Same
  <2>10. Shape(d)
    BY <2>4, <2>5, <2>6, <2>7, <2>8, <2>9 DEF Shape, CpuFields, Same
  <2>11. c.mem.valid = TRUE
    BY <1>6 DEF Shape, StageShape
  <2>12. QED
    BY <2>5, <2>6, <2>7, <2>8, <2>9, <2>10, <2>11 DEF i, v, WriteFacts
<1>7. QED
  BY <1>5, <1>6 DEF Shape

\* A misprediction empties the front end and sends it to the branch's successor.
LEMMA FlushIs ==
    ASSUME NEW c, Shape(c), NEW d, d = FlushFrontend(c)
    PROVE  /\ Shape(d)
           /\ d.fetch.valid = FALSE /\ d.decr.valid = FALSE /\ d.decode.valid = FALSE
           /\ d.fetch.block_addr = c.fetch.block_addr
           /\ Same(c, d, CpuFields \ {"fetch", "decr", "decode"})
<1>1. d = [c EXCEPT !.fetch = [c.fetch EXCEPT !.valid = FALSE],
                    !.decr = [c.decr EXCEPT !.valid = FALSE],
                    !.decode = [c.decode EXCEPT !.valid = FALSE]]
  BY DEF FlushFrontend
<1>2. /\ d.fetch = [c.fetch EXCEPT !.valid = FALSE]
      /\ d.decr = [c.decr EXCEPT !.valid = FALSE]
      /\ d.decode = [c.decode EXCEPT !.valid = FALSE]
      /\ Same(c, d, CpuFields \ {"fetch", "decr", "decode"}) /\ DOMAIN d = CpuFields
  BY <1>1 DEF Shape, CpuFields, Same
<1>3. FetchShape(d.fetch) /\ d.fetch.valid = FALSE /\ d.fetch.block_addr = c.fetch.block_addr
  BY <1>2 DEF Shape, FetchShape
<1>4. DecrShape(d.decr) /\ d.decr.valid = FALSE
  BY <1>2 DEF Shape, DecrShape
<1>5. StageShape(d.decode) /\ d.decode.valid = FALSE
  BY <1>2 DEF Shape, StageShape
<1>6. Shape(d)
  BY <1>2, <1>3, <1>4, <1>5 DEF Shape, CpuFields, Same
<1>7. QED
  BY <1>2, <1>3, <1>4, <1>5, <1>6

LEMMA RecoverIs ==
    ASSUME NEW c, Shape(c), NEW d, d = recover(c)
    PROVE  /\ Shape(d)
           /\ ~c.exec.control_mispredict => d = c
           /\ c.exec.control_mispredict =>
                /\ d.fetch.valid = FALSE /\ d.decr.valid = FALSE /\ d.decode.valid = FALSE
                /\ d.fetch.block_addr = c.exec.recovery_block_addr
           /\ Same(c, d, CpuFields \ {"fetch", "decr", "decode"})
<1>1. CASE ~c.exec.control_mispredict
  BY <1>1 DEF recover, Same
<1>2. CASE c.exec.control_mispredict
  <2>1. PICK e : e = FlushFrontend(c)
    OBVIOUS
  <2>2. /\ Shape(e) /\ Same(c, e, CpuFields \ {"fetch", "decr", "decode"})
        /\ e.fetch.valid = FALSE /\ e.decr.valid = FALSE /\ e.decode.valid = FALSE
    BY <2>1, FlushIs
  <2>3. d = [e EXCEPT !.fetch = [e.fetch EXCEPT !.block_addr = c.exec.recovery_block_addr]]
    BY <1>2, <2>1 DEF recover
  <2>4. /\ d.fetch = [e.fetch EXCEPT !.block_addr = c.exec.recovery_block_addr]
        /\ Same(e, d, CpuFields \ {"fetch"}) /\ DOMAIN d = CpuFields
    BY <2>2, <2>3 DEF Shape, CpuFields, Same
  <2>5. FetchShape(d.fetch) /\ d.fetch.valid = FALSE
        /\ d.fetch.block_addr = c.exec.recovery_block_addr
    BY <2>4, <2>2 DEF Shape, FetchShape
  <2>6. d.decr.valid = FALSE /\ d.decode.valid = FALSE
    BY <2>4, <2>2 DEF Same, CpuFields
  <2>7. Shape(d) /\ Same(c, d, CpuFields \ {"fetch", "decr", "decode"})
    BY <2>2, <2>4, <2>5 DEF Shape, CpuFields, Same
  <2>8. QED
    BY <1>2, <2>5, <2>6, <2>7
<1>3. QED
  BY <1>1, <1>2
-----------------------------------------------------------------------------
(* The data memory.                                                          *)

LEMMA LockIs ==
    ASSUME NEW c, Shape(c), NEW d, d = lockSecurity(c)
    PROVE  Shape(d) /\ d.locked = TRUE /\ Same(c, d, CpuFields \ {"locked"})
  BY DEF Shape, Same, CpuFields, lockSecurity

\* DataOK looks at data and cache only.
LEMMA DataSame ==
    ASSUME NEW c, NEW d, DataOK(c), d.data = c.data, d.dcache = c.dcache
    PROVE  DataOK(d) /\ \A w \in DataWords : PlainWord(d, w) = PlainWord(c, w)
  BY DEF DataOK, PlainWord, dcache_hit

LEMMA CacheLine ==
    ASSUME NEW w \in Nat
    PROVE  /\ w % DCACHE_LINES \in 0 .. DCACHE_LINES - 1 /\ w \div DCACHE_LINES \in Nat
           /\ \A v \in Nat : v % DCACHE_LINES = w % DCACHE_LINES
                             /\ v \div DCACHE_LINES = w \div DCACHE_LINES => v = w
  BY Division, Parameters

LEMMA PlainWordType ==
    ASSUME NEW c, DataOK(c), NEW w \in DataWords
    PROVE  PlainWord(c, w) \in Words
<1>1. block_of(w) \in DataBlocks /\ slot_of(w) \in Slots
  BY DataRegion
<1>2. CASE encrypted
  <2>1. c.data[block_of(w)] \in [cipher : [Slots -> Words]]
    BY <1>1, <1>2 DEF DataOK
  <2>2. QED
    BY <1>1, <1>2, <2>1 DEF PlainWord
<1>3. CASE ~encrypted
  BY <1>1, <1>3 DEF DataOK, PlainWord
<1>4. QED
  BY <1>2, <1>3

\* A word of the data region put in its cache line.
LEMMA FillIs ==
    ASSUME NEW c, Shape(c), DOMAIN c.dcache = 0 .. DCACHE_LINES - 1, NEW w \in DataWords, NEW v,
           NEW d, d = dcache_fill(c, w, v)
    PROVE  /\ Shape(d) /\ Same(c, d, CpuFields \ {"dcache"})
           /\ DOMAIN d.dcache = 0 .. DCACHE_LINES - 1
           /\ d.dcache[w % DCACHE_LINES].data = v
           /\ \A x \in DataWords : x # w /\ dcache_hit(d, x) =>
                 dcache_hit(c, x) /\ d.dcache[x % DCACHE_LINES] = c.dcache[x % DCACHE_LINES]
<1> DEFINE line == [valid |-> TRUE, tag |-> w \div DCACHE_LINES, data |-> v]
<1>1. d = [c EXCEPT !.dcache = [c.dcache EXCEPT ![w % DCACHE_LINES] = line]]
  BY DEF dcache_fill
<1>2. line.tag = w \div DCACHE_LINES /\ line.data = v
  OBVIOUS
<1> HIDE DEF line
<1>3. d.dcache = [c.dcache EXCEPT ![w % DCACHE_LINES] = line]
      /\ Same(c, d, CpuFields \ {"dcache"}) /\ DOMAIN d = CpuFields
  BY <1>1 DEF Shape, CpuFields, Same
<1>4. Shape(d)
  BY <1>3 DEF Shape, CpuFields, Same
<1>5. w \in Nat /\ w % DCACHE_LINES \in 0 .. DCACHE_LINES - 1
  BY DataRegion, CacheLine
<1>6. DOMAIN d.dcache = 0 .. DCACHE_LINES - 1 /\ d.dcache[w % DCACHE_LINES] = line
  BY <1>3, <1>5
<1>7. ASSUME NEW x \in DataWords, x # w, dcache_hit(d, x)
      PROVE  dcache_hit(c, x) /\ d.dcache[x % DCACHE_LINES] = c.dcache[x % DCACHE_LINES]
  <2>1. x \in Nat /\ x % DCACHE_LINES \in 0 .. DCACHE_LINES - 1
    BY DataRegion, CacheLine
  <2>2. x % DCACHE_LINES # w % DCACHE_LINES
    <3>1. SUFFICES ASSUME x % DCACHE_LINES = w % DCACHE_LINES PROVE FALSE
      OBVIOUS
    <3>2. x \div DCACHE_LINES = w \div DCACHE_LINES
      BY <1>7, <3>1, <1>6, <1>2 DEF dcache_hit
    <3>3. QED
      BY <3>1, <3>2, <2>1, <1>5, <1>7, CacheLine
  <2>3. d.dcache[x % DCACHE_LINES] = c.dcache[x % DCACHE_LINES]
    BY <1>3, <2>1, <2>2
  <2>4. QED
    BY <2>3, <1>7 DEF dcache_hit
<1>8. QED
  BY <1>2, <1>3, <1>4, <1>6, <1>7

LEMMA LoadIs ==
    ASSUME NEW c, Shape(c), DataOK(c), NEW w \in Int, NEW l, l = load(c, w)
    PROVE  /\ Shape(l.cpu) /\ DataOK(l.cpu)
           /\ Same(c, l.cpu, CpuFields \ {"locked", "dcache"})
           /\ l.cpu.locked = IF w # NoWord /\ ~secure_is_data_word(w) THEN TRUE ELSE c.locked
           /\ l.val \in Words
           /\ w = NoWord => l.val = 0
           /\ secure_is_data_word(w) /\ w # NoWord => l.val = PlainWord(c, w)
<1>0. 0 \in Words
  BY Parameters DEF Words
<1>1. CASE w = NoWord
  <2>1. l = [cpu |-> c, val |-> 0]
    BY <1>1 DEF load
  <2>2. l.cpu = c /\ l.val = 0
    BY <2>1
  <2>3. QED
    BY <2>2, <1>1, <1>0 DEF Same
<1>2. CASE w # NoWord /\ ~secure_is_data_word(w)
  <2>1. l = [cpu |-> lockSecurity(c), val |-> 0]
    BY <1>2 DEF load
  <2>2. l.cpu = lockSecurity(c) /\ l.val = 0
    BY <2>1
  <2>3. Shape(l.cpu) /\ l.cpu.locked = TRUE /\ Same(c, l.cpu, CpuFields \ {"locked"})
    BY <2>2, LockIs
  <2>4. l.cpu.data = c.data /\ l.cpu.dcache = c.dcache
    BY <2>3 DEF Same, CpuFields
  <2>5. DataOK(l.cpu)
    BY <2>4, DataSame
  <2>6. Same(c, l.cpu, CpuFields \ {"locked", "dcache"})
    BY <2>3 DEF Same, CpuFields
  <2>7. QED
    BY <2>2, <2>3, <2>5, <2>6, <1>2, <1>0
<1>3. CASE w # NoWord /\ secure_is_data_word(w) /\ encrypted
  <2>1. l = [cpu |-> c, val |-> secure_read_encrypted_data_word(c, w)]
    BY <1>3 DEF load
  <2>2. l.cpu = c /\ l.val = PlainWord(c, w)
    BY <2>1, <1>3 DEF secure_read_encrypted_data_word, aes_decrypt_block, PlainWord
  <2>3. w \in DataWords
    BY <1>3, Parameters DEF secure_is_data_word, DataWords
  <2>4. QED
    BY <2>2, <2>3, <1>3, PlainWordType DEF Same
<1>4. CASE w # NoWord /\ secure_is_data_word(w) /\ ~encrypted
  <2>1. w \in DataWords
    BY <1>4, Parameters DEF secure_is_data_word, DataWords
  <2>2. PICK d : d = dcache_read(c, w)
    OBVIOUS
  <2>3. l = [cpu |-> d, val |-> d.dcache[w % DCACHE_LINES].data]
    BY <1>4, <2>2 DEF load
  <2>4. l.cpu = d /\ l.val = d.dcache[w % DCACHE_LINES].data
    BY <2>3
  <2>5. PlainWord(c, w) = c.data[block_of(w)][slot_of(w)] /\ PlainWord(c, w) \in Words
    BY <2>1, <1>4, PlainWordType DEF PlainWord
  <2>6. CASE dcache_hit(c, w)
    <3>1. d = c
      BY <2>2, <2>6 DEF dcache_read
    <3>2. l.val = PlainWord(c, w)
      BY <3>1, <2>1, <2>4, <2>5, <2>6, <1>4 DEF DataOK
    <3>3. QED
      BY <3>1, <3>2, <2>4, <2>5, <1>4 DEF Same
  <2>7. CASE ~dcache_hit(c, w)
    <3>0. PICK v : v = PlainWord(c, w)
      OBVIOUS
    <3>1. d = dcache_fill(c, w, v)
      BY <2>2, <2>5, <2>7, <3>0 DEF dcache_read
    <3>2. DOMAIN c.dcache = 0 .. DCACHE_LINES - 1
      BY <1>4 DEF DataOK
    <3>3. /\ Shape(d) /\ Same(c, d, CpuFields \ {"dcache"})
          /\ DOMAIN d.dcache = 0 .. DCACHE_LINES - 1
          /\ d.dcache[w % DCACHE_LINES].data = v
          /\ \A x \in DataWords : x # w /\ dcache_hit(d, x) =>
                dcache_hit(c, x) /\ d.dcache[x % DCACHE_LINES] = c.dcache[x % DCACHE_LINES]
      <4>1. Shape(d)
        BY <3>1, <3>2, <2>1, FillIs
      <4>2. Same(c, d, CpuFields \ {"dcache"})
        BY <3>1, <3>2, <2>1, FillIs
      <4>3. DOMAIN d.dcache = 0 .. DCACHE_LINES - 1
        BY <3>1, <3>2, <2>1, FillIs
      <4>4. d.dcache[w % DCACHE_LINES].data = v
        BY <3>1, <3>2, <2>1, FillIs
      <4>5. \A x \in DataWords : x # w /\ dcache_hit(d, x) =>
                dcache_hit(c, x) /\ d.dcache[x % DCACHE_LINES] = c.dcache[x % DCACHE_LINES]
        BY <3>1, <3>2, <2>1, FillIs
      <4>6. QED
        BY <4>1, <4>2, <4>3, <4>4, <4>5
    <3>4. d.data = c.data /\ d.locked = c.locked /\ Same(c, d, CpuFields \ {"locked", "dcache"})
      BY <3>3 DEF Same, CpuFields
    <3>5. DataOK(d)
      BY <3>0, <3>3, <3>4, <2>5, <1>4 DEF DataOK
    <3>6. QED
      BY <3>0, <3>3, <3>4, <3>5, <2>4, <2>5, <1>4
  <2>8. QED
    BY <2>6, <2>7
<1>5. QED
  BY <1>1, <1>2, <1>3, <1>4
\* Two data words are at different places.
LEMMA Places ==
    ASSUME NEW w \in DataWords, NEW x \in DataWords, block_of(x) = block_of(w), slot_of(x) = slot_of(w)
    PROVE  x = w
<1>1. w \in Nat /\ x \in Nat
  BY DataRegion
<1>2. w = block_of(w) * INSTRS_PER_BLOCK + slot_of(w)
  BY <1>1, BlockSlot
<1>3. x = block_of(x) * INSTRS_PER_BLOCK + slot_of(x)
  BY <1>1, BlockSlot
<1>4. QED
  BY <1>2, <1>3

LEMMA EncryptedStore ==
    ASSUME NEW c, Shape(c), DataOK(c), encrypted, NEW w \in DataWords, NEW v \in Words,
           NEW d, d = secure_write_encrypted_data_word(c, w, v)
    PROVE  /\ Shape(d) /\ DataOK(d) /\ Same(c, d, CpuFields \ {"data", "dcache"})
           /\ \A x \in DataWords : PlainWord(d, x) = IF x = w THEN v ELSE PlainWord(c, x)
<1>1. block_of(w) \in DataBlocks /\ slot_of(w) \in Slots
  BY DataRegion
<1>2. PICK nb : nb = [c.data[block_of(w)].cipher EXCEPT ![slot_of(w)] = v]
  OBVIOUS
<1>3. PICK nd : nd = [l \in 0 .. DCACHE_LINES - 1 |->
                 IF \E a \in DataWords : block_of(a) = block_of(w) /\ a % DCACHE_LINES = l /\ dcache_hit(c, a)
                 THEN [c.dcache[l] EXCEPT !.valid = FALSE] ELSE c.dcache[l]]
  OBVIOUS
<1>4. d = [c EXCEPT !.data = [c.data EXCEPT ![block_of(w)] = [cipher |-> nb]], !.dcache = nd]
  BY <1>2, <1>3 DEF secure_write_encrypted_data_word, aes_encrypt_block, aes_decrypt_block
<1>5. /\ d.data = [c.data EXCEPT ![block_of(w)] = [cipher |-> nb]]
      /\ Same(c, d, CpuFields \ {"data", "dcache"}) /\ DOMAIN d = CpuFields
  BY <1>4 DEF Shape, CpuFields, Same
<1>6. Shape(d)
  BY <1>5 DEF Shape, CpuFields, Same
<1>7. c.data \in [DataBlocks -> [cipher : [Slots -> Words]]]
  BY DEF DataOK
<1>8. c.data[block_of(w)] \in [cipher : [Slots -> Words]]
  BY <1>1, <1>7
<1>9. nb \in [Slots -> Words]
  BY <1>2, <1>8
<1>10. [cipher |-> nb] \in [cipher : [Slots -> Words]]
  BY <1>9
<1>11. d.data \in [DataBlocks -> [cipher : [Slots -> Words]]]
  BY <1>5, <1>7, <1>10
<1>12. DataOK(d)
  BY <1>11 DEF DataOK
<1>13. ASSUME NEW x \in DataWords
       PROVE  PlainWord(d, x) = IF x = w THEN v ELSE PlainWord(c, x)
  <2>1. block_of(x) \in DataBlocks /\ slot_of(x) \in Slots
    BY DataRegion
  <2>2. CASE block_of(x) = block_of(w)
    <3>1. d.data[block_of(x)] = [cipher |-> nb]
      BY <2>1, <2>2, <1>5, <1>7
    <3>2. PlainWord(d, x) = nb[slot_of(x)]
      BY <3>1 DEF PlainWord
    <3>3. CASE x = w
      BY <3>2, <3>3, <1>2, <1>8, <1>1
    <3>4. CASE x # w
      <4>1. slot_of(x) # slot_of(w)
        BY <3>4, <2>2, Places
      <4>2. nb[slot_of(x)] = c.data[block_of(w)].cipher[slot_of(x)]
        BY <4>1, <1>2, <1>8, <2>1
      <4>3. QED
        BY <4>2, <3>2, <3>4, <2>2 DEF PlainWord
    <3>5. QED
      BY <3>3, <3>4
  <2>3. CASE block_of(x) # block_of(w)
    <3>1. d.data[block_of(x)] = c.data[block_of(x)]
      BY <2>1, <2>3, <1>5, <1>7
    <3>2. QED
      BY <3>1, <2>3 DEF PlainWord
  <2>4. QED
    BY <2>2, <2>3
<1>14. QED
  BY <1>5, <1>6, <1>12, <1>13

LEMMA PlainStore ==
    ASSUME NEW c, Shape(c), DataOK(c), ~encrypted, NEW w \in DataWords, NEW v \in Words,
           NEW d, d = dcache_write(c, w, v)
    PROVE  Shape(d) /\ DataOK(d) /\ Same(c, d, CpuFields \ {"data", "dcache"})
<1>1. block_of(w) \in DataBlocks /\ slot_of(w) \in Slots
  BY DataRegion
<1>2. c.data \in [DataBlocks -> [Slots -> Words]] /\ DOMAIN c.dcache = 0 .. DCACHE_LINES - 1
  BY DEF DataOK
<1>3. PICK e : e = dcache_fill(c, w, v)
  OBVIOUS
<1>4. Shape(e) 
  BY <1>2, <1>3, FillIs
<1>5. Same(c, e, CpuFields \ {"dcache"})
  BY <1>2, <1>3, FillIs
<1>6. DOMAIN e.dcache = 0 .. DCACHE_LINES - 1 /\ e.dcache[w % DCACHE_LINES].data = v
  BY <1>2, <1>3, FillIs
<1>7. ASSUME NEW x \in DataWords, x # w, dcache_hit(e, x)
      PROVE  dcache_hit(c, x) /\ e.dcache[x % DCACHE_LINES] = c.dcache[x % DCACHE_LINES]
  BY <1>2, <1>3, <1>7, FillIs
<1>8. e.data = c.data
  BY <1>5 DEF Same, CpuFields
<1>9. PICK nb : nb = [c.data[block_of(w)] EXCEPT ![slot_of(w)] = v]
  OBVIOUS
<1>10. d = [e EXCEPT !.data = [c.data EXCEPT ![block_of(w)] = nb]]
  BY <1>3, <1>8, <1>9 DEF dcache_write
<1>11. /\ d.data = [c.data EXCEPT ![block_of(w)] = nb]
       /\ Same(e, d, CpuFields \ {"data"}) /\ DOMAIN d = CpuFields
  BY <1>10, <1>4 DEF Shape, CpuFields, Same
<1>12. Shape(d) /\ Same(c, d, CpuFields \ {"data", "dcache"}) /\ d.dcache = e.dcache
  BY <1>4, <1>5, <1>11 DEF Shape, CpuFields, Same
<1>13. c.data[block_of(w)] \in [Slots -> Words]
  BY <1>1, <1>2
<1>14. nb \in [Slots -> Words]
  BY <1>9, <1>13
<1>15. d.data \in [DataBlocks -> [Slots -> Words]]
  BY <1>2, <1>11, <1>14
<1>16. ASSUME NEW x \in DataWords, dcache_hit(d, x)
       PROVE  d.dcache[x % DCACHE_LINES].data = d.data[block_of(x)][slot_of(x)]
  <2>1. block_of(x) \in DataBlocks /\ slot_of(x) \in Slots
    BY DataRegion
  <2>2. CASE x = w
    <3>1. d.data[block_of(w)] = nb
      BY <1>1, <1>2, <1>11
    <3>2. nb[slot_of(w)] = v
      BY <1>1, <1>9, <1>13
    <3>3. QED
      BY <3>1, <3>2, <2>2, <1>6, <1>12
  <2>3. CASE x # w
    <3>1. dcache_hit(e, x)
      BY <1>16, <1>12 DEF dcache_hit
    <3>2. dcache_hit(c, x) /\ e.dcache[x % DCACHE_LINES] = c.dcache[x % DCACHE_LINES]
      BY <3>1, <2>3, <1>7
    <3>3. c.dcache[x % DCACHE_LINES].data = c.data[block_of(x)][slot_of(x)]
      BY <3>2 DEF DataOK
    <3>4. d.data[block_of(x)][slot_of(x)] = c.data[block_of(x)][slot_of(x)]
      <4>1. CASE block_of(x) = block_of(w)
        <5>1. slot_of(x) # slot_of(w)
          BY <4>1, <2>3, Places
        <5>2. d.data[block_of(x)] = nb
          BY <4>1, <1>1, <1>2, <1>11
        <5>3. QED
          BY <5>1, <5>2, <4>1, <1>9, <1>13, <2>1
      <4>2. CASE block_of(x) # block_of(w)
        BY <4>2, <2>1, <1>2, <1>11
      <4>3. QED
        BY <4>1, <4>2
    <3>5. QED
      BY <3>2, <3>3, <3>4, <1>12
  <2>4. QED
    BY <2>2, <2>3
<1>17. DataOK(d)
  BY <1>6, <1>12, <1>15, <1>16 DEF DataOK
<1>18. QED
  BY <1>12, <1>17
Front == {"fetch", "decr", "decode"}
FrontEmpty(c) == c.fetch.valid = FALSE /\ c.decr.valid = FALSE /\ c.decode.valid = FALSE

LEMMA StoreIs ==
    ASSUME NEW c, Shape(c), DataOK(c), encrypted \in BOOLEAN, NEW w \in Int,
           NEW v \in Words, v = c.exec.rt_forward_val, NEW d, d = store(c, w)
    PROVE  /\ Shape(d) /\ DataOK(d)
           /\ Same(c, d, CpuFields \ (Front \cup {"locked", "data", "dcache"}))
           /\ d.locked = IF w # NoWord /\ ~secure_is_data_word(w) THEN TRUE ELSE c.locked
           /\ d.fetch.block_addr = c.fetch.block_addr
           /\ Same(c, d, Front) \/ (~encrypted /\ FrontEmpty(d))
<1>1. CASE w = NoWord
  <2>1. d = c
    BY <1>1 DEF store
  <2>2. QED
    BY <2>1, <1>1 DEF Same
<1>2. CASE w # NoWord /\ ~secure_is_data_word(w)
  <2>1. d = lockSecurity(c)
    BY <1>2 DEF store
  <2>2. Shape(d) /\ d.locked = TRUE
    BY <2>1, LockIs
  <2>3. Same(c, d, CpuFields \ {"locked"})
    BY <2>1, LockIs
  <2>4. d.data = c.data /\ d.dcache = c.dcache /\ d.fetch = c.fetch
    BY <2>3 DEF Same, CpuFields
  <2>5. DataOK(d) 
    BY <2>4, DataSame
  <2>8. Same(c, d, Front) /\ Same(c, d, CpuFields \ (Front \cup {"locked", "data", "dcache"}))
    BY <2>3 DEF Same, CpuFields, Front
  <2>9. QED
    BY <2>2, <2>4, <2>5, <2>8, <1>2
<1>3. ASSUME w # NoWord /\ secure_is_data_word(w)
      PROVE  w \in DataWords /\ ~(w < SEC_HDR_WORDS \/ secure_is_text_word(w) \/ ~secure_is_data_word(w))
  BY <1>3, LayoutAssumption, Parameters DEF secure_is_data_word, secure_is_text_word, DataWords
<1>4. CASE w # NoWord /\ secure_is_data_word(w) /\ encrypted
  <2>1. d = secure_write_encrypted_data_word(c, w, v)
    BY <1>3, <1>4 DEF store
  <2>2. w \in DataWords
    BY <1>3, <1>4
  <2>3. Shape(d) /\ DataOK(d)
    BY <2>1, <2>2, <1>4, EncryptedStore
  <2>4. Same(c, d, CpuFields \ {"data", "dcache"})
    BY <2>1, <2>2, <1>4, EncryptedStore
  <2>6. /\ Same(c, d, Front) /\ Same(c, d, CpuFields \ (Front \cup {"locked", "data", "dcache"}))
        /\ d.locked = c.locked /\ d.fetch = c.fetch
    BY <2>4 DEF Same, CpuFields, Front
  <2>7. QED
    BY <2>3, <2>6, <1>4
<1>5. CASE w # NoWord /\ secure_is_data_word(w) /\ ~encrypted
  <2>1. PICK e : e = dcache_write(c, w, v)
    OBVIOUS
  <2>2. d = FlushFrontend(e)
    BY <1>3, <1>5, <2>1 DEF store
  <2>3. w \in DataWords
    BY <1>3, <1>5
  <2>4. Shape(e) /\ DataOK(e)
    BY <2>1, <2>3, <1>5, PlainStore
  <2>5. Same(c, e, CpuFields \ {"data", "dcache"})
    BY <2>1, <2>3, <1>5, PlainStore
  <2>6. Shape(d) /\ FrontEmpty(d) /\ d.fetch.block_addr = e.fetch.block_addr
    BY <2>2, <2>4, FlushIs DEF FrontEmpty
  <2>7. Same(e, d, CpuFields \ {"fetch", "decr", "decode"})
    BY <2>2, <2>4, FlushIs
  <2>8. d.data = e.data /\ d.dcache = e.dcache /\ e.fetch = c.fetch /\ d.locked = c.locked
    BY <2>5, <2>7 DEF Same, CpuFields
  <2>9. DataOK(d)
    BY <2>4, <2>8, DataSame
  <2>10. Same(c, d, CpuFields \ (Front \cup {"locked", "data", "dcache"}))
    BY <2>5, <2>7 DEF Same, CpuFields, Front
  <2>11. QED
    BY <2>6, <2>8, <2>9, <2>10, <1>5
<1>6. QED
  BY <1>1, <1>2, <1>4, <1>5

LEMMA StoreData ==
    ASSUME NEW c, Shape(c), DataOK(c), encrypted, NEW w \in Int,
           NEW v \in Words, v = c.exec.rt_forward_val, NEW d, d = store(c, w),
           NEW x \in DataWords
    PROVE  PlainWord(d, x) = IF x = w THEN v ELSE PlainWord(c, x)
<1>1. CASE w = NoWord
  BY <1>1, DataRegion DEF NoWord, store
<1>2. CASE w # NoWord /\ ~secure_is_data_word(w)
  <2>1. d = lockSecurity(c)
    BY <1>2 DEF store
  <2>2. d.data = c.data
    BY <2>1 DEF lockSecurity, Shape, CpuFields
  <2>3. x # w
    BY <1>2, Parameters DEF DataWords, secure_is_data_word
  <2>4. QED
    BY <2>2, <2>3 DEF PlainWord
<1>3. CASE w # NoWord /\ secure_is_data_word(w)
  <2>1. w \in DataWords /\ ~(w < SEC_HDR_WORDS \/ secure_is_text_word(w) \/ ~secure_is_data_word(w))
    BY <1>3, LayoutAssumption, Parameters DEF secure_is_data_word, secure_is_text_word, DataWords
  <2>2. d = secure_write_encrypted_data_word(c, w, v)
    BY <1>3, <2>1 DEF store
  <2>3. QED
    BY <2>1, <2>2, EncryptedStore
<1>4. QED
  BY <1>1, <1>2, <1>3

LEMMA Translated ==
    ASSUME NEW a \in Words
    PROVE  translateDataAddress(a) \in Int
<1>1. a \in Int /\ DataStart \in Int /\ kMarsDataBaseByte \in Int
  BY Parameters DEF Words
<1>2. (a - kMarsDataBaseByte) \div 4 \in Int /\ a \div 4 \in Int
  BY <1>1
<1>3. QED
  BY <1>1, <1>2 DEF translateDataAddress, NoWord
Accesses(i) == i.op \in {"LW", "SW"}

\* The word an instruction that passes the memory stage gives to its register.
Result(c) ==
    IF c.exec.instr.op # "LW" THEN c.exec.alu_result
    ELSE IF translateDataAddress(c.exec.alu_result) = NoWord THEN 0
    ELSE PlainWord(c, translateDataAddress(c.exec.alu_result))

\* It accesses a word outside the data region.
Violates(x) ==
    /\ Accesses(x.instr)
    /\ translateDataAddress(x.alu_result) # NoWord
    /\ ~secure_is_data_word(translateDataAddress(x.alu_result))

MemoryFacts(c, d) ==
    /\ d.exec.valid = FALSE
    /\ d.mem.valid = TRUE /\ d.mem.instr = c.exec.instr /\ d.mem.word_addr = c.exec.word_addr
    /\ ~Violates(c.exec) => d.mem.mem_read_val = Result(c)
    /\ d.locked = IF Violates(c.exec) THEN TRUE ELSE c.locked
    /\ Same(c, d, CpuFields \ (Front \cup {"exec", "mem", "locked", "data", "dcache"}))
    /\ d.fetch.block_addr = c.fetch.block_addr
    /\ Same(c, d, Front) \/ (c.exec.instr.op = "SW" /\ ~encrypted /\ FrontEmpty(d))
    /\ c.exec.instr.op # "SW" => \A x \in DataWords : PlainWord(d, x) = PlainWord(c, x)
    /\ c.exec.instr.op = "SW" /\ encrypted => \A x \in DataWords :
          PlainWord(d, x) = IF x = translateDataAddress(c.exec.alu_result)
                            THEN c.exec.rt_forward_val ELSE PlainWord(c, x)

LEMMA MemoryIs ==
    ASSUME NEW c, Shape(c), DataOK(c), encrypted \in BOOLEAN, Executed(c.exec),
           c.exec.valid, ~c.mem.valid, NEW d, d = stage_memory(c)
    PROVE  Shape(d) /\ DataOK(d) /\ Passed(d) /\ MemoryFacts(c, d)
<1>1. /\ c.exec.instr \in Instructions /\ c.exec.alu_result \in Words
      /\ c.exec.rt_forward_val \in Words
  BY DEF Executed
<1>0. PICK v \in Words : v = c.exec.rt_forward_val
  BY <1>1
<1>2. PICK i : i = c.exec.instr
  OBVIOUS
<1>3. PICK w \in Int : w = translateDataAddress(c.exec.alu_result)
  BY <1>1, Translated
<1>4. PICK l : l = load(c, w)
  OBVIOUS
<1>5. PICK e : e = IF i.op = "LW" THEN l.cpu ELSE IF i.op = "SW" THEN store(c, w) ELSE c
  OBVIOUS
<1>6. PICK m : m = [valid |-> TRUE, instr |-> i, alu_result |-> c.exec.alu_result,
                    mem_read_val |-> IF i.op = "LW" THEN l.val ELSE c.exec.alu_result,
                    word_addr |-> c.exec.word_addr]
  OBVIOUS
<1>7. d = [e EXCEPT !.mem = m, !.exec = [e.exec EXCEPT !.valid = FALSE]]
  <2>1. (CASE i.op = "LW" -> l.cpu [] i.op = "SW" -> store(c, w) [] OTHER -> c) = e
    BY <1>5
  <2>2. QED
    BY <2>1, <1>2, <1>3, <1>4, <1>6 DEF stage_memory
<1>8. /\ m.valid = TRUE /\ m.instr = i /\ m.alu_result = c.exec.alu_result
      /\ m.mem_read_val = IF i.op = "LW" THEN l.val ELSE c.exec.alu_result
      /\ m.word_addr = c.exec.word_addr /\ "valid" \in DOMAIN m
  BY <1>6
<1>9. /\ Shape(e) /\ DataOK(e)
      /\ Same(c, e, CpuFields \ (Front \cup {"locked", "data", "dcache"}))
      /\ e.locked = IF Violates(c.exec) THEN TRUE ELSE c.locked
      /\ e.fetch.block_addr = c.fetch.block_addr
      /\ Same(c, e, Front) \/ (i.op = "SW" /\ ~encrypted /\ FrontEmpty(e))
  <2>1. CASE i.op = "LW"
    <3>1. e = l.cpu
      BY <1>5, <2>1
    <3>2. Shape(e) /\ DataOK(e)
      BY <3>1, <1>4, LoadIs
    <3>3. Same(c, e, CpuFields \ {"locked", "dcache"})
      BY <3>1, <1>4, LoadIs
    <3>4. e.locked = IF w # NoWord /\ ~secure_is_data_word(w) THEN TRUE ELSE c.locked
      BY <3>1, <1>4, LoadIs
    <3>5. /\ Same(c, e, Front) /\ e.fetch = c.fetch
          /\ Same(c, e, CpuFields \ (Front \cup {"locked", "data", "dcache"}))
      BY <3>3 DEF Same, CpuFields, Front
    <3>6. QED
      BY <3>2, <3>4, <3>5, <1>2, <1>3, <2>1 DEF Violates, Accesses
  <2>2. CASE i.op = "SW"
    <3>1. e = store(c, w)
      BY <1>5, <2>2
    <3>2. Shape(e) /\ DataOK(e) /\ e.fetch.block_addr = c.fetch.block_addr
      BY <3>1, <1>0, StoreIs
    <3>3. Same(c, e, CpuFields \ (Front \cup {"locked", "data", "dcache"}))
      BY <3>1, <1>0, StoreIs
    <3>4. e.locked = IF w # NoWord /\ ~secure_is_data_word(w) THEN TRUE ELSE c.locked
      BY <3>1, <1>0, StoreIs
    <3>5. Same(c, e, Front) \/ (~encrypted /\ FrontEmpty(e))
      BY <3>1, <1>0, StoreIs
    <3>6. QED
      BY <3>2, <3>3, <3>4, <3>5, <1>2, <1>3, <2>2 DEF Violates, Accesses
  <2>3. CASE i.op \notin {"LW", "SW"}
    <3>1. e = c
      BY <1>5, <2>3
    <3>2. ~Violates(c.exec)
      BY <1>2, <2>3 DEF Violates, Accesses
    <3>3. QED
      BY <3>1, <3>2 DEF Same
  <2>4. QED
    BY <2>1, <2>2, <2>3
<1>10. /\ i.op # "SW" => \A x \in DataWords : PlainWord(e, x) = PlainWord(c, x)
       /\ i.op = "SW" /\ encrypted => \A x \in DataWords :
             PlainWord(e, x) = IF x = w THEN v ELSE PlainWord(c, x)
  <2>1. CASE i.op = "SW"
    <3>1. e = store(c, w)
      BY <1>5, <2>1
    <3>2. ASSUME encrypted, NEW x \in DataWords
          PROVE  PlainWord(e, x) = IF x = w THEN v ELSE PlainWord(c, x)
      BY <3>1, <3>2, <1>0, StoreData
    <3>3. QED
      BY <3>2, <2>1
  <2>2. CASE i.op = "LW"
    <3>1. e = l.cpu
      BY <1>5, <2>2
    <3>2. Same(c, e, CpuFields \ {"locked", "dcache"})
      BY <3>1, <1>4, LoadIs
    <3>3. e.data = c.data
      BY <3>2 DEF Same, CpuFields
    <3>4. QED
      BY <3>3, <2>2 DEF PlainWord
  <2>3. CASE i.op \notin {"LW", "SW"}
    BY <1>5, <2>3
  <2>4. QED
    BY <2>1, <2>2, <2>3
<1>11. m.mem_read_val \in Words
       /\ (~Violates(c.exec) => m.mem_read_val = Result(c))
  <2>1. CASE i.op = "LW"
    <3>1. m.mem_read_val = l.val
      BY <1>8, <2>1
    <3>2. l.val \in Words /\ (w = NoWord => l.val = 0)
          /\ (secure_is_data_word(w) /\ w # NoWord => l.val = PlainWord(c, w))
      BY <1>4, LoadIs
    <3>3. QED
      BY <3>1, <3>2, <1>2, <1>3, <2>1 DEF Result, Violates, Accesses
  <2>2. CASE i.op # "LW"
    BY <1>1, <1>2, <1>8, <2>2 DEF Result
  <2>3. QED
    BY <2>1, <2>2
<1>12. /\ d.mem = m /\ d.exec = [e.exec EXCEPT !.valid = FALSE]
       /\ Same(e, d, CpuFields \ {"exec", "mem"}) /\ DOMAIN d = CpuFields
  BY <1>7, <1>9 DEF Shape, CpuFields, Same
<1>13. StageShape(d.exec) /\ d.exec.valid = FALSE
  BY <1>12, <1>9 DEF Shape, StageShape
<1>14. StageShape(d.mem)
  BY <1>12, <1>8 DEF StageShape
<1>15. Shape(d)
  BY <1>9, <1>12, <1>13, <1>14 DEF Shape, Same, CpuFields
<1>16. d.data = e.data /\ d.dcache = e.dcache /\ d.locked = e.locked /\ Same(e, d, Front)
       /\ d.fetch = e.fetch
  BY <1>12 DEF Same, CpuFields, Front
<1>17. DataOK(d)
  BY <1>9, <1>16, DataSame
<1>18. \A x \in DataWords : PlainWord(d, x) = PlainWord(e, x)
  BY <1>16 DEF PlainWord
<1>19. Passed(d)
  BY <1>1, <1>2, <1>8, <1>11, <1>12 DEF Passed
<1>20. Same(c, d, CpuFields \ (Front \cup {"exec", "mem", "locked", "data", "dcache"}))
  BY <1>9, <1>12 DEF Same, CpuFields, Front
<1>21. Same(c, d, Front) \/ (i.op = "SW" /\ ~encrypted /\ FrontEmpty(d))
  <2>1. CASE Same(c, e, Front)
    BY <2>1, <1>16 DEF Same, Front
  <2>2. CASE i.op = "SW" /\ ~encrypted /\ FrontEmpty(e)
    BY <2>2, <1>16 DEF Same, Front, FrontEmpty
  <2>3. QED
    BY <2>1, <2>2, <1>9
<1>22. c.exec.instr.op # "SW" => \A x \in DataWords : PlainWord(d, x) = PlainWord(c, x)
  BY <1>2, <1>10, <1>18
<1>23. c.exec.instr.op = "SW" /\ encrypted => \A x \in DataWords :
                 PlainWord(d, x) = IF x = translateDataAddress(c.exec.alu_result)
                                   THEN c.exec.rt_forward_val ELSE PlainWord(c, x)
  BY <1>0, <1>2, <1>3, <1>10, <1>18
<1>24. d.locked = IF Violates(c.exec) THEN TRUE ELSE c.locked
  BY <1>9, <1>16
<1>25. d.fetch.block_addr = c.fetch.block_addr
  BY <1>9, <1>16
<1>26. QED
  BY <1>2, <1>8, <1>11, <1>12, <1>13, <1>15, <1>17, <1>19, <1>20, <1>21, <1>22, <1>23, <1>24, <1>25
  DEF MemoryFacts
-----------------------------------------------------------------------------
(* The execute stage.                                                        *)

LEMMA Remainder ==
    ASSUME NEW n \in Nat, n > 0, NEW a \in Int
    PROVE  a % n \in 0 .. n - 1 /\ a \div n \in Int
  OBVIOUS

LEMMA AluType ==
    ASSUME NEW i \in Instructions, NEW a \in Words, NEW b \in Words, NEW k, CoproShape(k)
    PROVE  alu(i, a, b, k) \in Words
<1>1. i.imm \in Int /\ a \in Int /\ b \in Int /\ k.rs \in Words /\ WordMod \in Nat /\ WordMod > 0
  BY Parameters DEF Instructions, Words, CoproShape
<1>2. PICK t : t = [rs |-> a, rt |-> b]
  OBVIOUS
<1>3. t.rs = a /\ t.rt = b
  BY <1>2
<1>4. /\ (a + b) % WordMod \in Words /\ (2 * b) % WordMod \in Words
      /\ aes_word(t) \in Words
      /\ (a + i.imm) % WordMod \in Words /\ i.imm % WordMod \in Words /\ 0 \in Words
  BY <1>1, <1>3, Remainder DEF Words, aes_word
<1>5. QED
  BY <1>1, <1>2, <1>4 DEF alu

LEMMA TargetType ==
    ASSUME NEW i \in Instructions, NEW w \in Nat
    PROVE  /\ jump_target(i) \in Int /\ branch_target(w, i) \in Int
           /\ target_block(i, w) \in Int /\ block_of(w + 1) \in Int
<1>1. i.imm \in Int
  BY DEF Instructions
<1>2. jump_target(i) \in Int /\ branch_target(w, i) \in Int
  BY <1>1, Parameters DEF jump_target, branch_target
<1>3. QED
  BY <1>2, Remainder, Parameters DEF target_block, block_of

\* A value on its way to the register file is forwarded.
Forwardable(c) == Passed(c) /\ (c.wb.valid => c.wb.final_val \in Words)

LEMMA ForwardedType ==
    ASSUME NEW c, Forwardable(c), NEW r, NEW v \in Words
    PROVE  forwarded(c, r, v) \in Words
  BY DEF Forwardable, Passed, forwarded

LEMMA Forwarding ==
    ASSUME NEW c, Shape(c), Passed(c), NEW d, Passed(d),
           d.wb.valid = c.mem.valid,
           c.mem.valid => d.wb.instr = c.mem.instr /\ d.wb.final_val = final_val(c.mem),
           d.reg_file = WrittenRegs(c), d.reg_file \in [Regs -> Words],
           NEW r \in Regs
    PROVE  forwarded(d, r, c.reg_file[r]) = WrittenRegs(d)[r]
<1>1. c.reg_file \in [Regs -> Words]
  BY DEF Shape
<1>2. ASSUME d.mem.valid, isWriteInstruction(d.mem.instr), getDestReg(d.mem.instr) = r, r # 0
      PROVE  WrittenRegs(d)[r] = d.mem.mem_read_val
  BY <1>2 DEF WrittenRegs
<1>3. ASSUME ~(d.mem.valid /\ isWriteInstruction(d.mem.instr) /\ getDestReg(d.mem.instr) = r /\ r # 0)
      PROVE  WrittenRegs(d)[r] = d.reg_file[r]
  <2>1. CASE ~d.mem.valid
    BY <2>1 DEF WrittenRegs
  <2>2. CASE d.mem.valid
    <3>1. d.mem.instr \in Instructions
      BY <2>2 DEF Passed
    <3>2. getDestReg(d.mem.instr) # 0 => isWriteInstruction(d.mem.instr) /\ getDestReg(d.mem.instr) \in Regs
      BY <3>1, Destination
    <3>3. getDestReg(d.mem.instr) # r \/ getDestReg(d.mem.instr) = 0
      BY <3>2, <2>2, <1>3
    <3>4. QED
      BY <3>2, <3>3 DEF WrittenRegs
  <2>3. QED
    BY <2>1, <2>2
<1>4. ASSUME c.mem.valid, isWriteInstruction(c.mem.instr), getDestReg(c.mem.instr) = r, r # 0
      PROVE  d.reg_file[r] = final_val(c.mem)
  <2>1. final_val(c.mem) = c.mem.mem_read_val
    BY <1>4, FinalValue
  <2>2. QED
    BY <2>1, <1>1, <1>4 DEF WrittenRegs
<1>5. ASSUME ~(c.mem.valid /\ isWriteInstruction(c.mem.instr) /\ getDestReg(c.mem.instr) = r /\ r # 0)
      PROVE  d.reg_file[r] = c.reg_file[r]
  <2>1. CASE ~c.mem.valid
    BY <2>1 DEF WrittenRegs
  <2>2. CASE c.mem.valid
    <3>1. c.mem.instr \in Instructions
      BY <2>2 DEF Passed
    <3>2. getDestReg(c.mem.instr) # 0 => isWriteInstruction(c.mem.instr) /\ getDestReg(c.mem.instr) \in Regs
      BY <3>1, Destination
    <3>3. getDestReg(c.mem.instr) # r \/ getDestReg(c.mem.instr) = 0
      BY <3>2, <2>2, <1>5
    <3>4. QED
      BY <3>2, <3>3, <1>1 DEF WrittenRegs
  <2>3. QED
    BY <2>1, <2>2
<1>6. CASE d.mem.valid /\ isWriteInstruction(d.mem.instr) /\ getDestReg(d.mem.instr) = r /\ r # 0
  BY <1>2, <1>6 DEF forwarded
<1>7. CASE /\ ~(d.mem.valid /\ isWriteInstruction(d.mem.instr) /\ getDestReg(d.mem.instr) = r /\ r # 0)
           /\ d.wb.valid /\ isWriteInstruction(d.wb.instr) /\ getDestReg(d.wb.instr) = r /\ r # 0
  <2>1. forwarded(d, r, c.reg_file[r]) = d.wb.final_val
    BY <1>7 DEF forwarded
  <2>2. c.mem.valid /\ d.wb.instr = c.mem.instr /\ d.wb.final_val = final_val(c.mem)
    BY <1>7
  <2>3. QED
    BY <2>1, <2>2, <1>3, <1>4, <1>7
<1>8. CASE /\ ~(d.mem.valid /\ isWriteInstruction(d.mem.instr) /\ getDestReg(d.mem.instr) = r /\ r # 0)
           /\ ~(d.wb.valid /\ isWriteInstruction(d.wb.instr) /\ getDestReg(d.wb.instr) = r /\ r # 0)
  <2>1. forwarded(d, r, c.reg_file[r]) = c.reg_file[r]
    BY <1>8 DEF forwarded
  <2>2. ~(c.mem.valid /\ isWriteInstruction(c.mem.instr) /\ getDestReg(c.mem.instr) = r /\ r # 0)
    BY <1>8
  <2>3. QED
    BY <2>1, <2>2, <1>3, <1>5, <1>8
<1>9. QED
  BY <1>6, <1>7, <1>8
ActualBlock(x, a, b) ==
    IF branch_taken(x.instr, a, b) THEN target_block(x.instr, x.word_addr) ELSE block_of(x.word_addr + 1)
PredictedBlock(x) ==
    IF x.instr.op = "J" THEN target_block(x.instr, x.word_addr) ELSE block_of(x.word_addr + 1)

\* What the execute stage makes of a decoded instruction x with operands a and b.
ExecutesTo(y, x, a, b, k) ==
    /\ y.valid = TRUE
    /\ y.instr = x.instr /\ y.word_addr = x.word_addr
    /\ y.alu_result = alu(x.instr, a, b, k) /\ y.rt_forward_val = b
    /\ y.taken_branch = branch_taken(x.instr, a, b)
    /\ y.control_mispredict = (isControlInstruction(x.instr) /\ ActualBlock(x, a, b) # PredictedBlock(x))
    /\ y.recovery_block_addr = ActualBlock(x, a, b)
    /\ y.copro_before = k

RsVal(c) == forwarded(c, c.decode.rs_idx, c.decode.rs_val)
RtVal(c) == forwarded(c, c.decode.rt_idx, c.decode.rt_val)

LEMMA ExecuteIs ==
    ASSUME NEW c, Shape(c), ~c.exec.valid, c.decode.valid, Decoded(c.decode),
           RsVal(c) \in Words, RtVal(c) \in Words,
           NEW d, d = stage_execute(c)
    PROVE  /\ Shape(d)
           /\ Executed(d.exec)
           /\ ExecutesTo(d.exec, c.decode, RsVal(c), RtVal(c), c.copro)
           /\ d.copro = IF c.decode.instr.op = "AESENC" THEN [rs |-> RsVal(c), rt |-> RtVal(c)] ELSE c.copro
           /\ d.decode.valid = FALSE
           /\ Same(c, d, CpuFields \ {"exec", "copro", "decode"})
<1> DEFINE x == c.decode
           a == forwarded(c, x.rs_idx, x.rs_val)
           b == forwarded(c, x.rt_idx, x.rt_val)
           br == branch_taken(x.instr, a, b)
           ab == IF br THEN target_block(x.instr, x.word_addr) ELSE x.fallthrough_block_addr
           pb == IF x.predicted_taken THEN x.predicted_block_addr ELSE x.fallthrough_block_addr
           mp == isControlInstruction(x.instr) /\ ab # pb
           y == [valid |-> TRUE, instr |-> x.instr, word_addr |-> x.word_addr,
                 alu_result |-> alu(x.instr, a, b, c.copro), rt_forward_val |-> b,
                 taken_branch |-> br, control_mispredict |-> mp, recovery_block_addr |-> ab,
                 copro_before |-> c.copro]
           k == IF x.instr.op = "AESENC" THEN [rs |-> a, rt |-> b] ELSE c.copro
<1>1. d = [c EXCEPT !.exec = y, !.copro = k, !.decode = [c.decode EXCEPT !.valid = FALSE]]
  BY DEF stage_execute
<1>2. /\ x.word_addr \in TextWords /\ x.instr = InstructionAt(x.word_addr)
      /\ x.instr \in Instructions
      /\ x.predicted_taken = (x.instr.op = "J")
      /\ x.instr.op = "J" => x.predicted_block_addr = target_block(x.instr, x.word_addr)
      /\ x.fallthrough_block_addr = block_of(x.word_addr + 1)
  BY DEF Decoded
<1>3. x.word_addr \in Nat
  BY <1>2, Parameters DEF TextWords
<1>4. a = RsVal(c) /\ b = RtVal(c)
  BY DEF RsVal, RtVal
<1> HIDE DEF a, b
<1>5. ab = ActualBlock(x, a, b) /\ pb = PredictedBlock(x)
  BY <1>2 DEF ActualBlock, PredictedBlock
<1>6. ab \in Int
  BY <1>2, <1>3, TargetType
<1> HIDE DEF ab, pb, br
<1>7. /\ y.valid = TRUE /\ y.instr = x.instr /\ y.word_addr = x.word_addr
      /\ y.alu_result = alu(x.instr, a, b, c.copro) /\ y.rt_forward_val = b
      /\ y.recovery_block_addr = ab
      /\ y.copro_before = c.copro
      /\ "valid" \in DOMAIN y
  OBVIOUS
<1>8. y.taken_branch = br
  OBVIOUS
<1>9. y.control_mispredict = mp
  OBVIOUS
<1>10. CoproShape(c.copro) /\ CoproShape(k)
  BY <1>4 DEF Shape, CoproShape
<1> HIDE DEF y, k
<1>11. /\ d.exec = y /\ d.copro = k /\ d.decode = [c.decode EXCEPT !.valid = FALSE]
       /\ Same(c, d, CpuFields \ {"exec", "copro", "decode"}) /\ DOMAIN d = CpuFields
  BY <1>1 DEF Shape, CpuFields, Same
<1>13. StageShape(d.exec)
  BY <1>7, <1>11 DEF StageShape
<1>14. StageShape(d.decode) /\ d.decode.valid = FALSE
  BY <1>11 DEF StageShape, Shape
<1>15. Shape(d)
  BY <1>10, <1>11, <1>13, <1>14 DEF Shape, Same, CpuFields
<1>17. Executed(d.exec)
  <2>1. y.alu_result \in Words
    BY <1>2, <1>4, <1>7, <1>10, AluType
  <2>2. QED
    BY <2>1, <1>2, <1>4, <1>6, <1>7, <1>10, <1>11 DEF Executed
<1>18. ExecutesTo(d.exec, c.decode, a, b, c.copro)
  BY <1>5, <1>7, <1>8, <1>9, <1>11 DEF ExecutesTo, br
<1>19. d.copro = IF c.decode.instr.op = "AESENC" THEN [rs |-> a, rt |-> b] ELSE c.copro
  BY <1>11 DEF k
<1>20. QED
  BY <1>4, <1>11, <1>14, <1>15, <1>17, <1>18, <1>19

LEMMA ExecuteIdle ==
    ASSUME NEW c, ~c.decode.valid
    PROVE  stage_execute(c) = c
  BY DEF stage_execute

-----------------------------------------------------------------------------
(* The front end.                                                            *)

LEMMA TextWord ==
    ASSUME NEW b \in TextBlocks, NEW s \in Slots
    PROVE  /\ b \in Nat /\ b * INSTRS_PER_BLOCK + s \in TextWords
           /\ block_of(b * INSTRS_PER_BLOCK + s) = b /\ slot_of(b * INSTRS_PER_BLOCK + s) = s
<1>1. b \in Nat
  BY TextAligned DEF TextBlocks
<1>2. /\ b * INSTRS_PER_BLOCK + s \in Nat
      /\ block_of(b * INSTRS_PER_BLOCK + s) = b /\ slot_of(b * INSTRS_PER_BLOCK + s) = s
  BY <1>1, WordOf
<1>3. TextStart % INSTRS_PER_BLOCK = 0 /\ TextEnd % INSTRS_PER_BLOCK = 0
  BY LayoutAssumption
<1>4. b * INSTRS_PER_BLOCK + s \in TextStart .. TextEnd - 1
  BY <1>2, <1>3, Region, Parameters DEF TextBlocks
<1>5. QED
  BY <1>1, <1>2, <1>4 DEF TextWords

ProgramOK == program \in [TextBlocks -> [Slots -> Instructions]]

\* Where the front end goes on behind the decode stage.
Behind(c) ==
    IF c.decr.valid THEN c.decr.block_addr * INSTRS_PER_BLOCK + c.decr.instr_index
    ELSE c.fetch.block_addr * INSTRS_PER_BLOCK

LEMMA DecodeStalls ==
    ASSUME NEW c, ~c.decode.valid, must_stall(c)
    PROVE  stage_decode(c) = c
  BY DEF stage_decode

LEMMA DecodeIs ==
    ASSUME NEW c, Shape(c), ProgramOK, ~c.decode.valid, c.decr.valid, Decrypted(c.decr),
           Fetched(c.fetch), c.fetch.block_addr = c.decr.block_addr + 1, ~must_stall(c),
           NEW d, d = stage_decode(c)
    PROVE  /\ Shape(d) /\ Decrypted(d.decr) /\ Fetched(d.fetch)
           /\ d.decode.valid = TRUE /\ Decoded(d.decode)
           /\ d.decr.valid => d.fetch.block_addr = d.decr.block_addr + 1
           /\ d.decode.word_addr = Behind(c)
           /\ d.decode.rs_val = c.reg_file[source_rs(d.decode.instr)]
           /\ d.decode.rt_val = c.reg_file[source_rt(d.decode.instr)]
           /\ Behind(d) = IF d.decode.instr.op = "J"
                          THEN target_block(d.decode.instr, d.decode.word_addr) * INSTRS_PER_BLOCK
                          ELSE d.decode.word_addr + 1
           /\ d.fetch.block_addr = IF d.decode.instr.op = "J"
                                   THEN target_block(d.decode.instr, d.decode.word_addr)
                                   ELSE c.fetch.block_addr
           /\ Same(c, d, CpuFields \ Front)
<1> DEFINE b == c.decr.block_addr
           s == c.decr.instr_index
           w == b * INSTRS_PER_BLOCK + s
           i == c.decr.decr_block[s]
           j == i.op = "J"
           left == s + 1 < INSTRS_PER_BLOCK
           tb == target_block(i, w)
           pb == IF j THEN tb ELSE block_of(w + 1)
           x == [valid |-> TRUE, instr |-> i, word_addr |-> w,
                 rs_val |-> c.reg_file[source_rs(i)], rt_val |-> c.reg_file[source_rt(i)],
                 rs_idx |-> source_rs(i), rt_idx |-> source_rt(i),
                 predicted_taken |-> j, predicted_block_addr |-> pb,
                 fallthrough_block_addr |-> block_of(w + 1)]
           nd == [c.decr EXCEPT !.instr_index = s + 1, !.valid = ~j /\ left]
           nf == [c.fetch EXCEPT !.valid = c.fetch.valid /\ ~j,
                                 !.block_addr = IF j THEN pb ELSE c.fetch.block_addr]
<1>2. b \in TextBlocks /\ s \in Slots /\ c.decr.decr_block = program[b]
  BY DEF Decrypted
<1>4. b \in Nat /\ w \in TextWords /\ block_of(w) = b /\ slot_of(w) = s
  BY <1>2, TextWord
<1>6. i \in Instructions /\ i = InstructionAt(w)
  BY <1>2, <1>4 DEF ProgramOK, InstructionAt
<1>7. w \in Nat /\ s \in Nat /\ INSTRS_PER_BLOCK \in Nat
  BY <1>2, <1>4, Parameters DEF TextWords, Slots
<1>8. tb \in Int
  BY <1>6, <1>7, TargetType
<1>10. left => s + 1 \in Slots
  BY <1>2, <1>7 DEF Slots
<1>11. ~left => s + 1 = INSTRS_PER_BLOCK
  BY <1>2, <1>7 DEF Slots
<1>12. w = b * INSTRS_PER_BLOCK + s
  OBVIOUS
<1>15. d = [c EXCEPT !.decode = x, !.decr = nd, !.fetch = nf]
  <2>1. d = [c EXCEPT !.decode = x, !.decr.instr_index = @ + 1, !.decr.valid = ~j /\ block_left(c),
                      !.fetch.valid = @ /\ ~j, !.fetch.block_addr = IF j THEN pb ELSE @]
    BY DEF stage_decode
  <2> HIDE DEF x, pb, j
  <2>2. QED
    BY <2>1 DEF block_left, Shape, CpuFields, FetchShape, DecrShape
<1>27. Behind(c) = w
  BY DEF Behind
<1> HIDE DEF i, w, tb, left
<1>16. /\ d.decode = x /\ d.decr = nd /\ d.fetch = nf
       /\ Same(c, d, CpuFields \ Front) /\ DOMAIN d = CpuFields
  BY <1>15 DEF Shape, CpuFields, Same, Front
<1>17. /\ x.valid = TRUE /\ x.instr = i /\ x.word_addr = w
       /\ x.rs_val = c.reg_file[source_rs(i)] /\ x.rt_val = c.reg_file[source_rt(i)]
       /\ x.rs_idx = source_rs(i) /\ x.rt_idx = source_rt(i)
       /\ x.predicted_taken = j /\ x.predicted_block_addr = pb
       /\ x.fallthrough_block_addr = block_of(w + 1)
       /\ "valid" \in DOMAIN x
  OBVIOUS
<1>18. /\ DecrShape(nd) /\ nd.valid = (~j /\ left) /\ nd.instr_index = s + 1
       /\ nd.block_addr = b /\ nd.decr_block = program[b]
  BY <1>2 DEF Shape, DecrShape
<1>19. /\ FetchShape(nf) /\ nf.valid = (c.fetch.valid /\ ~j)
       /\ nf.block_addr = (IF j THEN tb ELSE b + 1) /\ nf.block_data = c.fetch.block_data
  BY DEF Shape, FetchShape
<1> HIDE DEF x, nd, nf
<1>20. StageShape(x)
  BY <1>17 DEF StageShape
<1>21. Shape(d)
  BY <1>16, <1>18, <1>19, <1>20 DEF Shape, Same, CpuFields, Front
<1>22. c.reg_file[source_rs(i)] \in Words /\ c.reg_file[source_rt(i)] \in Words
  BY <1>6, Destination DEF Shape
<1>23. Decoded(x)
  BY <1>4, <1>6, <1>17, <1>22 DEF Decoded, tb
<1>24. Decrypted(nd)
  BY <1>2, <1>10, <1>18 DEF Decrypted
<1>25. Fetched(nf)
  BY <1>4, <1>8, <1>19 DEF Fetched
<1>26. nd.valid => nf.block_addr = nd.block_addr + 1
  BY <1>18, <1>19
<1>28. Behind(d) = IF i.op = "J" THEN tb * INSTRS_PER_BLOCK ELSE w + 1
  <2>1. CASE j
    BY <2>1, <1>16, <1>18, <1>19 DEF Behind
  <2>2. CASE ~j /\ left
    <3>1. Behind(d) = b * INSTRS_PER_BLOCK + (s + 1)
      BY <2>2, <1>16, <1>18 DEF Behind
    <3>2. QED
      BY <3>1, <2>2, <1>12, <1>4, <1>7
  <2>3. CASE ~j /\ ~left
    <3>1. Behind(d) = (b + 1) * INSTRS_PER_BLOCK
      BY <2>3, <1>16, <1>18, <1>19 DEF Behind
    <3>2. s + 1 = INSTRS_PER_BLOCK
      BY <2>3, <1>11
    <3>3. QED
      BY <3>1, <3>2, <2>3, <1>12, <1>4, <1>7
  <2>4. QED
    BY <2>1, <2>2, <2>3
<1>29. d.fetch.block_addr = IF i.op = "J" THEN tb ELSE c.fetch.block_addr
  BY <1>16, <1>19
<1>30. QED
  BY <1>16, <1>17, <1>21, <1>23, <1>24, <1>25, <1>26, <1>27, <1>28, <1>29 DEF tb
LEMMA DecryptIs ==
    ASSUME NEW c, Shape(c), ~c.decr.valid, c.fetch.valid, Fetched(c.fetch),
           NEW d, d = stage_decrypt(c)
    PROVE  /\ Shape(d) /\ Decrypted(d.decr) /\ Fetched(d.fetch)
           /\ d.decr.valid = TRUE /\ d.fetch.valid = FALSE
           /\ d.fetch.block_addr = d.decr.block_addr + 1
           /\ Behind(d) = Behind(c)
           /\ Same(c, d, CpuFields \ {"fetch", "decr"})
<1> DEFINE b == c.fetch.block_addr
           nd == [valid |-> TRUE, block_addr |-> b, instr_index |-> 0,
                  decr_block |-> aes_decrypt_block(c.fetch.block_data)]
           nf == [c.fetch EXCEPT !.valid = FALSE, !.block_addr = b + 1]
<1>1. b \in TextBlocks /\ b \in Int /\ aes_decrypt_block(c.fetch.block_data) = program[b]
  BY DEF Fetched, aes_encrypt_block, aes_decrypt_block
<1>2. d = [c EXCEPT !.decr = nd, !.fetch = nf]
  <2>1. d = [c EXCEPT !.decr = nd, !.fetch.valid = FALSE, !.fetch.block_addr = @ + 1]
    BY DEF stage_decrypt
  <2> HIDE DEF nd
  <2>2. QED
    BY <2>1 DEF Shape, CpuFields, FetchShape
<1>3. /\ nd.valid = TRUE /\ nd.block_addr = b /\ nd.instr_index = 0 /\ nd.decr_block = program[b]
      /\ DOMAIN nd = {"valid", "block_addr", "decr_block", "instr_index"}
  BY <1>1
<1>4. nf.valid = FALSE /\ nf.block_addr = b + 1 /\ FetchShape(nf)
  BY DEF Shape, FetchShape
<1> HIDE DEF nd, nf
<1>5. /\ d.decr = nd /\ d.fetch = nf
      /\ Same(c, d, CpuFields \ {"fetch", "decr"}) /\ DOMAIN d = CpuFields
  BY <1>2 DEF Shape, CpuFields, Same
<1>6. DecrShape(nd)
  BY <1>3 DEF DecrShape
<1>7. Shape(d)
  BY <1>4, <1>5, <1>6 DEF Shape, CpuFields, Same
<1>8. 0 \in Slots /\ INSTRS_PER_BLOCK \in Nat
  BY Parameters DEF Slots
<1>9. Decrypted(nd)
  BY <1>1, <1>3, <1>8 DEF Decrypted
<1>10. Fetched(nf)
  BY <1>1, <1>4 DEF Fetched
<1>11. Behind(d) = Behind(c)
  <2>1. Behind(d) = b * INSTRS_PER_BLOCK + 0
    BY <1>3, <1>5 DEF Behind
  <2>2. Behind(c) = b * INSTRS_PER_BLOCK
    BY DEF Behind
  <2>3. QED
    BY <2>1, <2>2, <1>1, <1>8
<1>12. QED
  BY <1>3, <1>4, <1>5, <1>7, <1>9, <1>10, <1>11

LEMMA StoredText ==
    ASSUME NEW b \in TextBlocks
    PROVE  stored_text(secure_map_text_block(b)) = aes_encrypt_block(program[b])
<1>1. (CHOOSE a \in TextBlocks : secure_map_text_block(a) = secure_map_text_block(b)) = b
  BY PipelineAssumption
<1>2. QED
  BY <1>1 DEF stored_text

LEMMA InstructionLine ==
    ASSUME NEW w \in Nat
    PROVE  /\ w % ICACHE_LINES \in 0 .. ICACHE_LINES - 1
           /\ \A v \in Nat : v % ICACHE_LINES = w % ICACHE_LINES
                             /\ v \div ICACHE_LINES = w \div ICACHE_LINES => v = w
  BY Division, Parameters

LEMMA ICacheIs ==
    ASSUME NEW c, Shape(c), ICacheOK(c.icache), NEW b \in TextBlocks,
           NEW d, d = icache_read_block(c, b)
    PROVE  /\ Shape(d) /\ ICacheOK(d.icache) /\ Same(c, d, CpuFields \ {"icache"})
           /\ d.icache[b % ICACHE_LINES].data = aes_encrypt_block(program[b])
<1>1. CASE icache_hit(c, b)
  BY <1>1 DEF icache_read_block, icache_hit, ICacheOK, Same
<1>2. CASE ~icache_hit(c, b)
  <2> DEFINE line == [valid |-> TRUE, tag |-> b \div ICACHE_LINES,
                      data |-> stored_text(secure_map_text_block(b))]
  <2>1. d = [c EXCEPT !.icache = [c.icache EXCEPT ![b % ICACHE_LINES] = line]]
    BY <1>2 DEF icache_read_block
  <2>2. line.tag = b \div ICACHE_LINES /\ line.data = aes_encrypt_block(program[b])
    BY StoredText
  <2> HIDE DEF line
  <2>3. /\ d.icache = [c.icache EXCEPT ![b % ICACHE_LINES] = line]
        /\ Same(c, d, CpuFields \ {"icache"}) /\ DOMAIN d = CpuFields
    BY <2>1 DEF Shape, CpuFields, Same
  <2>4. Shape(d)
    BY <2>3 DEF Shape, CpuFields, Same
  <2>5. b \in Nat /\ b % ICACHE_LINES \in 0 .. ICACHE_LINES - 1
    BY TextAligned, InstructionLine DEF TextBlocks
  <2>6. DOMAIN c.icache = 0 .. ICACHE_LINES - 1
    BY DEF ICacheOK
  <2>7. DOMAIN d.icache = 0 .. ICACHE_LINES - 1 /\ d.icache[b % ICACHE_LINES] = line
    BY <2>3, <2>5, <2>6
  <2>8. ASSUME NEW x \in TextBlocks, d.icache[x % ICACHE_LINES].valid,
               d.icache[x % ICACHE_LINES].tag = x \div ICACHE_LINES
        PROVE  d.icache[x % ICACHE_LINES].data = aes_encrypt_block(program[x])
    <3>1. x \in Nat /\ x % ICACHE_LINES \in 0 .. ICACHE_LINES - 1
      BY TextAligned, InstructionLine DEF TextBlocks
    <3>2. CASE x % ICACHE_LINES = b % ICACHE_LINES
      <4>1. x = b
        BY <3>1, <3>2, <2>2, <2>5, <2>7, <2>8, InstructionLine
      <4>2. QED
        BY <4>1, <2>2, <2>7
    <3>3. CASE x % ICACHE_LINES # b % ICACHE_LINES
      <4>1. d.icache[x % ICACHE_LINES] = c.icache[x % ICACHE_LINES]
        BY <3>1, <3>3, <2>3, <2>6
      <4>2. QED
        BY <4>1, <2>8 DEF ICacheOK
    <3>4. QED
      BY <3>2, <3>3
  <2>9. ICacheOK(d.icache)
    BY <2>7, <2>8 DEF ICacheOK
  <2>10. QED
    BY <2>2, <2>3, <2>4, <2>7, <2>9
<1>3. QED
  BY <1>1, <1>2

Clamped(a) == IF a < block_of(TextStart) THEN block_of(TextStart) ELSE a

\* The first fetch of an image that is not valid.
LEMMA FetchRefused ==
    ASSUME NEW c, Shape(c), ~c.fetch.valid, ~c.key_valid, NEW d, d = stage_fetch(c, FALSE)
    PROVE  /\ Shape(d) /\ d.locked = TRUE /\ d.key_check_failed = TRUE
           /\ Same(c, d, CpuFields \ {"locked", "key_check_failed"})
<1>1. PICK e : e = lockSecurity(c)
  OBVIOUS
<1>2. Shape(e) /\ e.locked = TRUE
  BY <1>1, LockIs
<1>3. Same(c, e, CpuFields \ {"locked"})
  BY <1>1, LockIs
<1>4. d = [e EXCEPT !.key_check_failed = TRUE]
  BY <1>1 DEF stage_fetch
<1>5. /\ d.key_check_failed = TRUE /\ d.locked = TRUE
      /\ Same(e, d, CpuFields \ {"key_check_failed"}) /\ DOMAIN d = CpuFields
  BY <1>2, <1>4 DEF Shape, CpuFields, Same
<1>6. Shape(d) /\ Same(c, d, CpuFields \ {"locked", "key_check_failed"})
  BY <1>2, <1>3, <1>5 DEF Shape, CpuFields, Same
<1>7. QED
  BY <1>5, <1>6

LEMMA FetchIdle ==
    ASSUME NEW c, c.fetch.valid, NEW ok
    PROVE  stage_fetch(c, ok) = c
  BY DEF stage_fetch

LEMMA FetchIs ==
    ASSUME NEW c, Shape(c), ~c.fetch.valid, Fetched(c.fetch), ICacheOK(c.icache),
           NEW ok \in BOOLEAN, c.key_valid \/ ok, NEW d, d = stage_fetch(c, ok)
    PROVE  /\ Shape(d) /\ Fetched(d.fetch) /\ ICacheOK(d.icache)
           /\ d.key_valid = TRUE
           /\ d.fetch.block_addr = Clamped(c.fetch.block_addr)
           /\ d.fetch.valid <=> Clamped(c.fetch.block_addr) < block_of(TextEnd)
           /\ Same(c, d, CpuFields \ {"fetch", "icache", "key_valid"})
<1>1. PICK b : b = Clamped(c.fetch.block_addr)
  OBVIOUS
<1>2. b \in Int /\ b >= block_of(TextStart)
  BY <1>1, TextAligned DEF Clamped, Fetched
<1>3. CASE b >= block_of(TextEnd)
  <2>1. d = [c EXCEPT !.key_valid = TRUE, !.fetch = [c.fetch EXCEPT !.block_addr = b]]
    BY <1>1, <1>3 DEF stage_fetch, Clamped
  <2>2. /\ d.key_valid = TRUE /\ d.fetch = [c.fetch EXCEPT !.block_addr = b]
        /\ Same(c, d, CpuFields \ {"fetch", "key_valid"}) /\ DOMAIN d = CpuFields
    BY <2>1 DEF Shape, CpuFields, Same
  <2>3. FetchShape(d.fetch) /\ d.fetch.valid = FALSE /\ d.fetch.block_addr = b
    BY <2>2 DEF Shape, FetchShape
  <2>4. Shape(d) /\ d.icache = c.icache /\ Same(c, d, CpuFields \ {"fetch", "icache", "key_valid"})
    BY <2>2, <2>3 DEF Shape, CpuFields, Same
  <2>5. Fetched(d.fetch)
    BY <2>3, <1>2 DEF Fetched
  <2>6. ~(b < block_of(TextEnd))
    BY <1>2, <1>3, TextAligned
  <2>7. QED
    BY <2>2, <2>3, <2>4, <2>5, <2>6, <1>1
<1>4. CASE b < block_of(TextEnd)
  <2>1. b \in TextBlocks
    BY <1>2, <1>4, TextAligned DEF TextBlocks
  <2>2. PICK e : e = icache_read_block(c, b)
    OBVIOUS
  <2>3. Shape(e) /\ ICacheOK(e.icache)
    BY <2>1, <2>2, ICacheIs
  <2>4. Same(c, e, CpuFields \ {"icache"})
    BY <2>1, <2>2, ICacheIs
  <2>5. e.icache[b % ICACHE_LINES].data = aes_encrypt_block(program[b])
    BY <2>1, <2>2, ICacheIs
  <2> DEFINE nf == [valid |-> TRUE, block_addr |-> b, block_data |-> e.icache[b % ICACHE_LINES].data]
  <2>6. ~(b >= block_of(TextEnd))
    BY <1>2, <1>4, TextAligned
  <2>7. d = [e EXCEPT !.key_valid = TRUE, !.fetch = nf]
    BY <1>1, <2>2, <2>6 DEF stage_fetch, Clamped
  <2>8. /\ nf.valid = TRUE /\ nf.block_addr = b /\ nf.block_data = aes_encrypt_block(program[b])
        /\ DOMAIN nf = {"valid", "block_addr", "block_data"}
    BY <2>5
  <2> HIDE DEF nf
  <2>9. /\ d.key_valid = TRUE /\ d.fetch = nf
        /\ Same(e, d, CpuFields \ {"fetch", "key_valid"}) /\ DOMAIN d = CpuFields
    BY <2>3, <2>7 DEF Shape, CpuFields, Same
  <2>10. FetchShape(nf)
    BY <2>8 DEF FetchShape
  <2>11. Shape(d) /\ d.icache = e.icache /\ Same(c, d, CpuFields \ {"fetch", "icache", "key_valid"})
    BY <2>3, <2>4, <2>9, <2>10 DEF Shape, CpuFields, Same
  <2>12. Fetched(nf)
    BY <2>1, <2>8, <1>2 DEF Fetched
  <2>13. QED
    BY <2>3, <2>8, <2>9, <2>11, <2>12, <1>1, <1>4
<1>5. b >= block_of(TextEnd) \/ b < block_of(TextEnd)
  BY <1>2, TextAligned
<1>6. QED
  BY <1>3, <1>4, <1>5
-----------------------------------------------------------------------------
(* A cycle: the stages one after the other.                                  *)

Linked(c) == c.decr.valid => c.fetch.block_addr = c.decr.block_addr + 1

\* What holds of the registers between any two stages.
Core(c) ==
    /\ Shape(c) /\ Passed(c) /\ Executed(c.exec) /\ Decoded(c.decode) /\ Decrypted(c.decr)
    /\ Fetched(c.fetch) /\ Linked(c) /\ ICacheOK(c.icache) /\ DataOK(c)

ImageOK == ProgramOK /\ encrypted \in BOOLEAN

LEMMA EmptyFront ==
    ASSUME NEW c, FrontEmpty(c), c.fetch.block_addr \in Int
    PROVE  Decoded(c.decode) /\ Decrypted(c.decr) /\ Fetched(c.fetch) /\ Linked(c)
  BY DEF FrontEmpty, Decoded, Decrypted, Fetched, Linked

LEMMA SameFront ==
    ASSUME NEW c, Core(c), NEW d, Same(c, d, Front)
    PROVE  /\ Decoded(d.decode) /\ Decrypted(d.decr) /\ Fetched(d.fetch) /\ Linked(d)
           /\ d.decode = c.decode /\ d.decr = c.decr /\ d.fetch = c.fetch
<1>1. d.decode = c.decode /\ d.decr = c.decr /\ d.fetch = c.fetch
  BY DEF Same, Front
<1>2. QED
  BY <1>1 DEF Core, Linked

\* The write-back and memory stages, with the recovery before the latter.
BackStages(c) ==
    LET c1 == WriteStage(c)
    IN  IF c1.exec.valid THEN stage_memory(recover(c1)) ELSE c1

Dropped(c) == c.exec.instr.op = "SW" /\ ~encrypted

BackFacts(c, d) ==
    /\ d.exec.valid = FALSE
    /\ d.reg_file = WrittenRegs(c) /\ d.retired = WrittenCount(c)
    /\ d.wb.valid = c.mem.valid
    /\ c.mem.valid => d.wb.instr = c.mem.instr /\ d.wb.final_val = final_val(c.mem)
    /\ d.copro = c.copro /\ d.key_valid = c.key_valid /\ d.key_check_failed = c.key_check_failed

BackIdleFacts(c, d) ==
    d.mem.valid = FALSE /\ d.locked = c.locked /\ Same(c, d, Front) /\ d.data = c.data

BackMovesFacts(c, d) ==
    /\ d.mem.valid = TRUE /\ d.mem.instr = c.exec.instr /\ d.mem.word_addr = c.exec.word_addr
    /\ ~Violates(c.exec) => d.mem.mem_read_val = Result(c)
    /\ d.locked = IF Violates(c.exec) THEN TRUE ELSE c.locked
    /\ c.exec.control_mispredict =>
          FrontEmpty(d) /\ d.fetch.block_addr = c.exec.recovery_block_addr
    /\ ~c.exec.control_mispredict =>
          \/ Same(c, d, Front)
          \/ Dropped(c) /\ FrontEmpty(d) /\ d.fetch.block_addr = c.fetch.block_addr

DataMoves(c, d) ==
    \A x \in DataWords :
        PlainWord(d, x) = IF c.exec.instr.op = "SW" /\ x = translateDataAddress(c.exec.alu_result)
                          THEN c.exec.rt_forward_val ELSE PlainWord(c, x)

LEMMA BackIdle ==
    ASSUME NEW c, Core(c), ImageOK, ~c.exec.valid, NEW d, d = BackStages(c)
    PROVE  Core(d) /\ BackFacts(c, d) /\ BackIdleFacts(c, d)
<1>1. Shape(c) /\ Passed(c)
  BY DEF Core
<1>2. PICK e : e = WriteStage(c)
  OBVIOUS
<1>3. Shape(e) /\ WriteFacts(c, e)
  BY <1>1, <1>2, WritebackIs
<1>4. Same(c, e, CpuFields \ {"mem", "wb", "reg_file", "retired"}) /\ e.mem.valid = FALSE
  BY <1>3 DEF WriteFacts
<1>5. /\ e.exec = c.exec /\ e.copro = c.copro /\ e.key_valid = c.key_valid
      /\ e.key_check_failed = c.key_check_failed /\ e.locked = c.locked
      /\ e.data = c.data /\ e.dcache = c.dcache /\ e.icache = c.icache /\ Same(c, e, Front)
  BY <1>4 DEF Same, CpuFields, Front
<1>6. d = e
  BY <1>2, <1>5 DEF BackStages
<1>7. e.exec.valid = FALSE
  BY <1>1, <1>5 DEF Shape, StageShape
<1>8. DataOK(e)
  BY <1>5, DataSame DEF Core
<1>9. Decoded(e.decode) /\ Decrypted(e.decr) /\ Fetched(e.fetch) /\ Linked(e)
  BY <1>5, SameFront
<1>10. Core(e)
  BY <1>3, <1>4, <1>5, <1>7, <1>8, <1>9 DEF Core, Executed, Passed
<1>11. QED
  BY <1>3, <1>5, <1>6, <1>7, <1>10 DEF BackFacts, BackIdleFacts, WriteFacts

LEMMA BackMoves ==
    ASSUME NEW c, Core(c), ImageOK, c.exec.valid, NEW d, d = BackStages(c)
    PROVE  Core(d) /\ BackFacts(c, d) /\ BackMovesFacts(c, d) /\ (~Dropped(c) => DataMoves(c, d))
<1>0. Shape(c) /\ Passed(c)
  BY DEF Core
<1>1. Executed(c.exec) /\ DataOK(c) /\ encrypted \in BOOLEAN
  BY DEF Core, ImageOK
<1>2. PICK e : e = WriteStage(c)
  OBVIOUS
<1>3. Shape(e) /\ WriteFacts(c, e)
  BY <1>0, <1>2, WritebackIs
<1>4. Same(c, e, CpuFields \ {"mem", "wb", "reg_file", "retired"}) /\ e.mem.valid = FALSE
  BY <1>3 DEF WriteFacts
<1>5. PICK f : f = recover(e)
  OBVIOUS
<1>6. e.exec = c.exec /\ e.fetch = c.fetch
  BY <1>4 DEF Same, CpuFields
<1>7. Shape(f) /\ (~c.exec.control_mispredict => f = e)
  BY <1>3, <1>5, <1>6, RecoverIs
<1>8. c.exec.control_mispredict => FrontEmpty(f) /\ f.fetch.block_addr = c.exec.recovery_block_addr
  BY <1>3, <1>5, <1>6, RecoverIs DEF FrontEmpty
<1>9. Same(e, f, CpuFields \ {"fetch", "decr", "decode"})
  BY <1>3, <1>5, RecoverIs
<1>10. /\ f.exec = c.exec /\ f.mem.valid = FALSE /\ f.data = c.data /\ f.dcache = c.dcache
       /\ f.copro = c.copro /\ f.key_valid = c.key_valid /\ f.icache = c.icache
       /\ f.key_check_failed = c.key_check_failed /\ f.locked = c.locked
       /\ f.reg_file = e.reg_file /\ f.retired = e.retired /\ f.wb = e.wb
  BY <1>4, <1>9 DEF Same, CpuFields
<1>11. DataOK(f) /\ \A x \in DataWords : PlainWord(f, x) = PlainWord(c, x)
  BY <1>1, <1>10, DataSame
<1>12. d = stage_memory(f)
  BY <1>2, <1>5, <1>6 DEF BackStages
<1>13. Executed(f.exec) /\ f.exec.valid /\ ~f.mem.valid
  BY <1>1, <1>10
<1>14. Shape(d) /\ DataOK(d) /\ Passed(d) /\ MemoryFacts(f, d)
  BY <1>1, <1>7, <1>11, <1>12, <1>13, MemoryIs
<1>15. /\ d.exec.valid = FALSE /\ d.mem.valid = TRUE
       /\ d.mem.instr = c.exec.instr /\ d.mem.word_addr = c.exec.word_addr
       /\ d.locked = IF Violates(c.exec) THEN TRUE ELSE c.locked
       /\ d.fetch.block_addr = f.fetch.block_addr
  BY <1>10, <1>14 DEF MemoryFacts
<1>18. Same(f, d, CpuFields \ (Front \cup {"exec", "mem", "locked", "data", "dcache"}))
  BY <1>14 DEF MemoryFacts
<1>20. Same(f, d, Front) \/ (f.exec.instr.op = "SW" /\ ~encrypted /\ FrontEmpty(d))
  BY <1>14 DEF MemoryFacts
<1>21. ~Violates(c.exec) => d.mem.mem_read_val = Result(c)
  <2>1. Result(f) = Result(c)
    BY <1>10 DEF Result, PlainWord
  <2>2. QED
    BY <2>1, <1>10, <1>14 DEF MemoryFacts
<1>22. ASSUME ~Dropped(c), NEW x \in DataWords
       PROVE  PlainWord(d, x) = IF c.exec.instr.op = "SW" /\ x = translateDataAddress(c.exec.alu_result)
                                THEN c.exec.rt_forward_val ELSE PlainWord(c, x)
  <2>1. CASE c.exec.instr.op # "SW"
    <3>1. PlainWord(d, x) = PlainWord(f, x)
      BY <2>1, <1>10, <1>14 DEF MemoryFacts
    <3>2. QED
      BY <3>1, <2>1, <1>11
  <2>2. CASE c.exec.instr.op = "SW"
    <3>1. encrypted
      BY <2>2, <1>22, <1>1 DEF Dropped
    <3>2. PlainWord(d, x) = IF x = translateDataAddress(f.exec.alu_result)
                            THEN f.exec.rt_forward_val ELSE PlainWord(f, x)
      BY <3>1, <2>2, <1>10, <1>14 DEF MemoryFacts
    <3>3. QED
      BY <3>2, <2>2, <1>10, <1>11
  <2>3. QED
    BY <2>1, <2>2
<1>23. BackFacts(c, d)
  <2>1. /\ d.reg_file = f.reg_file /\ d.retired = f.retired /\ d.wb = f.wb /\ d.copro = f.copro
        /\ d.key_valid = f.key_valid /\ d.key_check_failed = f.key_check_failed
    BY <1>18 DEF Same, CpuFields, Front
  <2>2. QED
    BY <2>1, <1>3, <1>10, <1>15 DEF BackFacts, WriteFacts
<1>24. d.icache = c.icache
  BY <1>10, <1>18 DEF Same, CpuFields, Front
<1>25. c.exec.control_mispredict =>
          FrontEmpty(d) /\ d.fetch.block_addr = c.exec.recovery_block_addr
  <2> HAVE c.exec.control_mispredict
  <2>1. FrontEmpty(f) /\ f.fetch.block_addr = c.exec.recovery_block_addr
    BY <1>8
  <2>2. FrontEmpty(d)
    BY <2>1, <1>20 DEF Same, Front, FrontEmpty
  <2>3. QED
    BY <2>1, <2>2, <1>15
<1>26. ~c.exec.control_mispredict =>
          \/ Same(c, d, Front)
          \/ Dropped(c) /\ FrontEmpty(d) /\ d.fetch.block_addr = c.fetch.block_addr
  <2> HAVE ~c.exec.control_mispredict
  <2>1. f = e
    BY <1>7
  <2>2. Same(c, f, Front)
    BY <2>1, <1>4 DEF Same, CpuFields, Front
  <2>3. f.fetch = c.fetch
    BY <2>2 DEF Same, Front
  <2>4. CASE Same(f, d, Front)
    BY <2>2, <2>4 DEF Same, Front
  <2>5. CASE f.exec.instr.op = "SW" /\ ~encrypted /\ FrontEmpty(d)
    BY <2>3, <2>5, <1>10, <1>15 DEF Dropped
  <2>6. QED
    BY <2>4, <2>5, <1>20
<1>27. Decoded(d.decode) /\ Decrypted(d.decr) /\ Fetched(d.fetch) /\ Linked(d)
  <2>1. CASE Same(c, d, Front)
    BY <2>1, SameFront
  <2>2. CASE FrontEmpty(d)
    <3>1. c.exec.recovery_block_addr \in Int /\ c.fetch.block_addr \in Int
      BY DEF Core, Executed, Fetched
    <3>2. d.fetch.block_addr \in Int
      <4>1. CASE c.exec.control_mispredict
        BY <4>1, <3>1, <1>25
      <4>2. CASE ~c.exec.control_mispredict
        BY <4>2, <3>1, <1>26 DEF Same, Front
      <4>3. QED
        BY <4>1, <4>2
    <3>3. QED
      BY <3>2, <2>2, EmptyFront
  <2>3. QED
    BY <2>1, <2>2, <1>25, <1>26
<1>28. Core(d)
  <2>1. ICacheOK(d.icache)
    BY <1>24 DEF Core
  <2>2. Executed(d.exec)
    BY <1>15 DEF Executed
  <2>3. QED
    BY <2>1, <2>2, <1>14, <1>27 DEF Core
<1>29. BackMovesFacts(c, d)
  BY <1>15, <1>21, <1>25, <1>26 DEF BackMovesFacts
<1>30. ~Dropped(c) => DataMoves(c, d)
  BY <1>22 DEF DataMoves
<1>31. QED
  BY <1>23, <1>28, <1>29, <1>30
\* The execute stage when it has an instruction.
ExecFacts(c, d) ==
    /\ ExecutesTo(d.exec, c.decode, RsVal(c), RtVal(c), c.copro)
    /\ d.copro = IF c.decode.instr.op = "AESENC" THEN [rs |-> RsVal(c), rt |-> RtVal(c)] ELSE c.copro
    /\ d.decode.valid = FALSE
    /\ Same(c, d, CpuFields \ {"exec", "copro", "decode"})

LEMMA ExecMoves ==
    ASSUME NEW c, Core(c), Forwardable(c), ~c.exec.valid, c.decode.valid, NEW d, d = stage_execute(c)
    PROVE  Core(d) /\ ExecFacts(c, d)
<1>1. Shape(c) /\ Decoded(c.decode)
  BY DEF Core
<1>2. c.decode.rs_val \in Words /\ c.decode.rt_val \in Words
  BY <1>1 DEF Decoded
<1>3. RsVal(c) \in Words /\ RtVal(c) \in Words
  BY <1>2, ForwardedType DEF RsVal, RtVal
<1>4. Shape(d) /\ Executed(d.exec)
  BY <1>1, <1>3, ExecuteIs
<1>5. ExecutesTo(d.exec, c.decode, RsVal(c), RtVal(c), c.copro)
  BY <1>1, <1>3, ExecuteIs
<1>6. d.copro = IF c.decode.instr.op = "AESENC" THEN [rs |-> RsVal(c), rt |-> RtVal(c)] ELSE c.copro
  BY <1>1, <1>3, ExecuteIs
<1>7. d.decode.valid = FALSE
  BY <1>1, <1>3, ExecuteIs
<1>8. Same(c, d, CpuFields \ {"exec", "copro", "decode"})
  BY <1>1, <1>3, ExecuteIs
<1>9. d.mem = c.mem /\ d.decr = c.decr /\ d.fetch = c.fetch /\ d.icache = c.icache
      /\ d.data = c.data /\ d.dcache = c.dcache
  BY <1>8 DEF Same, CpuFields
<1>10. DataOK(d)
  BY <1>9, DataSame DEF Core
<1>11. Decoded(d.decode)
  BY <1>7 DEF Decoded
<1>12. Core(d)
  BY <1>4, <1>9, <1>10, <1>11 DEF Core, Passed, Linked
<1>13. QED
  BY <1>5, <1>6, <1>7, <1>8, <1>12 DEF ExecFacts

\* The stages in front of the decode register.
FrontStages(c, ok) == stage_fetch(IF c.decr.valid THEN stage_decode(c) ELSE stage_decrypt(c), ok)

\* Where the front end goes on behind the execute stage, and behind an instruction.
NextWord(c) == IF c.decode.valid THEN c.decode.word_addr ELSE Behind(c)
PredictedWord(x) ==
    IF x.instr.op = "J" THEN target_block(x.instr, x.word_addr) * INSTRS_PER_BLOCK ELSE x.word_addr + 1

Reached(c) == c.fetch.block_addr >= block_of(TextStart)
AimsAtText(x) ==
    x.valid /\ x.instr.op = "J" => target_block(x.instr, x.word_addr) >= block_of(TextStart)

ReadFrom(c) ==
    c.decode.valid => /\ c.decode.rs_val = c.reg_file[source_rs(c.decode.instr)]
                      /\ c.decode.rt_val = c.reg_file[source_rt(c.decode.instr)]

\* What the decode or the decrypt stage does.
AheadFacts(c, d) ==
    /\ ReadFrom(d)
    /\ ~c.exec.valid /\ c.decr.valid => d.decode.valid
    /\ ~c.decr.valid /\ c.fetch.valid => d.decr.valid
    /\ ~c.decr.valid /\ ~c.fetch.valid => d = c
    /\ NextWord(d) = Behind(c)
    /\ d.decode.valid => Behind(d) = PredictedWord(d.decode)
    /\ Reached(c) /\ AimsAtText(d.decode) => Reached(d)
    /\ Same(c, d, CpuFields \ Front)

LEMMA DecodeAhead ==
    ASSUME NEW c, Core(c), ImageOK, ~c.decode.valid, c.decr.valid, NEW d, d = stage_decode(c)
    PROVE  Core(d) /\ AheadFacts(c, d)
<1>1. CASE must_stall(c)
  <2>1. d = c
    BY <1>1, DecodeStalls
  <2>2. c.exec.valid
    BY <1>1 DEF must_stall
  <2>3. QED
    BY <2>1, <2>2 DEF AheadFacts, ReadFrom, NextWord, Same
<1>2. CASE ~must_stall(c)
  <2>1. Shape(c) /\ ProgramOK /\ Decrypted(c.decr) /\ Fetched(c.fetch)
        /\ c.fetch.block_addr = c.decr.block_addr + 1
    BY DEF Core, ImageOK, Linked
  <2>2. Shape(d) /\ Decrypted(d.decr) /\ Fetched(d.fetch)
    BY <1>2, <2>1, DecodeIs
  <2>3. d.decode.valid = TRUE /\ Decoded(d.decode)
    BY <1>2, <2>1, DecodeIs
  <2>4. Linked(d)
    BY <1>2, <2>1, DecodeIs DEF Linked
  <2>5. d.decode.word_addr = Behind(c)
    BY <1>2, <2>1, DecodeIs
  <2>6. /\ d.decode.rs_val = c.reg_file[source_rs(d.decode.instr)]
        /\ d.decode.rt_val = c.reg_file[source_rt(d.decode.instr)]
    BY <1>2, <2>1, DecodeIs
  <2>7. Behind(d) = PredictedWord(d.decode)
    BY <1>2, <2>1, DecodeIs DEF PredictedWord
  <2>8. Same(c, d, CpuFields \ Front)
    BY <1>2, <2>1, DecodeIs
  <2>9. d.mem = c.mem /\ d.exec = c.exec /\ d.icache = c.icache /\ d.reg_file = c.reg_file
        /\ d.data = c.data /\ d.dcache = c.dcache
    BY <2>8 DEF Same, CpuFields, Front
  <2>10. DataOK(d)
    BY <2>9, DataSame DEF Core
  <2>11. Core(d)
    BY <2>2, <2>3, <2>4, <2>9, <2>10 DEF Core, Passed
  <2>12. Reached(c) /\ AimsAtText(d.decode) => Reached(d)
    <3> SUFFICES ASSUME Reached(c), AimsAtText(d.decode) PROVE Reached(d)
      OBVIOUS
    <3>1. d.fetch.block_addr = IF d.decode.instr.op = "J"
                               THEN target_block(d.decode.instr, d.decode.word_addr)
                               ELSE c.fetch.block_addr
      BY <1>2, <2>1, DecodeIs
    <3>2. QED
      BY <3>1, <2>3 DEF AimsAtText, Reached
  <2>13. ReadFrom(d) /\ NextWord(d) = Behind(c)
    BY <2>3, <2>5, <2>6, <2>9 DEF ReadFrom, NextWord
  <2>14. QED
    BY <2>3, <2>7, <2>8, <2>11, <2>12, <2>13 DEF AheadFacts
<1>3. QED
  BY <1>1, <1>2
LEMMA DecryptAhead ==
    ASSUME NEW c, Core(c), ImageOK, ~c.decode.valid, ~c.decr.valid, NEW d, d = stage_decrypt(c)
    PROVE  Core(d) /\ AheadFacts(c, d)
<1>1. CASE ~c.fetch.valid
  <2>1. d = c
    BY <1>1 DEF stage_decrypt
  <2>2. QED
    BY <1>1, <2>1 DEF AheadFacts, ReadFrom, NextWord, Same
<1>2. CASE c.fetch.valid
  <2>1. Shape(c) /\ Fetched(c.fetch)
    BY DEF Core
  <2>2. Shape(d) /\ Decrypted(d.decr) /\ Fetched(d.fetch)
    BY <1>2, <2>1, DecryptIs
  <2>3. d.decr.valid = TRUE /\ d.fetch.valid = FALSE /\ d.fetch.block_addr = d.decr.block_addr + 1
    BY <1>2, <2>1, DecryptIs
  <2>4. Behind(d) = Behind(c)
    BY <1>2, <2>1, DecryptIs
  <2>5. Same(c, d, CpuFields \ {"fetch", "decr"})
    BY <1>2, <2>1, DecryptIs
  <2>6. /\ d.mem = c.mem /\ d.exec = c.exec /\ d.icache = c.icache /\ d.reg_file = c.reg_file
        /\ d.data = c.data /\ d.dcache = c.dcache /\ d.decode = c.decode
        /\ Same(c, d, CpuFields \ Front)
    BY <2>5 DEF Same, CpuFields, Front
  <2>7. DataOK(d)
    BY <2>6, DataSame DEF Core
  <2>8. Core(d)
    BY <2>2, <2>3, <2>6, <2>7 DEF Core, Passed, Linked
  <2>9. Reached(d)
    <3>1. d.decr.block_addr \in TextBlocks
      BY <2>2, <2>3 DEF Decrypted
    <3>2. QED
      BY <3>1, <2>3, TextAligned DEF TextBlocks, Reached
  <2>10. QED
    BY <1>2, <2>3, <2>4, <2>6, <2>8, <2>9 DEF AheadFacts, ReadFrom, NextWord
<1>3. QED
  BY <1>1, <1>2

\* The front end when the key has been or is extracted.
FrontFacts(c, d) ==
    /\ ReadFrom(d)
    /\ ~c.exec.valid /\ c.decr.valid => d.decode.valid
    /\ ~c.decr.valid /\ c.fetch.valid => d.decr.valid
    /\ d.fetch.valid \/ d.fetch.block_addr >= block_of(TextEnd)
    /\ ~c.decr.valid /\ ~c.fetch.valid /\ c.fetch.block_addr >= block_of(TextEnd) =>
          ~d.fetch.valid /\ ~d.decr.valid /\ ~d.decode.valid
    /\ Reached(d)
    /\ Reached(c) /\ AimsAtText(d.decode) => NextWord(d) = Behind(c)
    /\ Reached(c) /\ AimsAtText(d.decode) /\ d.decode.valid => Behind(d) = PredictedWord(d.decode)
    /\ d.key_valid = TRUE
    /\ Same(c, d, CpuFields \ (Front \cup {"icache", "key_valid"}))

LEMMA FrontMoves ==
    ASSUME NEW c, Core(c), ImageOK, ~c.decode.valid, NEW ok \in BOOLEAN, c.key_valid \/ ok,
           c.key_valid \/ (~c.fetch.valid /\ ~c.decr.valid),
           NEW d, d = FrontStages(c, ok)
    PROVE  Core(d) /\ FrontFacts(c, d)
<1>1. PICK e : e = IF c.decr.valid THEN stage_decode(c) ELSE stage_decrypt(c)
  OBVIOUS
<1>2. Core(e) /\ AheadFacts(c, e)
  BY <1>1, DecodeAhead, DecryptAhead
<1>3. d = stage_fetch(e, ok)
  BY <1>1 DEF FrontStages
<1>4. Same(c, e, CpuFields \ Front)
  BY <1>2 DEF AheadFacts
<1>5. e.key_valid = c.key_valid
  BY <1>4 DEF Same, CpuFields, Front
<1>6. CASE e.fetch.valid
  <2>1. d = e
    BY <1>3, <1>6, FetchIdle
  <2>2. e.fetch.block_addr \in TextBlocks /\ e.fetch.block_addr \in Int
    BY <1>2, <1>6 DEF Core, Fetched
  <2>3. Reached(d)
    BY <2>1, <2>2, TextAligned DEF TextBlocks, Reached
  <2>4. c.key_valid = TRUE
    <3>1. c.key_valid \in BOOLEAN
      BY DEF Core, Shape
    <3>2. ~c.fetch.valid /\ ~c.decr.valid => e = c
      BY <1>2 DEF AheadFacts
    <3>3. QED
      BY <3>1, <3>2, <1>6
  <2>5. Same(c, d, CpuFields \ (Front \cup {"icache", "key_valid"}))
    BY <2>1, <1>4 DEF Same
  <2>6. ~c.decr.valid /\ ~c.fetch.valid => FALSE
    BY <1>2, <1>6 DEF AheadFacts
  <2>7. QED
    BY <1>2, <1>5, <1>6, <2>1, <2>3, <2>4, <2>5, <2>6 DEF AheadFacts, FrontFacts
<1>7. CASE ~e.fetch.valid
  <2>1. Shape(e) /\ Fetched(e.fetch) /\ ICacheOK(e.icache)
    BY <1>2 DEF Core
  <2>2. Shape(d) /\ Fetched(d.fetch) /\ ICacheOK(d.icache)
    BY <1>3, <1>5, <1>7, <2>1, FetchIs
  <2>3. d.key_valid = TRUE /\ d.fetch.block_addr = Clamped(e.fetch.block_addr)
    BY <1>3, <1>5, <1>7, <2>1, FetchIs
  <2>4. d.fetch.valid <=> Clamped(e.fetch.block_addr) < block_of(TextEnd)
    BY <1>3, <1>5, <1>7, <2>1, FetchIs
  <2>5. Same(e, d, CpuFields \ {"fetch", "icache", "key_valid"})
    BY <1>3, <1>5, <1>7, <2>1, FetchIs
  <2>6. /\ d.mem = e.mem /\ d.exec = e.exec /\ d.reg_file = e.reg_file
        /\ d.data = e.data /\ d.dcache = e.dcache /\ d.decode = e.decode /\ d.decr = e.decr
    BY <2>5 DEF Same, CpuFields, Front
  <2>7. e.fetch.block_addr \in Int
    BY <2>1 DEF Fetched
  <2>8. Reached(d) /\ (d.fetch.valid \/ d.fetch.block_addr >= block_of(TextEnd))
    BY <2>3, <2>4, <2>7, TextAligned DEF Reached, Clamped
  <2>9. Reached(e) => d.fetch.block_addr = e.fetch.block_addr
    BY <2>3, <2>7, TextAligned DEF Reached, Clamped
  <2>10. Linked(d)
    <3>1. e.decr.valid => Reached(e)
      <4>1. e.decr.valid => e.fetch.block_addr = e.decr.block_addr + 1 /\ e.decr.block_addr \in TextBlocks
        BY <1>2 DEF Core, Linked, Decrypted
      <4>2. QED
        BY <4>1, TextAligned DEF TextBlocks, Reached
    <3>2. QED
      BY <3>1, <2>9, <2>6, <1>2 DEF Core, Linked
  <2>11. DataOK(d)
    BY <1>2, <2>6, DataSame DEF Core
  <2>12. Core(d)
    BY <1>2, <2>2, <2>6, <2>10, <2>11 DEF Core, Passed
  <2>13. Reached(e) => Behind(d) = Behind(e) /\ NextWord(d) = NextWord(e)
    BY <2>6, <2>9 DEF Behind, NextWord
  <2>14. Same(c, d, CpuFields \ (Front \cup {"icache", "key_valid"}))
    BY <2>5, <1>4 DEF Same, CpuFields, Front
  <2>15. ReadFrom(d)
    BY <1>2, <2>6 DEF AheadFacts, ReadFrom
  <2>16. ~c.decr.valid /\ ~c.fetch.valid /\ c.fetch.block_addr >= block_of(TextEnd) =>
            ~d.fetch.valid /\ ~d.decr.valid /\ ~d.decode.valid
    <3>1. ~c.decr.valid /\ ~c.fetch.valid => e = c
      BY <1>2 DEF AheadFacts
    <3>2. QED
      BY <3>1, <2>4, <2>6, <2>7, TextAligned DEF Clamped
  <2>17. QED
    BY <1>2, <2>3, <2>6, <2>8, <2>12, <2>13, <2>14, <2>15, <2>16 DEF AheadFacts, FrontFacts
<1>8. QED
  BY <1>6, <1>7

\* The front end when the image is refused.
RefusedFacts(c, d) ==
    /\ d.locked = TRUE /\ d.key_check_failed = TRUE
    /\ Same(c, d, CpuFields \ {"locked", "key_check_failed"})

LEMMA FrontRefused ==
    ASSUME NEW c, Core(c), ~c.key_valid, FrontEmpty(c), NEW d, d = FrontStages(c, FALSE)
    PROVE  Core(d) /\ RefusedFacts(c, d)
<1>1. Shape(c) /\ ~c.fetch.valid /\ ~c.decr.valid /\ ~c.decode.valid
  BY DEF Core, FrontEmpty
<1>2. d = stage_fetch(c, FALSE)
  BY <1>1 DEF FrontStages, stage_decrypt
<1>3. Shape(d) /\ d.locked = TRUE /\ d.key_check_failed = TRUE
  BY <1>1, <1>2, FetchRefused
<1>4. Same(c, d, CpuFields \ {"locked", "key_check_failed"})
  BY <1>1, <1>2, FetchRefused
<1>5. /\ d.mem = c.mem /\ d.exec = c.exec /\ d.icache = c.icache
      /\ d.data = c.data /\ d.dcache = c.dcache /\ Same(c, d, Front)
  BY <1>4 DEF Same, CpuFields, Front
<1>6. DataOK(d)
  BY <1>5, DataSame DEF Core
<1>7. Decoded(d.decode) /\ Decrypted(d.decr) /\ Fetched(d.fetch) /\ Linked(d)
  BY <1>5, SameFront
<1>8. Core(d)
  BY <1>3, <1>5, <1>6, <1>7 DEF Core, Passed
<1>9. QED
  BY <1>3, <1>4, <1>8 DEF RefusedFacts
\* Nothing enters the pipeline before the key is extracted.
KeyFirst(c) == c.key_valid \/ (FrontEmpty(c) /\ ~c.exec.valid /\ ~c.mem.valid)

\* The instruction in the execute stage was computed from the registers as the instructions
\* before it leave them, whether it read or was forwarded them.
Operands(c) ==
    c.exec.valid =>
        LET a == WrittenRegs(c)[source_rs(c.exec.instr)]
            b == WrittenRegs(c)[source_rt(c.exec.instr)]
        IN  /\ ExecutesTo(c.exec, c.exec, a, b, c.exec.copro_before)
            /\ c.copro = IF c.exec.instr.op = "AESENC" THEN [rs |-> a, rt |-> b] ELSE c.exec.copro_before

State(c) == Core(c) /\ KeyFirst(c) /\ ReadFrom(c) /\ Operands(c)

\* The write-back, memory and execute stages of a cycle: c, e and f are the registers before
\* them, behind the memory stage and behind the execute stage.
MiddleFacts(c, e, f) ==
    /\ BackFacts(c, e)
    /\ f.decode.valid = FALSE
    /\ Same(e, f, CpuFields \ {"exec", "copro", "decode"})
    /\ Operands(f)
    /\ e.decode.valid => /\ f.exec.valid = TRUE /\ f.exec.instr = e.decode.instr
                         /\ f.exec.word_addr = e.decode.word_addr /\ f.exec.copro_before = e.copro
    /\ ~e.decode.valid => f = e

\* What the memory stage leaves of the front end it keeps or drops.
FrontKept(c, e) == Same(c, e, Front) \/ FrontEmpty(e)

LEMMA BackAny ==
    ASSUME NEW c, Core(c), ImageOK, NEW e, e = BackStages(c)
    PROVE  Core(e) /\ BackFacts(c, e) /\ FrontKept(c, e)
<1>1. CASE c.exec.valid
  <2>1. Core(e) /\ BackFacts(c, e) /\ BackMovesFacts(c, e)
    BY <1>1, BackMoves
  <2>2. QED
    BY <2>1 DEF BackMovesFacts, FrontKept
<1>2. CASE ~c.exec.valid
  <2>1. Core(e) /\ BackFacts(c, e) /\ BackIdleFacts(c, e)
    BY <1>2, BackIdle
  <2>2. QED
    BY <2>1 DEF BackIdleFacts, FrontKept
<1>3. QED
  BY <1>1, <1>2

LEMMA Middle ==
    ASSUME NEW c, State(c), ImageOK, NEW e, e = BackStages(c), NEW f, f = stage_execute(e)
    PROVE  Core(e) /\ Core(f) /\ MiddleFacts(c, e, f)
<1>1. Core(c) /\ Shape(c) /\ Passed(c)
  BY DEF State, Core
<1>2. Core(e) /\ BackFacts(c, e) /\ FrontKept(c, e)
  BY <1>1, BackAny
<1>3. Shape(e) /\ Passed(e) /\ ~e.exec.valid
  BY <1>2 DEF Core, BackFacts
<1>4. CASE ~e.decode.valid
  <2>1. f = e
    BY <1>4, ExecuteIdle
  <2>2. e.decode.valid = FALSE
    BY <1>3, <1>4 DEF Shape, StageShape
  <2>3. QED
    BY <1>2, <1>3, <1>4, <2>1, <2>2 DEF MiddleFacts, Operands, Same
<1>5. CASE e.decode.valid
  <2>1. e.wb.valid => e.wb.final_val \in Words
    <3>1. e.wb.valid => c.mem.valid /\ e.wb.final_val = final_val(c.mem)
      BY <1>2 DEF BackFacts
    <3>2. QED
      BY <3>1, <1>1, FinalValue
  <2>2. Forwardable(e)
    BY <1>3, <2>1 DEF Forwardable
  <2>3. Core(f) /\ ExecFacts(e, f)
    BY <1>2, <1>3, <1>5, <2>2, ExecMoves
  <2>4. e.decode = c.decode
    BY <1>2, <1>5 DEF FrontKept, FrontEmpty, Same, Front
  <2> DEFINE i == e.decode.instr
             a == WrittenRegs(e)[source_rs(i)]
             b == WrittenRegs(e)[source_rt(i)]
  <2>5. /\ i \in Instructions
        /\ e.decode.rs_idx = source_rs(i) /\ e.decode.rt_idx = source_rt(i)
        /\ e.decode.rs_val = c.reg_file[source_rs(i)] /\ e.decode.rt_val = c.reg_file[source_rt(i)]
    BY <1>2, <1>5, <2>4 DEF Core, Decoded, State, ReadFrom
  <2>6. source_rs(i) \in Regs /\ source_rt(i) \in Regs
    BY <2>5, Destination
  <2>7. /\ e.wb.valid = c.mem.valid
        /\ e.reg_file = WrittenRegs(c) /\ e.reg_file \in [Regs -> Words]
    BY <1>2, <1>3 DEF BackFacts, Shape
  <2>8. c.mem.valid => e.wb.instr = c.mem.instr /\ e.wb.final_val = final_val(c.mem)
    BY <1>2 DEF BackFacts
  <2>9. RsVal(e) = a
    <3>1. forwarded(e, source_rs(i), c.reg_file[source_rs(i)]) = WrittenRegs(e)[source_rs(i)]
      BY <1>1, <1>3, <2>6, <2>7, <2>8, Forwarding
    <3>2. QED
      BY <3>1, <2>5 DEF RsVal
  <2>10. RtVal(e) = b
    <3>1. forwarded(e, source_rt(i), c.reg_file[source_rt(i)]) = WrittenRegs(e)[source_rt(i)]
      BY <1>1, <1>3, <2>6, <2>7, <2>8, Forwarding
    <3>2. QED
      BY <3>1, <2>5 DEF RtVal
  <2>11. /\ Same(e, f, CpuFields \ {"exec", "copro", "decode"}) /\ f.decode.valid = FALSE
         /\ f.copro = IF i.op = "AESENC" THEN [rs |-> RsVal(e), rt |-> RtVal(e)] ELSE e.copro
    BY <2>3 DEF ExecFacts
  <2>12. ExecutesTo(f.exec, e.decode, a, b, e.copro)
    BY <2>3, <2>9, <2>10 DEF ExecFacts
  <2>13. /\ f.exec.valid = TRUE /\ f.exec.instr = i /\ f.exec.word_addr = e.decode.word_addr
         /\ f.exec.copro_before = e.copro
    BY <2>12 DEF ExecutesTo
  <2>14. f.mem = e.mem /\ f.reg_file = e.reg_file
    BY <2>11 DEF Same, CpuFields
  <2>15. WrittenRegs(f) = WrittenRegs(e)
    BY <2>14 DEF WrittenRegs
  <2>16. ExecutesTo(f.exec, f.exec, a, b, f.exec.copro_before)
    BY <2>12, <2>13 DEF ExecutesTo, ActualBlock, PredictedBlock
  <2>17. f.copro = IF i.op = "AESENC" THEN [rs |-> a, rt |-> b] ELSE f.exec.copro_before
    BY <2>9, <2>10, <2>11, <2>13
  <2>18. Operands(f)
    BY <2>13, <2>15, <2>16, <2>17 DEF Operands
  <2>19. QED
    BY <1>2, <1>5, <2>3, <2>11, <2>13, <2>18 DEF MiddleFacts
<1>6. QED
  BY <1>4, <1>5
LEMMA CycleGoes ==
    ASSUME NEW c, State(c), ImageOK, NEW ok \in BOOLEAN, c.key_valid \/ ok,
           NEW e, e = BackStages(c), NEW f, f = stage_execute(e), NEW d, d = FrontStages(f, ok)
    PROVE  State(d) /\ FrontFacts(f, d)
<1>1. Core(e) /\ Core(f) /\ MiddleFacts(c, e, f)
  BY Middle
<1>2. f.key_valid = c.key_valid
  <2>1. e.key_valid = c.key_valid
    BY <1>1 DEF MiddleFacts, BackFacts
  <2>2. Same(e, f, CpuFields \ {"exec", "copro", "decode"})
    BY <1>1 DEF MiddleFacts
  <2>3. f.key_valid = e.key_valid
    BY <2>2 DEF Same, CpuFields
  <2>4. QED
    BY <2>1, <2>3
<1>3. f.key_valid \/ (~f.fetch.valid /\ ~f.decr.valid)
  <2> SUFFICES ASSUME ~f.key_valid PROVE ~f.fetch.valid /\ ~f.decr.valid
    OBVIOUS
  <2>1. FrontEmpty(c)
    BY <1>2 DEF State, KeyFirst
  <2>2. Core(c)
    BY DEF State
  <2>3. FrontKept(c, e)
    BY <2>2, BackAny
  <2>4. FrontEmpty(e)
    BY <2>1, <2>3 DEF FrontKept, FrontEmpty, Same, Front
  <2>5. f = e
    BY <2>4, <1>1 DEF MiddleFacts, FrontEmpty
  <2>6. QED
    BY <2>4, <2>5 DEF FrontEmpty
<1>4. ~f.decode.valid
  BY <1>1 DEF MiddleFacts
<1>5. Core(d) /\ FrontFacts(f, d)
  BY <1>1, <1>2, <1>3, <1>4, FrontMoves
<1>6. Same(f, d, CpuFields \ (Front \cup {"icache", "key_valid"}))
  BY <1>5 DEF FrontFacts
<1>7. d.exec = f.exec /\ d.mem = f.mem /\ d.reg_file = f.reg_file /\ d.copro = f.copro
  BY <1>6 DEF Same, CpuFields, Front
<1>8. Operands(d)
  <2>1. WrittenRegs(d) = WrittenRegs(f)
    BY <1>7 DEF WrittenRegs
  <2>2. Operands(f)
    BY <1>1 DEF MiddleFacts
  <2>3. QED
    BY <2>1, <2>2, <1>7 DEF Operands
<1>9. KeyFirst(d) /\ ReadFrom(d)
  BY <1>5 DEF FrontFacts, KeyFirst
<1>10. QED
  BY <1>5, <1>8, <1>9 DEF State

\* A cycle in which the image is refused.
RefusalFacts(c, d) ==
    /\ d.locked = TRUE /\ d.key_check_failed = TRUE /\ d.key_valid = c.key_valid
    /\ d.exec.valid = FALSE /\ d.mem.valid = FALSE
    /\ d.reg_file = c.reg_file /\ d.retired = c.retired /\ d.copro = c.copro /\ d.data = c.data
    /\ Same(c, d, Front)

LEMMA CycleRefused ==
    ASSUME NEW c, State(c), ImageOK, ~c.key_valid,
           NEW e, e = BackStages(c), NEW f, f = stage_execute(e), NEW d, d = FrontStages(f, FALSE)
    PROVE  State(d) /\ RefusalFacts(c, d)
<1>1. Core(c) /\ FrontEmpty(c) /\ ~c.exec.valid /\ ~c.mem.valid
  BY DEF State, KeyFirst
<1>2. Core(e) /\ BackFacts(c, e) /\ BackIdleFacts(c, e)
  BY <1>1, BackIdle
<1>3. FrontEmpty(e)
  BY <1>1, <1>2 DEF BackIdleFacts, FrontEmpty, Same, Front
<1>4. f = e
  BY <1>3, ExecuteIdle DEF FrontEmpty
<1>5. ~e.key_valid /\ e.key_valid = c.key_valid
  BY <1>2 DEF BackFacts
<1>6. Core(d) /\ RefusedFacts(e, d)
  BY <1>2, <1>3, <1>4, <1>5, FrontRefused
<1>7. Same(e, d, CpuFields \ {"locked", "key_check_failed"})
  BY <1>6 DEF RefusedFacts
<1>8. /\ d.exec = e.exec /\ d.mem = e.mem /\ d.reg_file = e.reg_file /\ d.copro = e.copro
      /\ d.retired = e.retired /\ d.data = e.data /\ d.key_valid = e.key_valid /\ Same(e, d, Front)
  BY <1>7 DEF Same, CpuFields, Front
<1>9. e.reg_file = c.reg_file /\ e.retired = c.retired
  BY <1>1, <1>2 DEF BackFacts, WrittenRegs, WrittenCount
<1>10. e.exec.valid = FALSE /\ e.copro = c.copro /\ e.mem.valid = FALSE /\ e.data = c.data
       /\ Same(c, e, Front)
  BY <1>2 DEF BackFacts, BackIdleFacts
<1>11. Same(c, d, Front)
  BY <1>8, <1>10 DEF Same, Front
<1>12. RefusalFacts(c, d)
  BY <1>5, <1>6, <1>8, <1>9, <1>10, <1>11 DEF RefusedFacts, RefusalFacts
<1>13. FrontEmpty(d)
  BY <1>3, <1>8 DEF FrontEmpty, Same, Front
<1>14. State(d)
  BY <1>6, <1>8, <1>10, <1>13 DEF State, KeyFirst, ReadFrom, Operands, FrontEmpty
<1>15. QED
  BY <1>12, <1>14

-----------------------------------------------------------------------------
(* The invariant, and that the pipeline is never stuck.                      *)

\* How long ago an instruction left the execute stage, by the stage the next one is in.
Progress(c, n) ==
    /\ c.exec.valid => n <= 4
    /\ ~c.exec.valid /\ c.decode.valid => n <= 3
    /\ ~c.exec.valid /\ ~c.decode.valid /\ c.decr.valid => n <= 2
    /\ ~c.exec.valid /\ ~c.decode.valid /\ ~c.decr.valid /\ c.fetch.valid => n <= 1
    /\ \/ c.exec.valid \/ c.decode.valid \/ c.decr.valid \/ c.fetch.valid
       \/ c.fetch.block_addr >= block_of(TextEnd) \/ n = 0

LEMMA ProgressKept ==
    ASSUME NEW c, State(c), ImageOK, NEW n \in Nat, Progress(c, n),
           NEW ok \in BOOLEAN, c.key_valid \/ ok,
           NEW e, e = BackStages(c), NEW f, f = stage_execute(e), NEW d, d = FrontStages(f, ok)
    PROVE  Progress(d, IF d.mem.valid THEN 0 ELSE n + 1)
<1>1. Core(e) /\ Core(f) /\ MiddleFacts(c, e, f)
  BY Middle
<1>2. State(d) /\ FrontFacts(f, d)
  BY CycleGoes
<1>3. Same(f, d, CpuFields \ (Front \cup {"icache", "key_valid"}))
      /\ Same(e, f, CpuFields \ {"exec", "copro", "decode"})
  BY <1>1, <1>2 DEF FrontFacts, MiddleFacts
<1>4. /\ d.mem = e.mem /\ d.exec = f.exec /\ f.decr = e.decr /\ f.fetch = e.fetch
  BY <1>3 DEF Same, CpuFields, Front
<1>5. d.fetch.valid \/ d.fetch.block_addr >= block_of(TextEnd)
  BY <1>2 DEF FrontFacts
<1>6. CASE d.mem.valid
  BY <1>5, <1>6 DEF Progress
<1>7. CASE ~d.mem.valid
  <2>1. ~c.exec.valid
    <3> SUFFICES ASSUME c.exec.valid PROVE FALSE
      OBVIOUS
    <3>1. BackMovesFacts(c, e)
      BY BackMoves DEF State
    <3>2. QED
      BY <3>1, <1>4, <1>7 DEF BackMovesFacts
  <2>2. BackIdleFacts(c, e)
    BY <2>1, BackIdle DEF State
  <2>3. e.decode = c.decode /\ e.decr = c.decr /\ e.fetch = c.fetch
    BY <2>2 DEF BackIdleFacts, Same, Front
  <2>4. ~e.exec.valid
    BY <1>1 DEF MiddleFacts, BackFacts
  <2>5. c.decode.valid => d.exec.valid
    BY <1>1, <1>4, <2>3 DEF MiddleFacts
  <2>6. ~c.decode.valid /\ c.decr.valid => d.decode.valid
    BY <1>1, <1>2, <1>4, <2>3, <2>4 DEF MiddleFacts, FrontFacts
  <2>7. ~c.decode.valid /\ ~c.decr.valid /\ c.fetch.valid => d.decr.valid
    BY <1>2, <1>4, <2>3 DEF FrontFacts
  <2>8. ~c.decode.valid /\ ~c.decr.valid /\ ~c.fetch.valid /\ c.fetch.block_addr >= block_of(TextEnd) =>
            ~d.fetch.valid /\ ~d.decr.valid /\ ~d.decode.valid /\ ~d.exec.valid
    <3>1. ~c.decode.valid => ~d.exec.valid
      BY <1>1, <1>4, <2>3, <2>4 DEF MiddleFacts
    <3>2. QED
      BY <3>1, <1>2, <1>4, <2>3 DEF FrontFacts
  <2>9. CASE c.decode.valid
    BY <2>1, <2>5, <2>9, <1>5, <1>7 DEF Progress
  <2>10. CASE ~c.decode.valid /\ c.decr.valid
    BY <2>1, <2>6, <2>10, <1>5, <1>7 DEF Progress
  <2>11. CASE ~c.decode.valid /\ ~c.decr.valid /\ c.fetch.valid
    BY <2>1, <2>7, <2>11, <1>5, <1>7 DEF Progress
  <2>12. CASE ~c.decode.valid /\ ~c.decr.valid /\ ~c.fetch.valid
    <3>1. CASE n = 0
      BY <3>1, <1>5, <1>7 DEF Progress
    <3>2. CASE n # 0
      <4>1. c.fetch.block_addr >= block_of(TextEnd)
        BY <3>2, <2>1, <2>12 DEF Progress
      <4>2. QED
        BY <4>1, <2>8, <2>12, <1>5 DEF Progress
    <3>3. QED
      BY <3>1, <3>2
  <2>13. QED
    BY <2>9, <2>10, <2>11, <2>12
<1>8. QED
  BY <1>6, <1>7
\* While the top function runs.
Inv ==
    /\ ImageOK
    /\ idle \in Nat
    /\ Running => State(cpu) /\ (~cpu.locked => Progress(cpu, idle))

LEMMA CycleIs ==
    ASSUME Cycle
    PROVE  \E ok \in BOOLEAN :
             /\ cpu.key_valid => ok
             /\ cpu' = FrontStages(stage_execute(BackStages(cpu)), ok)
<1>1. PICK ok \in BOOLEAN :
        /\ cpu.key_valid => ok
        /\ cpu' = LET c1 == stage_writeback([cpu EXCEPT !.wb.valid = FALSE])
                      c2 == IF c1.exec.valid THEN stage_memory(recover(c1)) ELSE c1
                      c3 == stage_execute(c2)
                      c4 == IF c3.decr.valid THEN stage_decode(c3) ELSE stage_decrypt(c3)
                  IN  stage_fetch(c4, ok)
  BY DEF Cycle
<1>2. PICK e : e = BackStages(cpu)
  OBVIOUS
<1>3. e = LET c1 == stage_writeback([cpu EXCEPT !.wb.valid = FALSE])
          IN  IF c1.exec.valid THEN stage_memory(recover(c1)) ELSE c1
  BY <1>2 DEF BackStages, WriteStage
<1>4. cpu' = FrontStages(stage_execute(e), ok)
  BY <1>1, <1>3 DEF FrontStages
<1>5. QED
  BY <1>1, <1>2, <1>4

LEMMA InitState ==
    ASSUME Init
    PROVE  Inv
<1>1. PICK image \in Images : program = image.text /\ encrypted = image.encrypted
  BY DEF Init
<1>2. image \in [text : [TextBlocks -> [Slots -> Instructions]], encrypted : BOOLEAN]
  BY PipelineAssumption
<1>3. ImageOK
  BY <1>1, <1>2 DEF ImageOK, ProgramOK
<1>4. /\ DOMAIN cpu = CpuFields
      /\ cpu.fetch = [valid |-> FALSE, block_addr |-> StartBlock, block_data |-> <<>>]
      /\ cpu.decr = [valid |-> FALSE, block_addr |-> 0, decr_block |-> <<>>, instr_index |-> 0]
      /\ cpu.decode = [valid |-> FALSE]
      /\ cpu.exec = [valid |-> FALSE, instr |-> NOP]
      /\ cpu.mem = [valid |-> FALSE] /\ cpu.wb = [valid |-> FALSE]
  BY DEF Init, CpuFields
<1>5. /\ cpu.reg_file = [r \in Regs |-> 0]
      /\ cpu.copro = NoBlock
      /\ cpu.data = [b \in DataBlocks |-> IF encrypted THEN aes_encrypt_block(loaded(b)) ELSE loaded(b)]
      /\ cpu.icache = [l \in 0 .. ICACHE_LINES - 1 |-> [valid |-> FALSE]]
      /\ cpu.dcache = [l \in 0 .. DCACHE_LINES - 1 |-> [valid |-> FALSE]]
  BY DEF Init
<1>6. /\ FrontEmpty(cpu) /\ cpu.exec.valid = FALSE /\ cpu.mem.valid = FALSE /\ cpu.wb.valid = FALSE
      /\ cpu.fetch.block_addr = StartBlock
  BY <1>4 DEF FrontEmpty
<1>7. Shape(cpu)
  <2>1. FetchShape(cpu.fetch) /\ DecrShape(cpu.decr)
    BY <1>4 DEF FetchShape, DecrShape
  <2>2. StageShape(cpu.decode) /\ StageShape(cpu.exec) /\ StageShape(cpu.mem) /\ StageShape(cpu.wb)
    BY <1>4 DEF StageShape
  <2>3. cpu.reg_file \in [Regs -> Words]
    BY <1>5, Parameters DEF Words
  <2>4. CoproShape(cpu.copro)
    BY <1>5, Parameters DEF NoBlock, CoproShape
  <2>5. /\ cpu.locked \in BOOLEAN /\ cpu.key_valid \in BOOLEAN /\ cpu.key_check_failed \in BOOLEAN
        /\ cpu.retired \in Nat
    BY DEF Init
  <2>6. QED
    BY <1>4, <2>1, <2>2, <2>3, <2>4, <2>5 DEF Shape
<1>8. ICacheOK(cpu.icache)
  <2>1. ASSUME NEW b \in TextBlocks PROVE ~cpu.icache[b % ICACHE_LINES].valid
    <3>1. b % ICACHE_LINES \in 0 .. ICACHE_LINES - 1
      BY TextAligned, InstructionLine DEF TextBlocks
    <3>2. QED
      BY <3>1, <1>5
  <2>2. QED
    BY <2>1, <1>5 DEF ICacheOK
<1>9. DataOK(cpu)
  <2>1. ASSUME NEW b \in DataBlocks PROVE loaded(b) \in [Slots -> Words]
    <3>1. ASSUME NEW s \in Slots PROVE InitialData[b * INSTRS_PER_BLOCK + s] \in Words
      <4>1. DataStart % INSTRS_PER_BLOCK = 0 /\ DataEnd % INSTRS_PER_BLOCK = 0
        BY LayoutAssumption
      <4>2. block_of(DataStart) \in Nat /\ block_of(DataEnd) \in Nat
        BY Parameters, BlockSlot
      <4>3. b \in Nat
        BY <4>2 DEF DataBlocks
      <4>4. b * INSTRS_PER_BLOCK + s \in Nat /\ block_of(b * INSTRS_PER_BLOCK + s) = b
        BY <4>3, WordOf
      <4>5. b * INSTRS_PER_BLOCK + s \in DataWords
        BY <4>1, <4>4, Region, Parameters DEF DataWords, DataBlocks
      <4>6. QED
        BY <4>5, PipelineAssumption
    <3>2. QED
      BY <3>1 DEF loaded
  <2>2. ASSUME encrypted PROVE cpu.data \in [DataBlocks -> [cipher : [Slots -> Words]]]
    BY <2>1, <2>2, <1>5 DEF aes_encrypt_block
  <2>3. ASSUME ~encrypted PROVE cpu.data \in [DataBlocks -> [Slots -> Words]]
    BY <2>1, <2>3, <1>5
  <2>4. ASSUME NEW w \in DataWords PROVE ~dcache_hit(cpu, w)
    <3>1. w % DCACHE_LINES \in 0 .. DCACHE_LINES - 1
      BY DataRegion, CacheLine
    <3>2. QED
      BY <3>1, <1>5 DEF dcache_hit
  <2>5. DOMAIN cpu.dcache = 0 .. DCACHE_LINES - 1
    BY <1>5
  <2>6. QED
    BY <2>2, <2>3, <2>4, <2>5 DEF DataOK
<1>10. Decoded(cpu.decode) /\ Decrypted(cpu.decr) /\ Fetched(cpu.fetch) /\ Linked(cpu)
  BY <1>6, TextAligned, PipelineAssumption, EmptyFront
<1>11. State(cpu)
  <2>1. Core(cpu)
    BY <1>6, <1>7, <1>8, <1>9, <1>10 DEF Core, Passed, Executed
  <2>2. QED
    BY <2>1, <1>6 DEF State, KeyFirst, ReadFrom, Operands, FrontEmpty
<1>12. idle = 0
  BY DEF Init
<1>13. Progress(cpu, idle)
  BY <1>6, <1>12 DEF Progress, FrontEmpty
<1>14. QED
  BY <1>3, <1>11, <1>12, <1>13 DEF Inv
LEMMA CycleKeepsInv ==
    ASSUME Inv, Cycle
    PROVE  Inv'
<1>1. ImageOK /\ idle \in Nat /\ State(cpu) /\ Progress(cpu, idle)
  BY DEF Inv, Cycle
<1>2. ImageOK'
  BY <1>1 DEF Cycle, ImageOK, ProgramOK
<1>3. idle' = IF cpu'.mem.valid THEN 0 ELSE idle + 1
  BY DEF Cycle
<1>4. idle' \in Nat
  BY <1>1, <1>3
<1>5. PICK ok \in BOOLEAN :
        (cpu.key_valid => ok) /\ cpu' = FrontStages(stage_execute(BackStages(cpu)), ok)
  BY CycleIs
<1>6. PICK e : e = BackStages(cpu)
  OBVIOUS
<1>7. PICK f : f = stage_execute(e)
  OBVIOUS
<1>8. PICK d : d = cpu'
  OBVIOUS
<1>9. d = FrontStages(f, ok)
  BY <1>5, <1>6, <1>7, <1>8
<1>10. State(d) /\ (~d.locked => Progress(d, idle'))
  <2>1. CASE cpu.key_valid \/ ok
    <3>1. State(d)
      BY <2>1, <1>1, <1>6, <1>7, <1>9, CycleGoes
    <3>2. Progress(d, IF d.mem.valid THEN 0 ELSE idle + 1)
      BY <2>1, <1>1, <1>6, <1>7, <1>9, ProgressKept
    <3>3. QED
      BY <3>1, <3>2, <1>3, <1>8
  <2>2. CASE ~cpu.key_valid /\ ~ok
    <3>1. ok = FALSE
      BY <2>2
    <3>2. State(d) /\ RefusalFacts(cpu, d)
      BY <2>2, <3>1, <1>1, <1>6, <1>7, <1>9, CycleRefused
    <3>3. QED
      BY <3>2 DEF RefusalFacts
  <2>3. QED
    BY <2>1, <2>2
<1>11. QED
  <2>1. ~cpu.locked' => Progress(cpu, idle)'
    BY <1>8, <1>10 DEF Progress
  <2>2. State(cpu)'
    <3>1. program' = program /\ encrypted' = encrypted
      BY DEF Cycle
    <3>2. QED
      BY <3>1, <1>8, <1>10 DEF State, Core, Operands, KeyFirst, ReadFrom, Executed, Decoded,
           Decrypted, Fetched, ICacheOK, DataOK, InstructionAt
  <2>3. QED
    BY <1>2, <1>4, <2>1, <2>2 DEF Inv
LEMMA ReturnEnds ==
    ASSUME Inv, Return
    PROVE  ~Running'
<1>1. cpu.retired \in Nat
  BY DEF Inv, Return, State, Core, Shape
<1>2. 2 ^ 16 \in Nat /\ 2 ^ 16 > 0
  OBVIOUS
<1>3. cpu.retired % 2 ^ 16 # -1
  <2>1. PICK n \in Nat : n = 2 ^ 16 /\ n > 0
    BY <1>2
  <2>2. cpu.retired % n \in 0 .. n - 1
    BY <1>1, <2>1, Remainder
  <2>3. QED
    BY <2>1, <2>2
<1>4. status'.retired = cpu.retired % 2 ^ 16
  BY DEF Return
<1>5. NotReturned.retired = -1
  BY DEF NotReturned
<1>6. QED
  BY <1>3, <1>4, <1>5 DEF Running

LEMMA Invariant == Spec => []Inv
<1>1. Init => Inv
  BY InitState
<1>2. Inv /\ [Next]_vars => Inv'
  <2> SUFFICES ASSUME Inv, [Next]_vars PROVE Inv'
    OBVIOUS
  <2>1. CASE Cycle
    BY <2>1, CycleKeepsInv
  <2>2. CASE Return
    <3>1. ~Running'
      BY <2>2, ReturnEnds
    <3>2. idle' = idle /\ program' = program /\ encrypted' = encrypted
      BY <2>2 DEF Return
    <3>3. ImageOK' /\ idle' \in Nat
      BY <3>2 DEF Inv, ImageOK, ProgramOK
    <3>4. QED
      BY <3>1, <3>3 DEF Inv
  <2>3. CASE UNCHANGED vars
    <3>1. program' = program /\ encrypted' = encrypted /\ cpu' = cpu /\ idle' = idle /\ status' = status
      BY <2>3 DEF vars
    <3>2. ImageOK' /\ idle' \in Nat
      BY <3>1 DEF Inv, ImageOK, ProgramOK
    <3>3. Running' => Running
      BY <3>1 DEF Running
    <3>4. State(cpu) => State(cpu)'
      BY <3>1 DEF State, Core, Operands, KeyFirst, ReadFrom, Executed, Decoded,
           Decrypted, Fetched, ICacheOK, DataOK, InstructionAt
    <3>5. Progress(cpu, idle) => Progress(cpu, idle)'
      BY <3>1 DEF Progress
    <3>6. QED
      BY <3>1, <3>2, <3>3, <3>4, <3>5 DEF Inv
  <2>4. QED
    BY <2>1, <2>2, <2>3 DEF Next
<1>3. QED
  BY <1>1, <1>2, PTL DEF Spec

\* NeverStuck, for every program and every layout: five stages hold an instruction on its way
\* to memory, a taken branch and a load in front of its consumer cost cycles that one of them
\* accounts for, and an empty front end fetches again at once.
THEOREM AlwaysMoving == Spec => []NeverStuck
<1>1. Inv => NeverStuck
  <2> SUFFICES ASSUME Inv, Running, ~cpu.locked, pc < TextEnd PROVE idle <= 5
    BY DEF NeverStuck, Running
  <2>1. Progress(cpu, idle) /\ idle \in Nat /\ Core(cpu)
    BY DEF Inv, State
  <2>2. CASE cpu.exec.valid \/ cpu.decode.valid \/ cpu.decr.valid \/ cpu.fetch.valid
    BY <2>1, <2>2 DEF Progress
  <2>3. CASE ~(cpu.exec.valid \/ cpu.decode.valid \/ cpu.decr.valid \/ cpu.fetch.valid)
    <3>1. cpu.fetch.block_addr \in Int
      BY <2>1 DEF Core, Fetched
    <3>2. cpu.fetch.block_addr * INSTRS_PER_BLOCK < TextEnd
      BY <2>3 DEF pc, next_word
    <3>3. cpu.fetch.block_addr < block_of(TextEnd)
      <4> SUFFICES ASSUME cpu.fetch.block_addr >= block_of(TextEnd) PROVE FALSE
        BY <3>1, TextAligned
      <4>1. PICK n \in Nat : cpu.fetch.block_addr = block_of(TextEnd) + n
        BY <3>1, TextAligned, cpu.fetch.block_addr - block_of(TextEnd) \in Nat
      <4>2. n * INSTRS_PER_BLOCK \in Nat
        BY Parameters
      <4>3. cpu.fetch.block_addr * INSTRS_PER_BLOCK = TextEnd + n * INSTRS_PER_BLOCK
        BY <4>1, TextAligned, Parameters
      <4>4. QED
        BY <3>2, <4>2, <4>3, Parameters
    <3>4. QED
      BY <3>1, <3>3, <2>1, <2>3, TextAligned DEF Progress
  <2>4. QED
    BY <2>2, <2>3
<1>2. QED
  BY <1>1, Invariant, PTL
-----------------------------------------------------------------------------
(* The path through the program.                                             *)

LEMMA InText ==
    ASSUME NEW w \in TextWords
    PROVE  /\ w \in Nat /\ block_of(w) \in TextBlocks /\ slot_of(w) \in Slots
           /\ w = block_of(w) * INSTRS_PER_BLOCK + slot_of(w)
<1>1. w \in Nat
  BY Parameters DEF TextWords
<1>2. TextStart % INSTRS_PER_BLOCK = 0 /\ TextEnd % INSTRS_PER_BLOCK = 0
  BY LayoutAssumption
<1>3. block_of(w) \in TextBlocks
  BY <1>1, <1>2, Region, Parameters DEF TextWords, TextBlocks
<1>4. QED
  BY <1>1, <1>3, BlockSlot

\* Where the program goes on behind a control instruction that is taken.
Target(w, i) == IF i.op = "J" THEN jump_target(i) ELSE branch_target(w, i)

LEMMA AssembledWord ==
    ASSUME Assembled(program, encrypted), ImageOK, NEW w \in TextWords, NEW i, i = InstructionAt(w)
    PROVE  /\ isControlInstruction(i) => /\ target_block(i, w) >= block_of(TextStart)
                                         /\ target_block(i, w) * INSTRS_PER_BLOCK = Target(w, i)
           /\ i.op \in {"BEQ", "BNE"} /\ target_block(i, w) = block_of(w + 1) => Target(w, i) = w + 1
           /\ i.op = "SW" => encrypted
<1>1. /\ w \in Nat /\ block_of(w) \in TextBlocks /\ slot_of(w) \in Slots
      /\ w = block_of(w) * INSTRS_PER_BLOCK + slot_of(w)
  BY InText
<1>2. i = program[block_of(w)][slot_of(w)] /\ i \in Instructions
  BY <1>1 DEF InstructionAt, ImageOK, ProgramOK
<1>3. /\ isControlInstruction(i) => TextStart <= Target(w, i) /\ slot_of(Target(w, i)) = 0
      /\ i.op \in {"BEQ", "BNE"} /\ block_of(Target(w, i)) = block_of(w + 1) => Target(w, i) = w + 1
      /\ i.op = "SW" => encrypted
  BY <1>1, <1>2 DEF Assembled, Target
<1>4. block_of(Target(w, i)) = target_block(i, w)
  BY DEF Target, target_block
<1>5. Target(w, i) \in Int
  BY <1>1, <1>2, TargetType DEF Target
<1>6. ASSUME isControlInstruction(i)
      PROVE  target_block(i, w) >= block_of(TextStart) /\ target_block(i, w) * INSTRS_PER_BLOCK = Target(w, i)
  <2>1. TextStart <= Target(w, i) /\ slot_of(Target(w, i)) = 0
    BY <1>3, <1>6
  <2>2. Target(w, i) \in Nat
    BY <1>5, <2>1, Parameters
  <2>3. target_block(i, w) * INSTRS_PER_BLOCK = Target(w, i) /\ target_block(i, w) \in Nat
    BY <2>1, <2>2, <1>4, AtBlock
  <2>4. block_of(TextStart) <= block_of(Target(w, i))
    BY <2>1, <2>2, Monotone, Parameters DEF block_of
  <2>5. QED
    BY <2>3, <2>4, <1>4, TextAligned
<1>7. QED
  BY <1>3, <1>4, <1>6

\* The front end follows the prediction: behind an instruction in the pipeline comes the one
\* predicted as its successor.
Path(c) ==
    /\ Reached(c)
    /\ c.decode.valid => Behind(c) = PredictedWord(c.decode)
    /\ c.exec.valid => NextWord(c) = PredictedWord(c.exec)

Successor(x) == IF x.taken_branch THEN Target(x.word_addr, x.instr) ELSE x.word_addr + 1

\* The oldest instruction that has not reached memory, and the one when it has.
Oldest(c) == IF c.exec.valid THEN c.exec.word_addr ELSE NextWord(c)
NextOldest(c) == IF c.exec.valid THEN Successor(c.exec) ELSE NextWord(c)

LEMMA BackPath ==
    ASSUME NEW c, State(c), Path(c), ImageOK, Assembled(program, encrypted), NEW e, e = BackStages(c)
    PROVE  /\ Reached(e) /\ NextWord(e) = NextOldest(c)
           /\ e.decode.valid => Behind(e) = PredictedWord(e.decode)
<1>1. Core(c) /\ Operands(c)
  BY DEF State
<1>2. ASSUME Same(c, e, Front)
      PROVE  /\ Reached(e) /\ NextWord(e) = NextWord(c)
             /\ e.decode.valid => Behind(e) = PredictedWord(e.decode)
  <2>1. e.decode = c.decode /\ e.decr = c.decr /\ e.fetch = c.fetch
    BY <1>2 DEF Same, Front
  <2>2. QED
    BY <2>1 DEF Path, Reached, NextWord, Behind
<1>3. CASE ~c.exec.valid
  <2>1. BackIdleFacts(c, e)
    BY <1>1, <1>3, BackIdle
  <2>2. QED
    BY <2>1, <1>2, <1>3 DEF BackIdleFacts, NextOldest
<1>4. CASE c.exec.valid
  <2>1. BackMovesFacts(c, e)
    BY <1>1, <1>4, BackMoves
  <2> DEFINE i == c.exec.instr
             w == c.exec.word_addr
             a == WrittenRegs(c)[source_rs(i)]
             b == WrittenRegs(c)[source_rt(i)]
             taken == branch_taken(i, a, b)
  <2>2. w \in TextWords /\ i = InstructionAt(w) /\ i \in Instructions
    BY <1>1, <1>4 DEF Core, Executed
  <2>3. ExecutesTo(c.exec, c.exec, a, b, c.exec.copro_before)
    BY <1>1, <1>4 DEF Operands
  <2>4. /\ c.exec.taken_branch <=> taken
        /\ c.exec.control_mispredict <=>
              isControlInstruction(i) /\ ActualBlock(c.exec, a, b) # PredictedBlock(c.exec)
        /\ c.exec.recovery_block_addr = ActualBlock(c.exec, a, b)
    BY <2>3 DEF ExecutesTo
  <2>5. taken => isControlInstruction(i)
    BY DEF branch_taken, isControlInstruction
  <2>6. i.op = "J" => taken
    BY DEF branch_taken
  <2> HIDE DEF taken
  <2>7. /\ isControlInstruction(i) => /\ target_block(i, w) >= block_of(TextStart)
                                      /\ target_block(i, w) * INSTRS_PER_BLOCK = Target(w, i)
        /\ i.op \in {"BEQ", "BNE"} /\ target_block(i, w) = block_of(w + 1) => Target(w, i) = w + 1
        /\ i.op = "SW" => encrypted
    <3> HIDE DEF i, w
    <3>1. QED
      BY <2>2, AssembledWord
  <2>8. isControlInstruction(i) <=> i.op \in {"BEQ", "BNE", "J"}
    BY DEF isControlInstruction
  <2>9. Successor(c.exec) = IF taken THEN Target(w, i) ELSE w + 1
    BY <2>4 DEF Successor
  <2>10. ActualBlock(c.exec, a, b) = IF taken THEN target_block(i, w) ELSE block_of(w + 1)
    BY DEF ActualBlock, taken
  <2>11. PredictedBlock(c.exec) = IF i.op = "J" THEN target_block(i, w) ELSE block_of(w + 1)
    BY DEF PredictedBlock
  <2>12. PredictedWord(c.exec) = IF i.op = "J" THEN target_block(i, w) * INSTRS_PER_BLOCK ELSE w + 1
    BY DEF PredictedWord
  <2> HIDE DEF i, w, a, b
  <2>13. CASE c.exec.control_mispredict
    <3>1. taken /\ i.op # "J" /\ isControlInstruction(i)
      BY <2>4, <2>6, <2>10, <2>11, <2>13
    <3>2. FrontEmpty(e) /\ e.fetch.block_addr = target_block(i, w)
      BY <2>1, <2>4, <2>10, <2>13, <3>1 DEF BackMovesFacts
    <3>3. NextWord(e) = target_block(i, w) * INSTRS_PER_BLOCK
      BY <3>2 DEF NextWord, Behind, FrontEmpty
    <3>4. QED
      BY <3>1, <3>2, <3>3, <2>7, <2>9, <1>4 DEF Reached, NextOldest, FrontEmpty
  <2>14. CASE ~c.exec.control_mispredict
    <3>1. ~Dropped(c)
      BY <2>7 DEF Dropped, i
    <3>2. Same(c, e, Front)
      BY <3>1, <2>1, <2>14 DEF BackMovesFacts
    <3>3. NextWord(c) = PredictedWord(c.exec)
      BY <1>4 DEF Path
    <3>4. PredictedWord(c.exec) = Successor(c.exec)
      <4>1. CASE i.op = "J"
        BY <4>1, <2>6, <2>7, <2>8, <2>9, <2>12
      <4>2. CASE i.op # "J" /\ taken
        <5>1. target_block(i, w) = block_of(w + 1) /\ i.op \in {"BEQ", "BNE"}
          BY <4>2, <2>4, <2>5, <2>8, <2>10, <2>11, <2>14
        <5>2. QED
          BY <5>1, <4>2, <2>7, <2>9, <2>12
      <4>3. CASE i.op # "J" /\ ~taken
        BY <4>3, <2>9, <2>12
      <4>4. QED
        BY <4>1, <4>2, <4>3
    <3>5. QED
      BY <3>2, <3>3, <3>4, <1>2, <1>4 DEF NextOldest
  <2>15. QED
    BY <2>13, <2>14
<1>5. QED
  BY <1>3, <1>4

LEMMA PathKept ==
    ASSUME NEW c, State(c), Path(c), ImageOK, Assembled(program, encrypted),
           NEW ok \in BOOLEAN, c.key_valid \/ ok,
           NEW e, e = BackStages(c), NEW f, f = stage_execute(e), NEW d, d = FrontStages(f, ok)
    PROVE  Path(d) /\ Oldest(d) = NextOldest(c)
<1>1. Core(e) /\ Core(f) /\ MiddleFacts(c, e, f)
  BY Middle
<1>2. State(d) /\ FrontFacts(f, d)
  BY CycleGoes
<1>3. /\ Reached(e) /\ NextWord(e) = NextOldest(c)
      /\ e.decode.valid => Behind(e) = PredictedWord(e.decode)
  BY BackPath
<1>4. Same(f, d, CpuFields \ (Front \cup {"icache", "key_valid"}))
      /\ Same(e, f, CpuFields \ {"exec", "copro", "decode"})
  BY <1>1, <1>2 DEF FrontFacts, MiddleFacts
<1>5. /\ d.exec = f.exec /\ f.decr = e.decr /\ f.fetch = e.fetch
  BY <1>4 DEF Same, CpuFields, Front
<1>6. Reached(f) /\ Behind(f) = Behind(e)
  BY <1>3, <1>5 DEF Reached, Behind
<1>7. AimsAtText(d.decode)
  <2> SUFFICES ASSUME d.decode.valid, d.decode.instr.op = "J"
               PROVE  target_block(d.decode.instr, d.decode.word_addr) >= block_of(TextStart)
    BY DEF AimsAtText
  <2>1. d.decode.word_addr \in TextWords /\ d.decode.instr = InstructionAt(d.decode.word_addr)
    BY <1>2 DEF State, Core, Decoded
  <2>2. isControlInstruction(d.decode.instr)
    BY DEF isControlInstruction
  <2>3. QED
    BY <2>1, <2>2, AssembledWord
<1>8. /\ NextWord(d) = Behind(e)
      /\ d.decode.valid => Behind(d) = PredictedWord(d.decode)
      /\ Reached(d)
  BY <1>2, <1>6, <1>7 DEF FrontFacts
<1>9. CASE e.decode.valid
  <2>1. d.exec.valid = TRUE /\ d.exec.instr = e.decode.instr /\ d.exec.word_addr = e.decode.word_addr
    BY <1>1, <1>5, <1>9 DEF MiddleFacts
  <2>2. PredictedWord(d.exec) = PredictedWord(e.decode)
    BY <2>1 DEF PredictedWord
  <2>3. QED
    BY <2>1, <2>2, <1>3, <1>8, <1>9 DEF Path, Oldest, NextWord
<1>10. CASE ~e.decode.valid
  <2>1. ~d.exec.valid
    BY <1>1, <1>5, <1>10 DEF MiddleFacts, BackFacts
  <2>2. QED
    BY <2>1, <1>3, <1>8, <1>10 DEF Path, Oldest, NextWord
<1>11. QED
  BY <1>9, <1>10
-----------------------------------------------------------------------------
(* What a cycle does to the state the program sees.                          *)

\* committed, pc, plain_data and the coprocessor of CpuPipeline, of given registers.
CommittedOf(c) == IF c.locked THEN c ELSE stage_writeback(c)
PcOf(c) == IF c.locked /\ ~c.key_check_failed THEN c.mem.word_addr ELSE Oldest(c)
DataOf(c) == [x \in DataWords |-> PlainWord(c, x)]
CoproOf(c) == IF c.exec.valid THEN c.exec.copro_before ELSE c.copro

LEMMA CommittedIs ==
    ASSUME NEW c, Shape(c), Passed(c), NEW d, d = CommittedOf(c)
    PROVE  /\ c.locked => d.reg_file = c.reg_file /\ d.retired = c.retired
           /\ ~c.locked => d.reg_file = WrittenRegs(c) /\ d.retired = WrittenCount(c)
<1>1. CASE c.locked
  BY <1>1 DEF CommittedOf
<1>2. CASE ~c.locked /\ ~c.mem.valid
  BY <1>2 DEF CommittedOf, stage_writeback, WrittenRegs, WrittenCount
<1>3. CASE ~c.locked /\ c.mem.valid
  <2> DEFINE i == c.mem.instr
             r == getDestReg(i)
             v == final_val(c.mem)
             nw == [valid |-> TRUE, final_val |-> v, instr |-> i]
  <2>1. d = [c EXCEPT !.reg_file[r] = IF r # 0 THEN v ELSE @,
                      !.retired = IF isWriteInstruction(i) THEN @ + 1 ELSE @,
                      !.wb = nw, !.mem.valid = FALSE]
    BY <1>3 DEF CommittedOf, stage_writeback
  <2>2. i \in Instructions /\ r \in Regs /\ (r # 0 => v = c.mem.mem_read_val)
    BY <1>3, Destination, FinalValue DEF Passed
  <2> HIDE DEF i, r, v, nw
  <2>3. /\ d.reg_file = [c.reg_file EXCEPT ![r] = IF r # 0 THEN v ELSE @]
        /\ d.retired = IF isWriteInstruction(i) THEN c.retired + 1 ELSE c.retired
    BY <2>1 DEF Shape, CpuFields
  <2>4. d.retired = WrittenCount(c)
    BY <2>3, <1>3 DEF WrittenCount, i
  <2>5. d.reg_file = WrittenRegs(c)
    <3>1. c.reg_file \in [Regs -> Words]
      BY DEF Shape
    <3>2. QED
      BY <2>2, <2>3, <3>1, <1>3 DEF WrittenRegs, r, i
  <2>6. QED
    BY <2>4, <2>5, <1>3
<1>4. QED
  BY <1>1, <1>2, <1>3

\* A cycle in which an instruction leaves the execute stage.
StepFacts(c, d) ==
    /\ ~d.key_check_failed
    /\ d.locked <=> Violates(c.exec)
    /\ d.mem.word_addr = c.exec.word_addr
    /\ CommittedOf(d).reg_file =
          IF Violates(c.exec) \/ getDestReg(c.exec.instr) = 0 THEN WrittenRegs(c)
          ELSE [WrittenRegs(c) EXCEPT ![getDestReg(c.exec.instr)] = Result(c)]
    /\ CommittedOf(d).retired =
          IF ~Violates(c.exec) /\ isWriteInstruction(c.exec.instr) THEN WrittenCount(c) + 1 ELSE WrittenCount(c)
    /\ CoproOf(d) = c.copro
    /\ ~Dropped(c) => DataMoves(c, d)

\* A cycle in which none does.
QuietFacts(c, d) ==
    /\ ~d.key_check_failed /\ ~d.locked
    /\ CommittedOf(d).reg_file = WrittenRegs(c) /\ CommittedOf(d).retired = WrittenCount(c)
    /\ CoproOf(d) = c.copro
    /\ d.data = c.data

\* The stages behind the memory stage leave alone what it left.
LEMMA Rest ==
    ASSUME NEW c, State(c), ImageOK, NEW ok \in BOOLEAN, c.key_valid \/ ok,
           NEW e, e = BackStages(c), NEW f, f = stage_execute(e), NEW d, d = FrontStages(f, ok)
    PROVE  /\ d.mem = e.mem /\ d.reg_file = e.reg_file /\ d.retired = e.retired /\ d.locked = e.locked
           /\ d.key_check_failed = e.key_check_failed /\ d.data = e.data
           /\ CoproOf(d) = e.copro
<1>1. Core(e) /\ Core(f) /\ MiddleFacts(c, e, f)
  BY Middle
<1>2. State(d) /\ FrontFacts(f, d)
  BY CycleGoes
<1>3. Same(f, d, CpuFields \ (Front \cup {"icache", "key_valid"}))
      /\ Same(e, f, CpuFields \ {"exec", "copro", "decode"})
  BY <1>1, <1>2 DEF FrontFacts, MiddleFacts
<1>4. /\ d.mem = e.mem /\ d.reg_file = e.reg_file /\ d.retired = e.retired /\ d.locked = e.locked
      /\ d.key_check_failed = e.key_check_failed /\ d.data = e.data
      /\ d.exec = f.exec /\ d.copro = f.copro
  BY <1>3 DEF Same, CpuFields, Front
<1>5. CASE e.decode.valid
  <2>1. f.exec.valid = TRUE /\ f.exec.copro_before = e.copro
    BY <1>1, <1>5 DEF MiddleFacts
  <2>2. QED
    BY <2>1, <1>4 DEF CoproOf
<1>6. CASE ~e.decode.valid
  <2>1. f = e /\ e.exec.valid = FALSE
    BY <1>1, <1>6 DEF MiddleFacts, BackFacts
  <2>2. QED
    BY <2>1, <1>4 DEF CoproOf
<1>7. QED
  BY <1>5, <1>6

LEMMA StepIs ==
    ASSUME NEW c, State(c), ImageOK, NEW ok \in BOOLEAN, c.key_valid \/ ok,
           ~c.locked, ~c.key_check_failed, c.exec.valid,
           NEW e, e = BackStages(c), NEW f, f = stage_execute(e), NEW d, d = FrontStages(f, ok)
    PROVE  StepFacts(c, d)
<1>1. Core(c)
  BY DEF State
<1>2. BackFacts(c, e) /\ BackMovesFacts(c, e) /\ (~Dropped(c) => DataMoves(c, e))
  BY <1>1, BackMoves
<1>3. /\ d.mem = e.mem /\ d.reg_file = e.reg_file /\ d.retired = e.retired /\ d.locked = e.locked
      /\ d.key_check_failed = e.key_check_failed /\ d.data = e.data
      /\ CoproOf(d) = e.copro
  BY Rest
<1>4. State(d)
  BY CycleGoes
<1>5. Shape(d) /\ Passed(d)
  BY <1>4 DEF State, Core
<1>6. /\ d.mem.valid = TRUE /\ d.mem.instr = c.exec.instr /\ d.mem.word_addr = c.exec.word_addr
      /\ ~Violates(c.exec) => d.mem.mem_read_val = Result(c)
      /\ d.reg_file = WrittenRegs(c) /\ d.retired = WrittenCount(c)
  BY <1>2, <1>3 DEF BackFacts, BackMovesFacts
<1>7. d.locked <=> Violates(c.exec)
  BY <1>2, <1>3 DEF BackMovesFacts
<1>8. d.locked => CommittedOf(d).reg_file = WrittenRegs(c) /\ CommittedOf(d).retired = WrittenCount(c)
  BY <1>5, <1>6, CommittedIs
<1>9. ~d.locked => CommittedOf(d).reg_file = WrittenRegs(d) /\ CommittedOf(d).retired = WrittenCount(d)
  BY <1>5, CommittedIs
<1>10. ~Violates(c.exec) =>
         WrittenRegs(d) = IF getDestReg(c.exec.instr) = 0 THEN WrittenRegs(c)
                          ELSE [WrittenRegs(c) EXCEPT ![getDestReg(c.exec.instr)] = Result(c)]
  <2>1. WrittenRegs(d) = IF getDestReg(c.exec.instr) # 0
                         THEN [d.reg_file EXCEPT ![getDestReg(c.exec.instr)] = d.mem.mem_read_val]
                         ELSE d.reg_file
    BY <1>6 DEF WrittenRegs
  <2>2. QED
    BY <2>1, <1>6
<1>11. WrittenCount(d) = IF isWriteInstruction(c.exec.instr) THEN WrittenCount(c) + 1 ELSE WrittenCount(c)
  <2>1. WrittenCount(d) = IF isWriteInstruction(c.exec.instr) THEN d.retired + 1 ELSE d.retired
    BY <1>6 DEF WrittenCount
  <2>2. QED
    BY <2>1, <1>6
<1>12. ~Dropped(c) => DataMoves(c, d)
  BY <1>2, <1>3 DEF DataMoves, PlainWord
<1>13. ~d.key_check_failed /\ CoproOf(d) = c.copro
  BY <1>2, <1>3 DEF BackFacts
<1>14. QED
  BY <1>6, <1>7, <1>8, <1>9, <1>10, <1>11, <1>12, <1>13 DEF StepFacts

LEMMA QuietIs ==
    ASSUME NEW c, State(c), ImageOK, NEW ok \in BOOLEAN, c.key_valid \/ ok,
           ~c.locked, ~c.key_check_failed, ~c.exec.valid,
           NEW e, e = BackStages(c), NEW f, f = stage_execute(e), NEW d, d = FrontStages(f, ok)
    PROVE  QuietFacts(c, d)
<1>1. Core(c)
  BY DEF State
<1>2. BackFacts(c, e) /\ BackIdleFacts(c, e)
  BY <1>1, BackIdle
<1>3. /\ d.mem = e.mem /\ d.reg_file = e.reg_file /\ d.retired = e.retired /\ d.locked = e.locked
      /\ d.key_check_failed = e.key_check_failed /\ d.data = e.data
      /\ CoproOf(d) = e.copro
  BY Rest
<1>4. State(d)
  BY CycleGoes
<1>5. Shape(d) /\ Passed(d)
  BY <1>4 DEF State, Core
<1>6. d.mem.valid = FALSE /\ d.reg_file = WrittenRegs(c) /\ d.retired = WrittenCount(c)
  BY <1>2, <1>3 DEF BackFacts, BackIdleFacts
<1>7. CommittedOf(d).reg_file = WrittenRegs(c) /\ CommittedOf(d).retired = WrittenCount(c)
  <2>1. WrittenRegs(d) = d.reg_file /\ WrittenCount(d) = d.retired
    BY <1>6 DEF WrittenRegs, WrittenCount
  <2>2. QED
    BY <2>1, <1>5, <1>6, CommittedIs
<1>8. QED
  BY <1>2, <1>3, <1>7 DEF QuietFacts, BackFacts, BackIdleFacts
-----------------------------------------------------------------------------
(* The refinement.                                                           *)

\* The instruction set is the same one on both sides.
LEMMA SameSet ==
    ASSUME NEW i, NEW a, NEW b, NEW k, NEW w
    PROVE  /\ Reference!block_of(w) = block_of(w) /\ Reference!slot_of(w) = slot_of(w)
           /\ Reference!isWriteInstruction(i) <=> isWriteInstruction(i)
           /\ Reference!isControlInstruction(i) <=> isControlInstruction(i)
           /\ Reference!getDestReg(i) = getDestReg(i)
           /\ Reference!source_rs(i) = source_rs(i) /\ Reference!source_rt(i) = source_rt(i)
           /\ Reference!jump_target(i) = jump_target(i) /\ Reference!branch_target(w, i) = branch_target(w, i)
           /\ Reference!alu(i, a, b, k) = alu(i, a, b, k)
           /\ Reference!branch_taken(i, a, b) <=> branch_taken(i, a, b)
           /\ Reference!translateDataAddress(w) = translateDataAddress(w)
           /\ Reference!secure_is_data_word(w) <=> secure_is_data_word(w)
           /\ Reference!NoWord = NoWord /\ Reference!NoBlock = NoBlock
<1>1. Reference!block_of(w) = block_of(w) /\ Reference!slot_of(w) = slot_of(w)
  BY DEF Reference!block_of, block_of, Reference!slot_of, slot_of
<1>2. /\ Reference!isWriteInstruction(i) <=> isWriteInstruction(i)
      /\ Reference!isControlInstruction(i) <=> isControlInstruction(i)
  BY DEF Reference!isWriteInstruction, isWriteInstruction, Reference!isControlInstruction, isControlInstruction,
         Reference!RWriteFuncts, RWriteFuncts
<1>3. Reference!getDestReg(i) = getDestReg(i)
  BY DEF Reference!getDestReg, getDestReg, Reference!RWriteFuncts, RWriteFuncts
<1>4. Reference!source_rs(i) = source_rs(i) /\ Reference!source_rt(i) = source_rt(i)
  BY DEF Reference!source_rs, source_rs, Reference!source_rt, source_rt
<1>5. Reference!jump_target(i) = jump_target(i)
  BY DEF Reference!jump_target, jump_target
<1>6. Reference!branch_target(w, i) = branch_target(w, i)
  BY DEF Reference!branch_target, branch_target
<1>7. Reference!alu(i, a, b, k) = alu(i, a, b, k)
  BY DEF Reference!alu, alu, Reference!aes_word, aes_word
<1>8. Reference!branch_taken(i, a, b) <=> branch_taken(i, a, b)
  BY DEF Reference!branch_taken, branch_taken
<1>9. Reference!translateDataAddress(w) = translateDataAddress(w) /\ Reference!NoWord = NoWord
  BY DEF Reference!translateDataAddress, translateDataAddress, Reference!NoWord, NoWord
<1>10. Reference!secure_is_data_word(w) <=> secure_is_data_word(w)
  BY DEF Reference!secure_is_data_word, secure_is_data_word
<1>11. Reference!NoBlock = NoBlock
  BY DEF Reference!NoBlock, NoBlock
<1>12. QED
  BY <1>1, <1>2, <1>3, <1>4, <1>5, <1>6, <1>7, <1>8, <1>9, <1>10, <1>11

LEMMA MapIs ==
    /\ pc = PcOf(cpu) /\ committed = CommittedOf(cpu) /\ plain_data = DataOf(cpu)
<1>1. pc = PcOf(cpu)
  BY DEF pc, next_word, PcOf, Oldest, NextWord, Behind
<1>2. committed = CommittedOf(cpu)
  BY DEF committed, CommittedOf
<1>3. plain_data = DataOf(cpu)
  <2>1. ASSUME NEW x \in DataWords
        PROVE  (IF encrypted THEN secure_read_encrypted_data_word(cpu, x)
                ELSE cpu.data[block_of(x)][slot_of(x)]) = PlainWord(cpu, x)
    BY DEF secure_read_encrypted_data_word, aes_decrypt_block, PlainWord
  <2>2. QED
    BY <2>1 DEF plain_data, DataOf
<1>4. QED
  BY <1>1, <1>2, <1>3

\* The same of the next state.
LEMMA MapIsNext ==
    ASSUME NEW d, d = cpu', encrypted' = encrypted
    PROVE  /\ pc' = PcOf(d) /\ committed' = CommittedOf(d) /\ plain_data' = DataOf(d)
<1>1. pc' = PcOf(d)
  BY DEF pc, next_word, PcOf, Oldest, NextWord, Behind
<1>2. committed' = CommittedOf(d)
  BY DEF committed, CommittedOf
<1>3. plain_data' = DataOf(d)
  <2>1. ASSUME NEW x \in DataWords
        PROVE  (IF encrypted THEN secure_read_encrypted_data_word(d, x)
                ELSE d.data[block_of(x)][slot_of(x)]) = PlainWord(d, x)
    BY DEF secure_read_encrypted_data_word, aes_decrypt_block, PlainWord
  <2>2. plain_data' = [x \in DataWords |-> IF encrypted THEN secure_read_encrypted_data_word(d, x)
                                           ELSE d.data[block_of(x)][slot_of(x)]]
    BY DEF plain_data
  <2>3. QED
    BY <2>1, <2>2 DEF DataOf
<1>4. QED
  BY <1>1, <1>2, <1>3

PathInv == Running => Path(cpu)

\* The variables of the program in a cycle's first and second state.
LEMMA QuietStutters ==
    ASSUME Inv, PathInv, Assembled(program, encrypted), Cycle, ~cpu.exec.valid
    PROVE  UNCHANGED Reference!vars
<1>1. /\ ImageOK /\ State(cpu) /\ Path(cpu) /\ ~cpu.locked /\ ~cpu.key_check_failed
      /\ status = NotReturned /\ status' = status /\ program' = program /\ encrypted' = encrypted
  BY DEF Inv, PathInv, Cycle, Running
<1>2. PICK ok \in BOOLEAN :
        (cpu.key_valid => ok) /\ cpu' = FrontStages(stage_execute(BackStages(cpu)), ok)
  BY CycleIs
<1>3. PICK c : c = cpu
  OBVIOUS
<1>4. PICK e : e = BackStages(c)
  OBVIOUS
<1>5. PICK f : f = stage_execute(e)
  OBVIOUS
<1>6. PICK d : d = cpu'
  OBVIOUS
<1>7. d = FrontStages(f, ok)
  BY <1>2, <1>3, <1>4, <1>5, <1>6
<1>8. /\ State(c) /\ Path(c) /\ ~c.locked /\ ~c.key_check_failed /\ ~c.exec.valid
      /\ Shape(c) /\ Passed(c)
  BY <1>1, <1>3 DEF State, Core
<1>9. CommittedOf(c).reg_file = WrittenRegs(c) /\ CommittedOf(c).retired = WrittenCount(c)
  BY <1>8, CommittedIs
<1>10. /\ PcOf(d) = PcOf(c)
       /\ CommittedOf(d).reg_file = CommittedOf(c).reg_file
       /\ CommittedOf(d).retired = CommittedOf(c).retired
       /\ CoproOf(d) = CoproOf(c) /\ d.data = c.data
       /\ ~(d.locked /\ ~d.key_check_failed)
  <2>1. CASE c.key_valid \/ ok
    <3>1. QuietFacts(c, d)
      BY <2>1, <1>1, <1>4, <1>5, <1>7, <1>8, QuietIs
    <3>2. Oldest(d) = NextOldest(c)
      BY <2>1, <1>1, <1>4, <1>5, <1>7, <1>8, PathKept
    <3>3. Oldest(d) = Oldest(c)
      BY <3>2, <1>8 DEF Oldest, NextOldest
    <3>4. QED
      BY <3>1, <3>3, <1>8, <1>9 DEF QuietFacts, PcOf, CoproOf
  <2>2. CASE ~c.key_valid /\ ~ok
    <3>1. ok = FALSE
      BY <2>2
    <3>2. RefusalFacts(c, d) /\ State(d)
      BY <2>2, <3>1, <1>1, <1>4, <1>5, <1>7, <1>8, CycleRefused
    <3>3. ~c.mem.valid
      BY <2>2, <1>8 DEF State, KeyFirst
    <3>4. WrittenRegs(c) = c.reg_file /\ WrittenCount(c) = c.retired
      BY <3>3 DEF WrittenRegs, WrittenCount
    <3>5. CommittedOf(d) = d
      BY <3>2 DEF CommittedOf, RefusalFacts
    <3>6. d.fetch = c.fetch /\ d.decr = c.decr /\ d.decode = c.decode
      BY <3>2 DEF RefusalFacts, Same, Front
    <3>7. Oldest(d) = Oldest(c)
      BY <3>2, <3>6, <1>8 DEF RefusalFacts, Oldest, NextWord, Behind
    <3>8. QED
      BY <3>2, <3>4, <3>5, <3>7, <1>8, <1>9 DEF RefusalFacts, PcOf, CoproOf
  <2>3. QED
    BY <2>1, <2>2
<1>11. DataOf(d) = DataOf(c)
  BY <1>10 DEF DataOf, PlainWord
<1>12. pc = PcOf(c) /\ committed = CommittedOf(c) /\ plain_data = DataOf(c)
  BY <1>3, MapIs
<1>13. pc' = PcOf(d) /\ committed' = CommittedOf(d) /\ plain_data' = DataOf(d)
  BY <1>1, <1>6, MapIsNext
<1>14. pc' = pc /\ plain_data' = plain_data
  BY <1>10, <1>11, <1>12, <1>13
<1>15. committed'.reg_file = committed.reg_file /\ committed'.retired = committed.retired
  BY <1>10, <1>12, <1>13
<1>16. (IF status = NotReturned /\ cpu.exec.valid THEN cpu.exec.copro_before ELSE cpu.copro)'
       = IF status = NotReturned /\ cpu.exec.valid THEN cpu.exec.copro_before ELSE cpu.copro
  BY <1>1, <1>3, <1>6, <1>10 DEF CoproOf
<1>17. (cpu.locked /\ ~cpu.key_check_failed)' = (cpu.locked /\ ~cpu.key_check_failed)
  BY <1>1, <1>3, <1>6, <1>10
<1>18. QED
  BY <1>1, <1>14, <1>15, <1>16, <1>17 DEF Reference!vars
\* The result of an instruction of each kind.
LEMMA Kinds ==
    ASSUME NEW i \in Instructions
    PROVE  /\ i.op = "LW" => isWriteInstruction(i) /\ ~isControlInstruction(i)
           /\ i.op = "SW" => ~isWriteInstruction(i) /\ ~isControlInstruction(i) /\ getDestReg(i) = 0
           /\ isControlInstruction(i) \/ i.op = "NOP" =>
                 ~isWriteInstruction(i) /\ i.op \notin {"LW", "SW", "AESENC"} /\ getDestReg(i) = 0
           /\ i.op = "AESENC" => isWriteInstruction(i)
           /\ isWriteInstruction(i) \/ i.op = "SW" \/ isControlInstruction(i) \/ i.op = "NOP"
  BY DEF Instructions, isWriteInstruction, isControlInstruction, getDestReg, RWriteFuncts

LEMMA StepIsInstruction ==
    ASSUME Inv, PathInv, Assembled(program, encrypted), Cycle, cpu.exec.valid
    PROVE  Reference!Next
<1>1. /\ ImageOK /\ State(cpu) /\ Path(cpu) /\ ~cpu.locked /\ ~cpu.key_check_failed
      /\ status = NotReturned /\ status' = status /\ program' = program /\ encrypted' = encrypted
  BY DEF Inv, PathInv, Cycle, Running
<1>2. PICK ok \in BOOLEAN :
        (cpu.key_valid => ok) /\ cpu' = FrontStages(stage_execute(BackStages(cpu)), ok)
  BY CycleIs
<1>3. PICK c : c = cpu
  OBVIOUS
<1>4. PICK e : e = BackStages(c)
  OBVIOUS
<1>5. PICK f : f = stage_execute(e)
  OBVIOUS
<1>6. PICK d : d = cpu'
  OBVIOUS
<1>7. d = FrontStages(f, ok)
  BY <1>2, <1>3, <1>4, <1>5, <1>6
<1>8. /\ State(c) /\ Path(c) /\ ~c.locked /\ ~c.key_check_failed /\ c.exec.valid
      /\ Shape(c) /\ Passed(c) /\ Operands(c) /\ Executed(c.exec) /\ DataOK(c)
  BY <1>1, <1>3 DEF State, Core
<1>9. c.key_valid \/ ok
  BY <1>8 DEF State, KeyFirst
<1>10. StepFacts(c, d)
  BY <1>1, <1>4, <1>5, <1>7, <1>8, <1>9, StepIs
<1>11. Oldest(d) = Successor(c.exec)
  <2>1. Oldest(d) = NextOldest(c)
    BY <1>1, <1>4, <1>5, <1>7, <1>8, <1>9, PathKept
  <2>2. QED
    BY <2>1, <1>8 DEF NextOldest
<1>12. CommittedOf(c).reg_file = WrittenRegs(c) /\ CommittedOf(c).retired = WrittenCount(c)
  BY <1>8, CommittedIs
<1>13. pc = PcOf(c) /\ committed = CommittedOf(c) /\ plain_data = DataOf(c)
  BY <1>3, MapIs
<1>14. pc' = PcOf(d) /\ committed' = CommittedOf(d) /\ plain_data' = DataOf(d)
  BY <1>1, <1>6, MapIsNext
<1> DEFINE i == c.exec.instr
           w == c.exec.word_addr
           regs == WrittenRegs(c)
           a == regs[source_rs(i)]
           b == regs[source_rt(i)]
           k == c.exec.copro_before
           res == c.exec.alu_result
           t == translateDataAddress(res)
           Copro == IF status = NotReturned /\ cpu.exec.valid THEN cpu.exec.copro_before ELSE cpu.copro
           Locked == cpu.locked /\ ~cpu.key_check_failed
<1>15. w \in TextWords /\ i = InstructionAt(w) /\ i \in Instructions /\ res \in Words
  BY <1>8 DEF Executed
<1>16. /\ res = alu(i, a, b, k) /\ c.exec.rt_forward_val = b
       /\ c.exec.taken_branch <=> branch_taken(i, a, b)
       /\ c.copro = IF i.op = "AESENC" THEN [rs |-> a, rt |-> b] ELSE k
  BY <1>8 DEF Operands, ExecutesTo
\* Before the cycle.
<1>17. pc = w /\ committed.reg_file = regs /\ committed.retired = WrittenCount(c)
  BY <1>8, <1>12, <1>13 DEF PcOf, Oldest
<1>18. Copro = k /\ ~Locked
  BY <1>1, <1>3, <1>8
<1>19. Reference!instr = i
  BY <1>15, <1>17, SameSet DEF Reference!instr, InstructionAt
<1>20. Reference!rs_val = a /\ Reference!rt_val = b
  BY <1>17, <1>19, SameSet DEF Reference!rs_val, Reference!rt_val
<1>21. Reference!result = res
  BY <1>16, <1>18, <1>19, <1>20, SameSet DEF Reference!result
<1>22. Reference!word_addr = t
  BY <1>21, SameSet DEF Reference!word_addr
<1>23. Reference!Running
  BY <1>1, <1>15, <1>17, <1>18, Parameters DEF Reference!Running, TextWords
\* Behind it.
<1>24. Violates(c.exec) <=> i.op \in {"LW", "SW"} /\ t # NoWord /\ ~secure_is_data_word(t)
  BY DEF Violates, Accesses
<1>25. pc' = IF Violates(c.exec) THEN w ELSE IF branch_taken(i, a, b) THEN Target(w, i) ELSE w + 1
  BY <1>10, <1>11, <1>14, <1>16 DEF StepFacts, PcOf, Successor
<1>26. committed'.reg_file = IF Violates(c.exec) \/ getDestReg(i) = 0 THEN regs
                             ELSE [regs EXCEPT ![getDestReg(i)] = Result(c)]
  BY <1>10, <1>14 DEF StepFacts
<1>27. committed'.retired = IF ~Violates(c.exec) /\ isWriteInstruction(i)
                            THEN WrittenCount(c) + 1 ELSE WrittenCount(c)
  BY <1>10, <1>14 DEF StepFacts
<1>28. Copro' = c.copro
  BY <1>1, <1>6, <1>10 DEF StepFacts, CoproOf
<1>29. Locked' <=> Violates(c.exec)
  BY <1>6, <1>10 DEF StepFacts
<1>30. plain_data' = [x \in DataWords |-> IF i.op = "SW" /\ x = t THEN b ELSE plain_data[x]]
  <2>1. i.op = "SW" => encrypted
    <3> HIDE DEF i, w
    <3>1. QED
      BY <1>1, <1>15, AssembledWord
  <2>2. DataMoves(c, d)
    BY <2>1, <1>10 DEF StepFacts, Dropped
  <2>3. ASSUME NEW x \in DataWords
        PROVE  PlainWord(d, x) = IF i.op = "SW" /\ x = t THEN b ELSE plain_data[x]
    BY <2>2, <1>13, <1>16 DEF DataMoves, DataOf
  <2>4. QED
    BY <2>3, <1>14 DEF DataOf
<1>31. plain_data = [x \in DataWords |-> plain_data[x]]
  BY <1>13 DEF DataOf
<1>32. secure_is_data_word(t) => t \in DataWords
  <2>1. t \in Int
    BY <1>15, Translated
  <2>2. QED
    BY <2>1, Parameters DEF secure_is_data_word, DataWords
<1>33. Result(c) = IF i.op # "LW" THEN res ELSE IF t = NoWord THEN 0 ELSE PlainWord(c, t)
  BY DEF Result
<1>34. \A x \in DataWords : plain_data[x] = PlainWord(c, x)
  BY <1>13 DEF DataOf
<1>35. i.op # "SW" => plain_data' = plain_data
  BY <1>30, <1>31
<1>36. branch_taken(i, a, b) => isControlInstruction(i)
  BY DEF branch_taken, isControlInstruction
<1>37. /\ Reference!isWriteInstruction(i) <=> isWriteInstruction(i)
       /\ Reference!isControlInstruction(i) <=> isControlInstruction(i)
       /\ Reference!getDestReg(i) = getDestReg(i)
       /\ Reference!secure_is_data_word(t) <=> secure_is_data_word(t)
       /\ Reference!NoWord = NoWord
       /\ Reference!jump_target(i) = jump_target(i)
       /\ Reference!branch_target(w, i) = branch_target(w, i)
       /\ Reference!branch_taken(i, a, b) <=> branch_taken(i, a, b)
  BY SameSet
<1>38. status # NotReturned <=> FALSE
  BY <1>1
<1> HIDE DEF i, w, regs, a, b, k, res, t
<1>39. CASE Violates(c.exec)
  <2>1. i.op \in {"LW", "SW"} /\ t # NoWord /\ ~secure_is_data_word(t)
    BY <1>24, <1>39
  <2>2. ~isControlInstruction(i) /\ i.op # "AESENC"
    BY <2>1, <1>15, Kinds
  <2>3. pc' = pc
    BY <1>17, <1>25, <1>39
  <2>4. committed'.reg_file = committed.reg_file /\ committed'.retired = committed.retired
    BY <1>17, <1>26, <1>27, <1>39
  <2>5. plain_data' = plain_data
    <3>1. \A x \in DataWords : x # t
      BY <2>1, Parameters DEF DataWords, secure_is_data_word
    <3>2. QED
      BY <3>1, <1>30, <1>31
  <2>6. Copro' = Copro
    BY <2>2, <1>16, <1>18, <1>28
  <2>7. Locked'
    BY <1>29, <1>39
  <2>8. Reference!Violation
    BY <2>1, <2>3, <2>4, <2>5, <2>6, <2>7, <1>1, <1>19, <1>22, <1>23, <1>37 DEF Reference!Violation
  <2>9. QED
    BY <2>8 DEF Reference!Next
<1>40. CASE ~Violates(c.exec) /\ i.op = "LW"
  <2>1. t = NoWord \/ secure_is_data_word(t)
    BY <1>24, <1>40
  <2>2. isWriteInstruction(i) /\ ~isControlInstruction(i)
    BY <1>15, <1>40, Kinds
  <2>3. pc' = pc + 1
    BY <2>2, <1>17, <1>25, <1>36, <1>40
  <2>4. Result(c) = IF t = NoWord THEN 0 ELSE plain_data[t]
    BY <2>1, <1>32, <1>33, <1>34, <1>40
  <2>5. committed'.reg_file = IF getDestReg(i) = 0 THEN committed.reg_file
                              ELSE [committed.reg_file EXCEPT ![getDestReg(i)] = Result(c)]
    BY <1>17, <1>26, <1>40
  <2>6. committed'.retired = committed.retired + 1
    BY <2>2, <1>17, <1>27, <1>40
  <2>7. Copro' = Copro /\ plain_data' = plain_data
    BY <1>16, <1>18, <1>28, <1>35, <1>40
  <2>8. Locked' = Locked
    BY <1>18, <1>29, <1>40
  <2>9. Reference!SetReg(IF t = NoWord THEN 0 ELSE plain_data[t])
    BY <2>4, <2>5, <2>6, <1>19, <1>37 DEF Reference!SetReg
  <2>10. Reference!Load
    BY <2>1, <2>3, <2>7, <2>8, <2>9, <1>1, <1>19, <1>22, <1>23, <1>37, <1>40 DEF Reference!Load
  <2>11. QED
    BY <2>10 DEF Reference!Next
<1>41. CASE ~Violates(c.exec) /\ i.op = "SW"
  <2>1. t = NoWord \/ secure_is_data_word(t)
    BY <1>24, <1>41
  <2>2. ~isWriteInstruction(i) /\ ~isControlInstruction(i) /\ getDestReg(i) = 0
    BY <1>15, <1>41, Kinds
  <2>3. pc' = pc + 1
    BY <2>2, <1>17, <1>25, <1>36, <1>41
  <2>4. committed'.reg_file = committed.reg_file /\ committed'.retired = committed.retired
    BY <2>2, <1>17, <1>26, <1>27, <1>41
  <2>5. Copro' = Copro
    BY <1>16, <1>18, <1>28, <1>41
  <2>6. plain_data' = IF t = NoWord THEN plain_data ELSE [plain_data EXCEPT ![t] = b]
    <3>1. CASE t = NoWord
      <4>1. \A x \in DataWords : x # t
        BY <3>1, DataRegion DEF NoWord
      <4>2. QED
        BY <4>1, <3>1, <1>30, <1>31
    <3>2. CASE t # NoWord
      <4>1. t \in DataWords
        BY <3>2, <2>1, <1>32
      <4>2. plain_data' = [x \in DataWords |-> IF x = t THEN b ELSE plain_data[x]]
        BY <1>30, <1>41
      <4>3. QED
        BY <4>1, <4>2, <3>2, <1>31
    <3>3. QED
      BY <3>1, <3>2
  <2>7. Locked' = Locked
    BY <1>18, <1>29, <1>41
  <2>8. Reference!Store
    BY <2>1, <2>3, <2>4, <2>5, <2>6, <2>7, <1>1, <1>19, <1>20, <1>22, <1>23, <1>37, <1>41
    DEF Reference!Store
  <2>9. QED
    BY <2>8 DEF Reference!Next
<1>42. CASE isWriteInstruction(i) /\ i.op # "LW"
  <2>1. ~isControlInstruction(i) /\ i.op # "SW" /\ i.op # "NOP"
    BY <1>15, <1>42, Kinds
  <2>2. ~Violates(c.exec)
    BY <2>1, <1>24, <1>42
  <2>3. pc' = pc + 1
    BY <2>1, <2>2, <1>17, <1>25, <1>36
  <2>4. Result(c) = res
    BY <1>33, <1>42
  <2>5. committed'.reg_file = IF getDestReg(i) = 0 THEN committed.reg_file
                              ELSE [committed.reg_file EXCEPT ![getDestReg(i)] = res]
    BY <2>2, <2>4, <1>17, <1>26
  <2>6. committed'.retired = committed.retired + 1
    BY <2>2, <1>17, <1>27, <1>42
  <2>7. Copro' = IF i.op = "AESENC" THEN [rs |-> a, rt |-> b] ELSE Copro
    BY <1>16, <1>18, <1>28
  <2>8. Locked' = Locked /\ plain_data' = plain_data
    BY <2>1, <2>2, <1>18, <1>29, <1>35
  <2>9. Reference!SetReg(Reference!result)
    BY <2>5, <2>6, <1>19, <1>21, <1>37 DEF Reference!SetReg
  <2>10. Reference!Compute
    BY <2>3, <2>7, <2>8, <2>9, <1>1, <1>19, <1>20, <1>23, <1>37, <1>42 DEF Reference!Compute
  <2>11. QED
    BY <2>10 DEF Reference!Next
<1>43. CASE isControlInstruction(i) \/ i.op = "NOP"
  <2>1. ~isWriteInstruction(i) /\ i.op \notin {"LW", "SW", "AESENC"} /\ getDestReg(i) = 0
    BY <1>15, <1>43, Kinds
  <2>2. ~Violates(c.exec)
    BY <2>1, <1>24
  <2>3. pc' = IF branch_taken(i, a, b) THEN Target(w, i) ELSE pc + 1
    BY <2>2, <1>17, <1>25
  <2>4. committed'.reg_file = committed.reg_file /\ committed'.retired = committed.retired
    BY <2>1, <1>17, <1>26, <1>27
  <2>5. Copro' = Copro /\ plain_data' = plain_data
    BY <2>1, <1>16, <1>18, <1>28, <1>35
  <2>6. Locked' = Locked
    BY <2>2, <1>18, <1>29
  <2>7. i.op = "J" => branch_taken(i, a, b)
    BY DEF branch_taken
  <2>8. pc' = CASE i.op = "J" -> jump_target(i)
                [] i.op # "J" /\ branch_taken(i, a, b) -> branch_target(pc, i)
                [] OTHER -> pc + 1
    BY <2>3, <2>7, <1>17 DEF Target
  <2>9. Reference!Control
    BY <2>4, <2>5, <2>6, <2>8, <1>1, <1>17, <1>19, <1>20, <1>23, <1>37, <1>43 DEF Reference!Control
  <2>10. QED
    BY <2>9 DEF Reference!Next
<1>44. QED
  BY <1>15, <1>39, <1>40, <1>41, <1>42, <1>43, Kinds
LEMMA ReturnStops ==
    ASSUME Inv, Return
    PROVE  Reference!Stop
<1>1. State(cpu) /\ status = NotReturned /\ status' # NotReturned
  BY ReturnEnds DEF Inv, Return, Running
<1>2. Shape(cpu) /\ Passed(cpu)
  BY <1>1 DEF State, Core
<1>3. program' = program /\ encrypted' = encrypted
  BY DEF Return
<1>4. PICK failed \in BOOLEAN :
        /\ cpu' = [cpu EXCEPT !.key_check_failed = failed, !.key_valid = FALSE, !.copro = NoBlock]
        /\ cpu.locked => failed = cpu.key_check_failed
  <2>1. PICK resealed \in BOOLEAN :
          LET reseals == cpu.key_valid /\ ~cpu.key_check_failed /\ ~cpu.locked
              failed == cpu.key_check_failed \/ (reseals /\ ~resealed)
          IN  cpu' = [cpu EXCEPT !.key_check_failed = failed, !.key_valid = FALSE, !.copro = NoBlock]
    BY DEF Return
  <2> DEFINE g == cpu.key_check_failed \/ ((cpu.key_valid /\ ~cpu.key_check_failed /\ ~cpu.locked) /\ ~resealed)
  <2>2. cpu' = [cpu EXCEPT !.key_check_failed = g, !.key_valid = FALSE, !.copro = NoBlock]
    BY <2>1
  <2>3. g \in BOOLEAN
    OBVIOUS
  <2>4. cpu.key_check_failed \in BOOLEAN
    BY <1>2 DEF Shape
  <2>5. cpu.locked => (g <=> cpu.key_check_failed)
    OBVIOUS
  <2>6. cpu.locked => g = cpu.key_check_failed
    BY <2>3, <2>4, <2>5
  <2> HIDE DEF g
  <2>7. QED
    BY <2>2, <2>3, <2>6
<1>5. PICK c : c = cpu
  OBVIOUS
<1>6. PICK d : d = cpu'
  OBVIOUS
<1>7. d = [c EXCEPT !.key_check_failed = failed, !.key_valid = FALSE, !.copro = NoBlock]
  BY <1>4, <1>5, <1>6
<1>8. Shape(c) /\ Passed(c)
  BY <1>2, <1>5
<1>9. /\ d.copro = NoBlock /\ d.key_check_failed = failed /\ DOMAIN d = CpuFields
      /\ Same(c, d, CpuFields \ {"key_check_failed", "key_valid", "copro"})
      /\ d.key_valid = FALSE
  BY <1>7, <1>8 DEF Shape, CpuFields, Same
<1>10. /\ d.locked = c.locked /\ d.mem = c.mem /\ d.exec = c.exec /\ d.decode = c.decode
       /\ d.decr = c.decr /\ d.fetch = c.fetch /\ d.data = c.data /\ d.reg_file = c.reg_file
       /\ d.retired = c.retired
  BY <1>9 DEF Same, CpuFields
<1>11. c.locked => failed = c.key_check_failed
  BY <1>4, <1>5
<1>12. PcOf(d) = PcOf(c)
  BY <1>9, <1>10, <1>11 DEF PcOf, Oldest, NextWord, Behind
<1>13. DataOf(d) = DataOf(c)
  BY <1>10 DEF DataOf, PlainWord
<1>14. Shape(d) /\ Passed(d)
  <2>1. CoproShape(d.copro)
    BY <1>9, Parameters DEF CoproShape, NoBlock
  <2>2. QED
    BY <2>1, <1>8, <1>9 DEF Shape, Passed, Same, CpuFields
<1>15. WrittenRegs(d) = WrittenRegs(c) /\ WrittenCount(d) = WrittenCount(c)
  BY <1>10 DEF WrittenRegs, WrittenCount
<1>16. CommittedOf(d).reg_file = CommittedOf(c).reg_file /\ CommittedOf(d).retired = CommittedOf(c).retired
  <2>1. /\ c.locked => CommittedOf(c).reg_file = c.reg_file /\ CommittedOf(c).retired = c.retired
        /\ ~c.locked => CommittedOf(c).reg_file = WrittenRegs(c) /\ CommittedOf(c).retired = WrittenCount(c)
    BY <1>8, CommittedIs
  <2>2. /\ d.locked => CommittedOf(d).reg_file = d.reg_file /\ CommittedOf(d).retired = d.retired
        /\ ~d.locked => CommittedOf(d).reg_file = WrittenRegs(d) /\ CommittedOf(d).retired = WrittenCount(d)
    BY <1>14, CommittedIs
  <2>3. QED
    BY <2>1, <2>2, <1>10, <1>15
<1>17. pc = PcOf(c) /\ committed = CommittedOf(c) /\ plain_data = DataOf(c)
  BY <1>5, MapIs
<1>18. pc' = PcOf(d) /\ committed' = CommittedOf(d) /\ plain_data' = DataOf(d)
  BY <1>3, <1>6, MapIsNext
<1>19. /\ pc' = pc /\ plain_data' = plain_data
       /\ committed'.reg_file = committed.reg_file /\ committed'.retired = committed.retired
  BY <1>12, <1>13, <1>16, <1>17, <1>18
<1>20. (IF status = NotReturned /\ cpu.exec.valid THEN cpu.exec.copro_before ELSE cpu.copro)' = NoBlock
  BY <1>1, <1>6, <1>9
<1>21. (cpu.locked /\ ~cpu.key_check_failed)' = (cpu.locked /\ ~cpu.key_check_failed)
  <2>1. c.locked \in BOOLEAN /\ c.key_check_failed \in BOOLEAN
    BY <1>8 DEF Shape
  <2>2. (d.locked /\ ~d.key_check_failed) = (c.locked /\ ~c.key_check_failed)
    BY <2>1, <1>9, <1>10, <1>11
  <2>3. QED
    BY <2>2, <1>5, <1>6
<1>22. Reference!NoBlock = NoBlock
  BY SameSet
<1>23. QED
  BY <1>1, <1>3, <1>19, <1>20, <1>21, <1>22 DEF Reference!Stop

LEMMA InitStarts ==
    ASSUME Init
    PROVE  Reference!Init /\ PathInv
<1>1. Inv
  BY InitState
<1>2. /\ cpu.fetch = [valid |-> FALSE, block_addr |-> StartBlock, block_data |-> <<>>]
      /\ cpu.decr = [valid |-> FALSE, block_addr |-> 0, decr_block |-> <<>>, instr_index |-> 0]
      /\ cpu.decode = [valid |-> FALSE]
      /\ cpu.exec = [valid |-> FALSE, instr |-> NOP]
      /\ cpu.mem = [valid |-> FALSE]
  BY DEF Init
<1>3. cpu.reg_file = [r \in Regs |-> 0] /\ cpu.copro = NoBlock
  BY DEF Init
<1>4. cpu.retired = 0 /\ cpu.locked = FALSE /\ cpu.key_check_failed = FALSE /\ status = NotReturned
  BY DEF Init
<1>5. /\ cpu.fetch.valid = FALSE /\ cpu.decr.valid = FALSE /\ cpu.decode.valid = FALSE
      /\ cpu.exec.valid = FALSE /\ cpu.mem.valid = FALSE
      /\ cpu.fetch.block_addr = block_of(TextStart)
  BY <1>2, PipelineAssumption
<1>6. pc = TextStart
  BY <1>4, <1>5, TextAligned DEF pc, next_word
<1>7. committed = cpu
  BY <1>4, <1>5 DEF committed, stage_writeback
<1>8. PathInv
  BY <1>5, TextAligned DEF PathInv, Path, Reached
<1>9. Reference!Regs = Regs /\ Reference!NoBlock = NoBlock
  BY SameSet DEF Reference!Regs, Regs
<1>10. Reference!Init
  BY <1>3, <1>4, <1>5, <1>6, <1>7, <1>9 DEF Reference!Init
<1>11. QED
  BY <1>8, <1>10

LEMMA PathInvKept ==
    ASSUME Inv, PathInv, Assembled(program, encrypted), [Next]_vars
    PROVE  PathInv'
<1>1. CASE Cycle
  <2>1. /\ ImageOK /\ State(cpu) /\ Path(cpu)
    BY <1>1 DEF Inv, PathInv, Cycle
  <2>2. PICK ok \in BOOLEAN :
          (cpu.key_valid => ok) /\ cpu' = FrontStages(stage_execute(BackStages(cpu)), ok)
    BY <1>1, CycleIs
  <2>3. PICK c : c = cpu
    OBVIOUS
  <2>4. PICK e : e = BackStages(c)
    OBVIOUS
  <2>5. PICK f : f = stage_execute(e)
    OBVIOUS
  <2>6. PICK d : d = cpu'
    OBVIOUS
  <2>7. d = FrontStages(f, ok) /\ State(c) /\ Path(c)
    BY <2>1, <2>2, <2>3, <2>4, <2>5, <2>6
  <2>8. Path(d)
    <3>1. CASE c.key_valid \/ ok
      BY <3>1, <2>1, <2>4, <2>5, <2>7, PathKept
    <3>2. CASE ~c.key_valid /\ ~ok
      <4>1. ok = FALSE
        BY <3>2
      <4>2. RefusalFacts(c, d)
        BY <4>1, <3>2, <2>1, <2>4, <2>5, <2>7, CycleRefused
      <4>3. d.exec.valid = FALSE /\ d.fetch = c.fetch /\ d.decr = c.decr /\ d.decode = c.decode
        BY <4>2 DEF RefusalFacts, Same, Front
      <4>4. QED
        BY <4>3, <2>7 DEF Path, Reached, Behind
    <3>3. QED
      BY <3>1, <3>2
  <2>9. Path(cpu)'
    BY <2>6, <2>8 DEF Path, Reached, Behind, NextWord, PredictedWord
  <2>10. QED
    BY <2>9 DEF PathInv
<1>2. CASE Return
  BY <1>2, ReturnEnds DEF PathInv
<1>3. CASE UNCHANGED vars
  <2>1. cpu' = cpu /\ status' = status
    BY <1>3 DEF vars
  <2>2. Path(cpu) => Path(cpu)'
    BY <2>1 DEF Path, Reached, Behind, NextWord, PredictedWord
  <2>3. QED
    BY <2>1, <2>2 DEF PathInv, Running
<1>4. QED
  BY <1>1, <1>2, <1>3 DEF Next

\* The CPU runs an image of the assembler and the encryptor (see Assembled).
AssembledImage == Assembled(program, encrypted)

\* ImplementsIsa, for every image the assembler and the encryptor make (AssembledImage), every
\* layout, cache size and number of cycles: forwarding gives each instruction the registers as
\* the ones before it leave them, the front end follows the prediction and the recovery the
\* branch, and the caches hold what memory holds, so that the pipeline runs the program one
\* instruction after the other and stops at the first access outside the data region.
THEOREM PipelineImplementsIsa == Spec /\ AssembledImage => ImplementsIsa
<1>1. Init => Reference!Init /\ PathInv
  BY InitStarts
<1>2. AssembledImage /\ [Next]_vars => AssembledImage'
  <2> SUFFICES ASSUME AssembledImage, [Next]_vars PROVE AssembledImage'
    OBVIOUS
  <2>1. program' = program /\ encrypted' = encrypted
    BY DEF Next, Cycle, Return, vars
  <2>2. QED
    BY <2>1 DEF AssembledImage, Assembled
<1>3. Inv /\ AssembledImage /\ PathInv /\ [Next]_vars => PathInv'
  BY PathInvKept DEF AssembledImage
<1>4. Inv /\ AssembledImage /\ PathInv /\ [Next]_vars => [Reference!Next]_(Reference!vars)
  <2> SUFFICES ASSUME Inv, AssembledImage, PathInv, [Next]_vars PROVE [Reference!Next]_(Reference!vars)
    OBVIOUS
  <2>1. CASE Cycle /\ cpu.exec.valid
    BY <2>1, StepIsInstruction DEF AssembledImage
  <2>2. CASE Cycle /\ ~cpu.exec.valid
    BY <2>2, QuietStutters DEF AssembledImage
  <2>3. CASE Return
    BY <2>3, ReturnStops DEF Reference!Next
  <2>4. CASE UNCHANGED vars
    <3>1. /\ program' = program /\ encrypted' = encrypted /\ cpu' = cpu /\ status' = status
      BY <2>4 DEF vars
    <3>2. pc' = PcOf(cpu') /\ committed' = CommittedOf(cpu') /\ plain_data' = DataOf(cpu')
      BY <3>1, MapIsNext
    <3>3. pc' = pc /\ committed' = committed /\ plain_data' = plain_data
      BY <3>1, <3>2, MapIs
    <3>4. QED
      BY <3>1, <3>3 DEF Reference!vars
  <2>5. QED
    BY <2>1, <2>2, <2>3, <2>4 DEF Next
<1>5. QED
  BY <1>1, <1>2, <1>3, <1>4, Invariant, PTL DEF Spec, ImplementsIsa, Reference!Spec
=============================================================================
