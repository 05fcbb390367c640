---------------------------- MODULE CpuInstructions ----------------------------
(***************************************************************************)
(* The instruction set and the address map of the CPU (src/3d.cpp), shared  *)
(* by the reference (CpuIsa) and the pipeline (CpuPipeline).                *)
(*                                                                          *)
(* An instruction is a record of the fields the code decodes.  ADD stands   *)
(* for every two-source R-type operation (SUB, AND, OR, XOR, MULT), SLL for *)
(* SRL and ADDI for ORI: they differ in the arithmetic only.  NOP stands    *)
(* for every word that decodes to none of these.                            *)
(***************************************************************************)
EXTENDS Integers

CONSTANTS
    INSTRS_PER_BLOCK,   \* 4
    NUM_REGS,           \* 32
    WordMod,            \* words are 0 .. WordMod - 1: 2^32
    MEM_SIZE,           \* words of a layer
    SEC_HDR_WORDS,
    TextStart, TextEnd, \* secure_runtime_text_start_addr, secure_runtime_text_enc_end
    DataStart, DataEnd, \* secure_runtime_data_start_addr, secure_runtime_data_enc_end
    kMarsTextBaseWord, kMarsDataBaseByte,
    JunkWord            \* a word of the decryption of what was never encrypted

\* The layouts secure_decode_header accepts, with a text and a data region that are not empty.
ASSUME LayoutAssumption ==
    /\ {INSTRS_PER_BLOCK, NUM_REGS, WordMod, MEM_SIZE} \subseteq Nat \ {0}
    /\ {SEC_HDR_WORDS, TextStart, TextEnd, DataStart, DataEnd} \subseteq Nat
    /\ {kMarsTextBaseWord, kMarsDataBaseByte} \subseteq Nat
    /\ \A a \in {TextStart, TextEnd, DataStart, DataEnd, MEM_SIZE} : a % INSTRS_PER_BLOCK = 0
    /\ SEC_HDR_WORDS <= TextStart /\ TextStart < TextEnd
    /\ TextEnd <= DataStart /\ DataStart < DataEnd /\ DataEnd <= MEM_SIZE
    /\ JunkWord \in 0 .. WordMod - 1

Words == 0 .. WordMod - 1
Regs == 0 .. NUM_REGS - 1
Slots == 0 .. INSTRS_PER_BLOCK - 1
block_of(word_addr) == word_addr \div INSTRS_PER_BLOCK
slot_of(word_addr) == word_addr % INSTRS_PER_BLOCK

-----------------------------------------------------------------------------
(* Decoding.                                                                 *)

RWriteFuncts == {"ADD", "SLL", "AESENC", "AESDEC"}
Instructions ==
    [op : RWriteFuncts \union {"LW", "SW", "ADDI", "LUI", "BEQ", "BNE", "J", "NOP"},
     rs : Regs, rt : Regs, rd : Regs, imm : Int]

isWriteInstruction(i) == i.op \in RWriteFuncts \union {"LW", "ADDI", "LUI"}
isControlInstruction(i) == i.op \in {"BEQ", "BNE", "J"}

getDestReg(i) ==
    CASE i.op \in RWriteFuncts -> i.rd
      [] i.op \in {"LW", "ADDI", "LUI"} -> i.rt
      [] OTHER -> 0

\* getSourceRegs: 0 where the instruction has no such source.
source_rs(i) == IF i.op \in {"ADD", "AESENC", "LW", "ADDI", "SW", "BEQ", "BNE"} THEN i.rs ELSE 0
source_rt(i) == IF i.op \in {"ADD", "AESENC", "SLL", "SW", "BEQ", "BNE"} THEN i.rt ELSE 0

jump_target(i) ==
    IF i.imm >= kMarsTextBaseWord THEN TextStart + (i.imm - kMarsTextBaseWord) ELSE i.imm

branch_target(word_addr, i) ==
    IF word_addr + 1 + i.imm < 0 THEN 0 ELSE word_addr + 1 + i.imm

-----------------------------------------------------------------------------
(* Arithmetic.  The coprocessor holds the block last encrypted: AESENC gives *)
(* a word of the ciphertext, AESDEC a word of the plaintext it came from.    *)

NoBlock == [rs |-> JunkWord, rt |-> JunkWord]
aes_word(b) == (3 * b.rs + b.rt + 1) % WordMod

alu(i, rs_val, rt_val, copro) ==
    CASE i.op = "ADD" -> (rs_val + rt_val) % WordMod
      [] i.op = "SLL" -> (2 * rt_val) % WordMod
      [] i.op = "AESENC" -> aes_word([rs |-> rs_val, rt |-> rt_val])
      [] i.op = "AESDEC" -> copro.rs
      [] i.op \in {"LW", "SW", "ADDI"} -> (rs_val + i.imm) % WordMod
      [] i.op = "LUI" -> i.imm % WordMod
      [] OTHER -> 0

branch_taken(i, rs_val, rt_val) ==
    \/ i.op = "BEQ" /\ rs_val = rt_val
    \/ i.op = "BNE" /\ rs_val # rt_val
    \/ i.op = "J"

-----------------------------------------------------------------------------
(* Data addresses: word addresses as they are, MARS data addresses and byte  *)
(* addresses translated.                                                     *)

NoWord == -1

translateDataAddress(eff_addr) ==
    LET mapped == DataStart + (eff_addr - kMarsDataBaseByte) \div 4
    IN IF eff_addr < MEM_SIZE THEN eff_addr
       ELSE IF eff_addr % 4 # 0 THEN NoWord
       ELSE IF eff_addr >= kMarsDataBaseByte /\ mapped < MEM_SIZE THEN mapped
       ELSE IF eff_addr \div 4 < MEM_SIZE THEN eff_addr \div 4
       ELSE NoWord

secure_is_data_word(w) == DataStart <= w /\ w < DataEnd
secure_is_text_word(w) == TextStart <= w /\ w < TextEnd

=============================================================================
