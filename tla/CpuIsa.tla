-------------------------------- MODULE CpuIsa --------------------------------
(***************************************************************************)
(* What a program does: one instruction per step, in program order, on the  *)
(* registers, the plaintext of the data region and the coprocessor.  An     *)
(* access outside the data region locks the device and does nothing else.   *)
(***************************************************************************)
EXTENDS CpuInstructions

VARIABLES
    program,    \* the plaintext of the text region: block, slot -> instruction
    pc,         \* word address of the next instruction
    regs,
    mem,        \* plaintext of the data region, by word address
    copro,
    locked,
    retired,    \* register-writing instructions completed
    stopped     \* the run has returned

vars == <<program, pc, regs, mem, copro, locked, retired, stopped>>

instr == program[block_of(pc)][slot_of(pc)]
rs_val == regs[source_rs(instr)]
rt_val == regs[source_rt(instr)]
result == alu(instr, rs_val, rt_val, copro)
word_addr == translateDataAddress(result)

Running == ~stopped /\ ~locked /\ TextStart <= pc /\ pc < TextEnd

SetReg(v) ==
    /\ regs' = IF getDestReg(instr) = 0 THEN regs ELSE [regs EXCEPT ![getDestReg(instr)] = v]
    /\ retired' = retired + 1

Compute ==
    /\ Running /\ isWriteInstruction(instr) /\ instr.op # "LW"
    /\ SetReg(result)
    /\ copro' = IF instr.op = "AESENC" THEN [rs |-> rs_val, rt |-> rt_val] ELSE copro
    /\ pc' = pc + 1
    /\ UNCHANGED <<program, mem, locked, stopped>>

\* An address that means no word reads as 0 and is not written.
Load ==
    /\ Running /\ instr.op = "LW"
    /\ word_addr = NoWord \/ secure_is_data_word(word_addr)
    /\ SetReg(IF word_addr = NoWord THEN 0 ELSE mem[word_addr])
    /\ pc' = pc + 1
    /\ UNCHANGED <<program, mem, copro, locked, stopped>>

Store ==
    /\ Running /\ instr.op = "SW"
    /\ word_addr = NoWord \/ secure_is_data_word(word_addr)
    /\ mem' = IF word_addr = NoWord THEN mem ELSE [mem EXCEPT ![word_addr] = rt_val]
    /\ pc' = pc + 1
    /\ UNCHANGED <<program, regs, copro, locked, retired, stopped>>

Violation ==
    /\ Running /\ instr.op \in {"LW", "SW"}
    /\ word_addr # NoWord /\ ~secure_is_data_word(word_addr)
    /\ locked' = TRUE
    /\ UNCHANGED <<program, pc, regs, mem, copro, retired, stopped>>

Control ==
    /\ Running /\ (isControlInstruction(instr) \/ instr.op = "NOP")
    /\ pc' = CASE instr.op = "J" -> jump_target(instr)
               [] instr.op # "J" /\ branch_taken(instr, rs_val, rt_val) -> branch_target(pc, instr)
               [] OTHER -> pc + 1
    /\ UNCHANGED <<program, regs, mem, copro, locked, retired, stopped>>

\* The run may end anywhere: the CPU runs for a number of cycles.
Stop ==
    /\ ~stopped
    /\ stopped' = TRUE
    /\ copro' = NoBlock
    /\ UNCHANGED <<program, pc, regs, mem, locked, retired>>

Init ==
    /\ pc = TextStart
    /\ regs = [r \in Regs |-> 0]
    /\ copro = NoBlock
    /\ locked = FALSE
    /\ retired = 0
    /\ stopped = FALSE

Next == Compute \/ Load \/ Store \/ Violation \/ Control \/ Stop

Spec == Init /\ [][Next]_vars

=============================================================================
