----------------------------- MODULE MCCpuPipeline -----------------------------
(* CpuPipeline for TLC: header, two blocks of text, the first one free, and one block of data. *)
EXTENDS CpuPipeline

MCInitialData == [w \in DataWords |-> (w - DataStart) + 1]

I(op, rs, rt, rd, imm) == [op |-> op, rs |-> rs, rt |-> rt, rd |-> rd, imm |-> imm]

\* Data addresses: 12 is the first data word, 11 is text, 24 is the MARS address of the
\* first data word, 25 no word.
Loads == {I("LW", 0, 1, 0, 12), I("LW", 1, 2, 0, 11)}
Computations ==
    {I("ADDI", 1, 1, 0, 1), I("ADD", 1, 2, 2, 0), I("SLL", 0, 2, 1, 0), I("LUI", 0, 1, 0, 2),
     I("AESENC", 1, 2, 1, 0), I("AESDEC", 0, 0, 2, 0)}
Stores == {I("SW", 1, 2, 0, 24)}

\* A branch in slot s of the first block to the first word of block b; the jump has a MARS target.
To(b, s) == b * INSTRS_PER_BLOCK - (TextStart + s + 1)
Branches(s) ==
    {I("BEQ", 1, 2, 0, To(2, s)), I("J", 0, 0, 0, 20)}
    \union (IF s = INSTRS_PER_BLOCK - 1 THEN {I("BNE", 1, 2, 0, To(1, s))} ELSE {})

FirstBlocks(Free(_)) ==
    {[s \in Slots |-> <<a, b, c, d>>[s + 1]] : a \in Free(0), b \in Free(1), c \in Free(2), d \in Free(3)}

SecondBlock(first) ==
    [s \in Slots |-> <<first, I("LW", 0, 1, 0, 13), I("ADD", 1, 2, 2, 0), I("BNE", 1, 0, 0, -8)>>[s + 1]]

Image(f, first, e) ==
    [text |-> [b \in TextBlocks |-> IF b = block_of(TextStart) THEN f ELSE SecondBlock(first)],
     encrypted |-> e]

AnySlot(s) == Loads \union Computations \union Stores \union Branches(s)
PlainSlot(s) == Loads \union {I("ADDI", 1, 1, 0, 1), I("BNE", 1, 0, 0, To(2, s))}

\* Encrypted data with any first block; plain data with programs that do not store.
MCImages ==
    {Image(f, I("SW", 0, 2, 0, 13), TRUE) : f \in FirstBlocks(AnySlot)}
    \union {Image(f, I("NOP", 0, 0, 0, 0), FALSE) : f \in FirstBlocks(PlainSlot)}

ASSUME MCImagesAssembled == \A image \in MCImages : Assembled(image.text, image.encrypted)

\* A loop within one block.
LoopSlot(s) == {I("ADDI", 1, 1, 0, 1), I("BNE", 1, 0, 0, To(1, s))}
MCLoopImages == {Image(f, I("NOP", 0, 0, 0, 0), TRUE) : f \in FirstBlocks(LoopSlot)}

=============================================================================
