------------------------------ MODULE MCToolchain ------------------------------
(* Toolchain with blocks of two words, an image of 24 words and short programs. *)
EXTENDS Toolchain

Line(label, op, args) == [label |-> label, op |-> op, args |-> args]
Plain(op) == Line("", op, <<>>)
Space(bytes) == Line("", ".space", <<Num(bytes)>>)

MCMapSeed(epoch, text_end) == 3 * epoch + text_end
MCMapDraw(seed) == seed + 2

\* Two bits of a key, three draws each over the words 12 to 23.  One free block is too few for
\* either key; with two, k1 finds its places and k2 gives up over a word it already has.
MCHideDraw(nonce, text_start, text_end, i, a) ==
    LET words == IF nonce[2] = "k2" THEN <<<<14, 18, 20>>, <<17, 15, 20>>>>
                 ELSE <<<<13, 17, 20>>, <<13, 16, 23>>>>
    IN  <<words[i][a], 0>>

\* Every source of up to MaxLines of these lines is assembled, alone or after a data section
MaxLines == 3
Start == <<Plain(".data"), Line("a", ".word", <<Num(1), Num(2)>>), Plain(".text"), Plain("alu")>>
MCLines ==
    {Plain(".data"), Plain(".text"), Plain("nop"), Plain("bad"), Plain(".globl"),
     Line("a", ".word", <<Num(1), Num(2)>>), Line("", ".word", <<Sym("a")>>),
     Line("a", "nop", <<>>), Line("b", "", <<>>), Space(8), Space(6), Space(96), Space(4096),
     Line("", "la", <<Sym("a")>>), Line("b", "beq", <<Sym("b")>>), Line("", "j", <<Sym("b")>>),
     Line("", "beq", <<Sym("a")>>), Line("", "lw", <<Num(4)>>), Plain("alu")}

\* Five words of text (three blocks), three of data (two blocks)
Program == <<Plain(".data"), Line("a", ".word", <<Num(1), Num(2)>>), Line("b", ".word", <<Sym("a")>>),
             Plain(".text"), Line("m", "la", <<Sym("b")>>), Line("n", "lw", <<Num(0)>>),
             Line("", "beq", <<Sym("m")>>), Line("e", "j", <<Sym("e")>>)>>

\* t words of text and d of data
Sized(t, d) == <<Plain(".data"), Space(4 * d), Plain(".text"), Space(4 * t)>>

None == [lines |-> 0, assemble |-> 0, encrypt |-> 0, runs |-> 0, accesses |-> 0, decrypt |-> 0,
         restore |-> 0, damage |-> 0, src |-> <<>>]

Edits == {[None EXCEPT !.lines = MaxLines, !.assemble = 1, !.src = s] : s \in {<<>>, Start}}
Sizes == {[None EXCEPT !.assemble = 1, !.encrypt = 1, !.src = Sized(t, d)] :
             t \in {1, 2, 9, 10, 17, 19, 20, 21, 22, 23}, d \in {0, 1, 2, 3, 13, 22}}
Life(program, encrypt, runs, accesses, decrypt, restore, damage) ==
    [None EXCEPT !.assemble = 1, !.encrypt = encrypt, !.runs = runs, !.accesses = accesses,
                 !.decrypt = decrypt, !.restore = restore, !.damage = damage, !.src = program]

MCScenarios ==
    Edits \cup Sizes
    \cup {Life(Program, 1, 2, 2, 1, 0, 0),          \* runs, stores and a dump
          Life(Program, 2, 1, 1, 0, 1, 0),          \* an older image is put back
          Life(Program, 1, 2, 1, 0, 0, 1),          \* damage before or after a run
          Life(Sized(3, 2), 2, 0, 0, 1, 0, 2),      \* two images mixed, then dumped
          Life(Sized(3, 2), 2, 1, 0, 0, 0, 1)}      \* or run

\* Data that reaches the upper half of the memory
MCOverlap == {Life(Sized(2, 12), 1, 1, 1, 0, 0, 0)}
=============================================================================
