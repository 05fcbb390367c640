------------------------------- MODULE Assembler -------------------------------
(***************************************************************************)
(* The two-pass assembler (src/asm_to_hex.cpp).  A source line is its label *)
(* ("" for none), its operation ("" for none) and its arguments; an         *)
(* argument is a number or a symbol.  Lexing is left out: every line with   *)
(* malformed arguments, registers out of range or an unknown mnemonic is    *)
(* the operation "bad".  "alu" stands for every one-word instruction whose  *)
(* arguments name registers and constants only, "beq" for bne, "lw" for sw. *)
(***************************************************************************)
EXTENDS ImageLayout

CONSTANTS
    AddrMod,                \* addresses are below it: 2^32
    HalfMod,                \* what a 16-bit immediate holds: 2^16
    BranchMax               \* the largest branch offset: 32767

kBlockBytes == INSTRS_PER_BLOCK * kWordBytes
kAvailableWords == MEM_SIZE - SEC_HDR_WORDS

ASSUME AssemblerAssumption ==
    {HalfMod, AddrMod, BranchMax} \subseteq Nat \ {0}

Directives == {".data", ".text", ".globl", ".word", ".space", ".other"}
Num(n) == <<"num", n>>
Sym(s) == <<"sym", s>>

\* An emitted word: what it is and the number in it
W(kind, n) == <<kind, n>>
ZeroWord == W("word", 0)

-----------------------------------------------------------------------------
(* First pass: addresses.                                                    *)

is_word_aligned(addr) == addr % kWordBytes = 0
is_block_aligned_text_addr(addr) ==
    addr >= kTextBaseByte /\ (addr - kTextBaseByte) % kBlockBytes = 0

\* Mutant of instruction_word_count: la counted as one word
instruction_word_count_one(op) == 1

instruction_word_count(op) == IF op = "la" THEN 2 ELSE 1

\* Where the next word of a section goes
Cursor(s, section) == IF section = "Data" THEN s.data_addr ELSE s.text_addr

\* checked_add_u32: an address that does not fit is an error
Advance(s, bytes) ==
    IF Cursor(s, s.section) + bytes >= AddrMod THEN [s EXCEPT !.err = TRUE]
    ELSE IF s.section = "Data" THEN [s EXCEPT !.data_addr = @ + bytes]
    ELSE [s EXCEPT !.text_addr = @ + bytes]

TakeLabel(s, line) ==
    IF line.label = "" THEN s
    ELSE IF line.label \in DOMAIN s.symbols \/ s.section = "None" THEN [s EXCEPT !.err = TRUE]
    ELSE [s EXCEPT !.symbols = @ @@ (line.label :> [address |-> Cursor(s, s.section),
                                                    section |-> s.section])]

Statement(s, line) ==
    [op |-> line.op, args |-> line.args, section |-> s.section,
     address |-> Cursor(s, s.section)]

SetSection(s, line, section) ==
    LET t == [s EXCEPT !.section = section]
    IN  IF line.args # <<>> THEN [s EXCEPT !.err = TRUE]
        ELSE [t EXCEPT !.statements = Append(@, Statement(t, line))]

Directive(s, line) ==
    LET t == [s EXCEPT !.statements = Append(@, Statement(s, line))]
        bad == [s EXCEPT !.err = TRUE]
    IN  CASE line.op = ".data" -> SetSection(s, line, "Data")
          [] line.op = ".text" -> SetSection(s, line, "Text")
          [] line.op \notin {".data", ".text"} /\ s.section = "None" -> bad
          [] line.op = ".globl" /\ s.section # "None" -> IF line.args = <<>> THEN bad ELSE t
          [] line.op = ".word" /\ s.section # "None" ->
                IF line.args = <<>> \/ ~is_word_aligned(Cursor(s, s.section)) THEN bad
                ELSE Advance(t, Len(line.args) * kWordBytes)
          [] line.op = ".space" /\ s.section # "None" ->
                IF Len(line.args) # 1 \/ line.args[1][1] # "num" \/ line.args[1][2] < 0
                   \/ ~is_word_aligned(line.args[1][2])
                THEN bad ELSE Advance(t, line.args[1][2])
          [] line.op = ".other" /\ s.section # "None" -> bad

Instruction(s, line) ==
    IF s.section # "Text" THEN [s EXCEPT !.err = TRUE]
    ELSE Advance([s EXCEPT !.statements = Append(@, Statement(s, line))],
                 instruction_word_count(line.op) * kWordBytes)

first_pass(lines) ==
    LET Line(s, line) ==
          LET l == TakeLabel(s, line)
          IN  CASE s.err -> s
                [] ~s.err /\ (l.err \/ line.op = "") -> l
                [] ~s.err /\ ~l.err /\ line.op \in Directives -> Directive(l, line)
                [] ~s.err /\ ~l.err /\ line.op \notin Directives \cup {""} -> Instruction(l, line)
    IN  FoldLeft(Line, [section |-> "None", data_addr |-> kDataBaseByte,
                        text_addr |-> kTextBaseByte, symbols |-> <<>>, statements |-> <<>>,
                        err |-> FALSE], lines)

-----------------------------------------------------------------------------
(* Second pass: words.                                                       *)

Known(symbols, arg) == arg[1] = "num" \/ arg[2] \in DOMAIN symbols
ValueOf(symbols, arg) == IF arg[1] = "num" THEN arg[2] ELSE symbols[arg[2]].address

\* Mutant of GoodTarget: the label may be inside a block
GoodTargetAnywhere(symbols, arg) ==
    arg[1] = "sym" /\ arg[2] \in DOMAIN symbols /\ symbols[arg[2]].section = "Text"

\* A branch or jump target: a label of the text section at the start of a block
GoodTarget(symbols, arg) ==
    /\ arg[1] = "sym" /\ arg[2] \in DOMAIN symbols
    /\ symbols[arg[2]].section = "Text"
    /\ is_block_aligned_text_addr(symbols[arg[2]].address)

BranchOffset(st, target) == (target - (st.address + kWordBytes)) \div kWordBytes

\* The words of an instruction; none is an error
encode_instruction(st, symbols) ==
    LET arg == st.args[1] IN
    CASE st.op = "nop" -> IF st.args = <<>> THEN <<ZeroWord>> ELSE <<>>
      [] st.op = "alu" -> <<W("alu", 0)>>
      [] st.op = "la" ->
            IF ~Known(symbols, arg) THEN <<>>
            ELSE <<W("lui", ValueOf(symbols, arg) \div HalfMod),
                   W("ori", ValueOf(symbols, arg) % HalfMod)>>
      [] st.op = "lw" -> IF is_word_aligned(arg[2]) THEN <<W("lw", arg[2])>> ELSE <<>>
      [] st.op = "beq" ->
            IF ~GoodTarget(symbols, arg) THEN <<>>
            ELSE LET off == BranchOffset(st, symbols[arg[2]].address)
                 IN  IF off < -BranchMax - 1 \/ off > BranchMax THEN <<>> ELSE <<W("beq", off)>>
      [] st.op = "j" ->
            IF ~GoodTarget(symbols, arg) THEN <<>>
            ELSE <<W("j", symbols[arg[2]].address \div kWordBytes)>>
      [] st.op = "bad" -> <<>>

EmitDirective(o, st, symbols) ==
    LET vals == [i \in DOMAIN st.args |-> W("word", ValueOf(symbols, st.args[i]))]
        n    == st.args[1][2] \div kWordBytes
    IN  CASE st.op \in {".data", ".text", ".globl"} -> o
          [] st.op = ".word" /\ (\E i \in DOMAIN st.args : ~Known(symbols, st.args[i])) ->
                [o EXCEPT !.err = TRUE]
          [] st.op = ".word" /\ (\A i \in DOMAIN st.args : Known(symbols, st.args[i])) ->
                IF st.section = "Text" THEN [o EXCEPT !.text = @ \o vals]
                ELSE [o EXCEPT !.data_map = [i \in 1 .. Len(vals) |-> <<o.cursor + i - 1, vals[i]>>]
                                            \o @,
                               !.cursor = @ + Len(vals)]
          [] st.op = ".space" ->
                IF st.section = "Text" THEN [o EXCEPT !.text = @ \o [i \in 1 .. n |-> ZeroWord]]
                ELSE [o EXCEPT !.cursor = @ + n]

\* data_map holds the words by index; what no .word put there is zero
second_pass(statements, symbols) ==
    LET Emit(o, st) ==
          CASE o.err -> o
            [] ~o.err /\ st.op \in Directives -> EmitDirective(o, st, symbols)
            [] ~o.err /\ st.op \notin Directives ->
                 LET enc == encode_instruction(st, symbols)
                 IN  IF enc = <<>> THEN [o EXCEPT !.err = TRUE]
                     ELSE [o EXCEPT !.text = @ \o enc]
        out == FoldLeft(Emit, [text |-> <<>>, data_map |-> <<>>, cursor |-> 0, err |-> FALSE],
                        statements)
        At(i) == SelectSeq(out.data_map, LAMBDA e : e[1] = i - 1)
    IN  [text |-> out.text, err |-> out.err,
         data |-> [i \in 1 .. out.cursor |-> IF At(i) = <<>> THEN ZeroWord ELSE At(i)[1][2]]]

align_words_to_crypto_block(n) ==
    ((n + INSTRS_PER_BLOCK - 1) \div INSTRS_PER_BLOCK) * INSTRS_PER_BLOCK

\* Mutant of validate_output_size: the padding is not counted
validate_output_size_unpadded(text, data) ==
    text # <<>> /\ Len(text) + Len(data) <= kAvailableWords

validate_output_size(text, data) ==
    LET t == align_words_to_crypto_block(Len(text))
        d == align_words_to_crypto_block(Len(data))
    IN  text # <<>> /\ t <= kAvailableWords /\ d <= kAvailableWords /\ t + d <= kAvailableWords

\* What the program writes: both files or, on any error, neither
assemble(lines) ==
    LET p1 == first_pass(lines)
        p2 == second_pass(p1.statements, p1.symbols)
    IN  IF p1.err THEN [ok |-> FALSE]
        ELSE IF p2.err \/ ~validate_output_size(p2.text, p2.data) THEN [ok |-> FALSE]
        ELSE [ok |-> TRUE, text |-> p2.text, data |-> p2.data, symbols |-> p1.symbols,
              statements |-> p1.statements]
=============================================================================
