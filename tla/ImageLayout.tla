------------------------------ MODULE ImageLayout ------------------------------
(***************************************************************************)
(* The constants the tools and the CPU share (src/header.h).                *)
(***************************************************************************)
EXTENDS Integers, SequencesExt

CONSTANTS
    INSTRS_PER_BLOCK,               \* words of a crypto block: 4
    SEC_HDR_WORDS,                  \* words of the header: 32
    MEM_SIZE,                       \* words of an image: 1024
    kTextBaseByte, kDataBaseByte    \* CRYPTO3D_MIPS_TEXT_BASE_BYTE, CRYPTO3D_MIPS_DATA_BASE_BYTE

kWordBytes == 4

ASSUME ImageLayoutAssumption ==
    /\ INSTRS_PER_BLOCK \in Nat \ {0} /\ SEC_HDR_WORDS \in Nat /\ MEM_SIZE \in Nat
    /\ kTextBaseByte \in Nat /\ kDataBaseByte \in Nat
    /\ SEC_HDR_WORDS % INSTRS_PER_BLOCK = 0 /\ MEM_SIZE % INSTRS_PER_BLOCK = 0
    /\ SEC_HDR_WORDS < MEM_SIZE
    /\ kTextBaseByte % (INSTRS_PER_BLOCK * kWordBytes) = 0 /\ kDataBaseByte % kWordBytes = 0
    /\ MEM_SIZE < kTextBaseByte /\ kTextBaseByte < kDataBaseByte
=============================================================================
