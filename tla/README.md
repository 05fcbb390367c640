# TLA+ verification of Crypto3DStackCPU

This directory holds TLA+ models of the repository's security hardware, its CPU, its
software model of the stack and its tools, and the TLC runs and TLAPS proofs about them.
Paths below are relative to the repository; `PROJECT.json` maps every definition to the lines it models.

## 1. The system

The repository builds an encrypted CPU with a 3D-stacked memory, twice: as a C++
model meant for high-level synthesis (`src/`), and as SystemVerilog
(`hardware_3d/rtl/`) in which every access to the stacked memory passes the
*Vertical Trust Fabric* (VTF).

| Part | State it keeps | Operations | Hard behaviour |
|---|---|---|---|
| `vertical_trust_guard.sv` | dual-rail lockdown latch, last sequence number and parity per requester | examine a request, latch lockdown, reset | register upsets, order of the checks, wrap of the number |
| `vtf_key_schedule.sv` + `aes128_core.sv` | base keys, working keys, CMAC subkeys, epoch of the keys, AES datapath | load root, derive, re-key on epoch change, zeroize | epoch change or zeroize in any cycle of a derivation, late AES result |
| `aes_cmac32.sv` | AES handshake, subkey cache | start, deliver, abort | abort against delivery, draining |
| `crypto3d_vtf_system_top.sv` | FSM (dual rail), latched request, decision, response | accept, authenticate (twice when hardened), guard, access, sign, respond | keys wiped or epoch moved in any state, upset of any register |
| `stacked_memory_3d_model.sv`, `tier_sentinel_monitor.sv` | tiers, output registers; sticky sentinel fault | access; check | access permission withdrawn |
| `crypto3d_vtf_cpu_bridge.sv` | its own keys, sequence counters, request and response | sign, send, wait, verify | counters in step with the guard over denials, epoch change in flight, no timeout |
| `memory_integrity_tree.sv`, `mit_untrusted_store.sv`, `memory_integrity.h` | counters, MACs and a Merkle tree in untrusted storage, root inside | read, write, re-key | storage that lies, partial commit, counter exhaustion |
| `src/3d.cpp` CPU | six pipeline stages, register file, caches | fetch, decrypt, decode, execute, memory, write back | hazards, prediction and flush, self-modifying text |
| `src/3d.cpp` secure image | header, image regions, text map, hidden key, tags | create, validate, extract, reseal | which check covers what, settings against the validated header, reseal after stores |
| `asm_to_hex.cpp`, `encryptor.cpp`, `decryptor.cpp` | files between the tools | assemble, seal, recover | two passes and two size checks that must agree, images damaged or mixed at rest |
| `src/3d.h` | words, flags, keys and lock of a software stack | read, write, encrypt, scramble, obfuscate, hide a key, reset, copy | any order of calls on encrypted and masked layers |
| `vertical_trust_fabric.h` | keys, counters, epoch, roles, sentinels, lockdown | issue, execute, verify, advance the epoch, reset | requests late, twice, out of order or altered; settings changed with requests in flight |

The CPU bridge calls the system over a request channel (valid/ready) and a
response channel (valid only); the system drives the guard, the CMAC unit, the
memory and the key schedule, all on one clock. Two wires couple everything: the
guard's `key_zeroize_o` wipes the key schedule and aborts the CMAC unit in the
cycle of a severe event, and `active_epoch_i` reaches guard, schedule and bridge.

The software tools share files and layout constants (`header.h`), not code: the
assembler writes hex files, the encryptor seals them, the CPU loads, validates, runs
and reseals the image, the decryptor opens it. The software fabric calls the software
stack directly, and a host program may call the stack past it.

## 2. Modules

| Module | Models | Used by |
|---|---|---|
| `VerticalTrustGuard` | the guard: combinational outputs as operators on the input record, `Cycle(in)` the clocked block, `Flip...` the upsets | `GuardHarness`, `VtfSystem` |
| `GuardHarness` | the guard under free inputs with shadow state, as `formal/vertical_trust_guard_props.sv` | `MCGuard`, `GuardProofs` |
| `GuardProofs` | theorems about `GuardHarness` | |
| `Aes128Core` | the AES core's handshake and what its registers hold | `VtfKeySchedule`, `MemoryIntegrityTree` |
| `VtfKeySchedule` | the schedule's FSM, one action per branch | `MCVtfKeySchedule`, `KeyScheduleProofs` |
| `KeyScheduleProofs` | theorems about `VtfKeySchedule`, its refinement of `KeyStore` among them | |
| `KeyStore` | abstract: keys of one root and one epoch, or none | refined by `VtfKeySchedule`, used by `VtfSystem` and `VtfCpuBridge` |
| `CmacUnit` | the tag unit as its users see it | `VtfSystem`, `VtfCpuBridge`, `MemoryIntegrityTree` |
| `VtfSystem` | the whole fabric, one step per clock edge | `MCVtfSystem`, `VtfSoc`, `SystemProofs` |
| `TrustedMemory` | abstract: what the fabric promises a requester | refined by `VtfSystem` |
| `SystemProofs` | theorems about `VtfSystem`, its refinement of `TrustedMemory` among them | `SocProofs` |
| `VtfCpuBridge` | the bridge's FSM with its keys and tag unit | `VtfSoc` |
| `VtfSoc` | bridge and fabric on one clock | `MCVtfSoc`, `SocProofs` |
| `SocProofs` | theorems about `VtfSoc`, on top of those about `VtfSystem` | |
| `CpuInstructions` | instruction fields, arithmetic and address translation | `CpuIsa`, `CpuPipeline` |
| `CpuIsa` | abstract: a program run one instruction at a time | refined by `CpuPipeline` |
| `CpuPipeline` | the CPU's main loop: each stage an operator on the CPU state, `Cycle` their composition in the order of the calls | `MCCpuPipeline`, `CpuProofs` |
| `CpuProofs` | theorems about `CpuPipeline`, its refinement of `CpuIsa` among them | |
| `StackedMemory3D` | the class of `3d.h`: each method an operator from a stack to a stack, `Host...` its call | `VerticalTrustFabric` |
| `VerticalTrustFabric` | the class of `vertical_trust_fabric.h` over that stack, the channel to it and the host | `MCVerticalTrustFabric`, `FabricProofs` |
| `FabricProofs` | lemmas about the methods of `StackedMemory3D`, theorems about the protocol of `VerticalTrustFabric`, the words of the stack and the answers of the fabric | |
| `ImageLayout` | the constants of `header.h` | `Assembler`, `SecureImage` |
| `Assembler` | both passes and the size check of `asm_to_hex.cpp` as operators | `Toolchain` |
| `SecureImage` | header, text map, hidden key, tags, create, validate, extract and reseal of `3d.cpp` as operators on a process state | `Toolchain` |
| `Toolchain` | assembler, encryptor, CPU process and decryptor over their files, one action per tool run or access | `MCToolchain`, `ImageProofs` |
| `ImageProofs` | theorems about `Toolchain`: the encryptor, runs, damage and the decryptor | |
| `MemoryIntegrityTree` | the encryption and integrity engine with its AES core, CMAC unit and untrusted storage; one action per branch of its FSM, `StorePort` the write port of the same cycle | `MCMemoryIntegrityTree`, `MitProofs` |
| `MitProofs` | theorems about `MemoryIntegrityTree` | |

Conventions. A step is one rising edge; operators that take `e` or `in` read the
wires of that cycle. The names are the source's. Cryptography is symbolic: a
ciphertext, key, subkey or tag is the tuple of what went into it, so two tags are
equal exactly when key and message are, which is the ideal the code relies on.
A definition whose name extends another's and whose comment says "Mutant of" is
that definition with a plausible bug; `PROJECT.json` says which property notices.

What the abstractions leave out. The nonce is echoed and decides nothing. The
debug port is locked. The AES core has `Rounds` rounds instead of 10 and a tag
takes `CmacCycles` cycles: only the order of events counts, and both are at least
the smallest number that lets an event fall inside. The parity bit over the
response registers stands for the fields it covers. The system and the bridge use
`KeyStore` for their schedules, in which a derivation may take any number of
cycles. In `VtfSystem` a sender has one request in flight, as the bridge does.
The working keys of `VtfSystem` are read through the schedule's key registers, which
`KeyStore` does not have: `spoiled` holds those that an upset hit and that neither a
derivation nor a zeroize has written since, and they give a garbage key.

In `StackedMemory3D` a word is a base with a set of XOR masks, so that masking twice
undoes itself, and AES on a block is a pair of inverse functions. `plain` is the same
stack without AES, kept beside it. In `SecureImage` an image is kept by crypto blocks:
the words in a block, the key they are encrypted under, and the wrapped key whose bits
are hidden over it; a block with hidden bits, or under another key, decrypts to junk.
The generators of the map and of the hiding places are constant operators
(`MapSeed`, `MapDraw`, `HideDraw`): the code's mixing functions are not modelled, and
`TextMapIsPermutation` quantifies over their values. `HideDraw` is the word and bit of
each attempt for each bit of the key; the search over the attempts, which passes over
text and over bits already taken and may give up, is that of
`secure_generate_positions`, with `WORD_BITS` bits in a word and `HideAttempts` for
its 2048. Magic, version and flags of the
header are one field. A run of the CPU is any sequence of loads and stores; what
instructions compute is the subject of `CpuPipeline`. A source line of `Assembler` is
label, operation and arguments; a line that the lexer or the operand parser refuses is
the operation `bad`.

## 3. Runs

| Run | Instance | Shows |
|---|---|---|
| `guard` | 2 requesters, 2-bit sequence numbers, 5 consumed requests (so the number wraps), 1 upset, any input in any cycle, resets | `LockdownSticky`, `ConsumedInOrder`, `LockdownFreezes`, `TypeOK` |
| `key_schedule` | 2 requesters, both values of `EPOCH_KEYS`, 2 roots, 3 epochs, 2 zeroizes, 2 rounds | `KeysMatchRootAndEpoch`, `ZeroizeLeavesNothing`, `KeysBecomeReady`, `ImplementsKeyStore`, `TypeOK` |
| `system` | hardened, 2 requests out of 11 kinds, 2 epochs, physical event and sentinel mismatch in any cycle | `ImplementsTrustedMemory`, `RequestAnswered`, `LocksForCause`, `NoFalseAlarm`, `TypeOK` |
| `system_campaign` | hardened, the four scenarios of `tb_fault_campaign.sv`, 1 upset of any of the seven register groups of `flip()` in any cycle | `ImplementsTrustedMemory`, `RequestAnswered` |
| `soc` | not hardened, 2 accesses out of 3 kinds (one the policy denies), 2 epochs, a hot tier in any cycle | `CpuToldTheTruth`, `BenignTrafficIsServed`, `AccessAnswered` |
| `mit` | 4 blocks, 3 of them used (two siblings and a cousin), 3 requests, 2 key sets, counters 0..2, and 2 of: init, zeroize, false read | `ReadsAreFresh`, `KeystreamOnce`, `NoFalseTamper`, `RequestAnswered` |
| `mit_subkey` | 1 request, 3 pulses | violation of `TreeUsesItsSubkey` |
| `pipeline` | 2 text blocks of 4 instructions, the first free over 11 or 12 instructions, 3 registers, 1 instruction cache line, 18 cycles; encrypted data, or plain data with programs that do not store | `ImplementsIsa`, `NeverStuck` |
| `pipeline_loop` | the first block made of `addi` and a branch to its own start | violation of `BranchesAreRecovered` |
| `fabric` | 4 layers, 4 words, blocks of 2, 2 roots, 2 epochs, 1 sentinel; 10 scenarios that say how many host calls, control calls, requests, deliveries and altered deliveries there are (up to 4 of a kind) | `EncryptionIsTransparent`, `HiddenKeySurvives`, `InOrderExactlyOnce`, `AcknowledgedMeansExecuted`, `KeysFollowRootAndEpoch`, `KeyTierStaysWiped`, `NoFalseAlarm` |
| `image` | images of 24 words in blocks of 2, a header of 2 words, 2 keys, every source of up to 3 out of 19 lines, sizes around every limit, two encryptions, runs, accesses, dumps, images put back, two damages | `TwoPassesAgree`, `AcceptedIsSealed`, `TextMapIsPermutation`, `RunsOnlySealedContent`, `IntactImageOpens`, `ReloadableAfterRun`, `LabelsMeanTheSame`, `RunChangesOnlyData` |
| `image_overlap` | 2 words of text and 12 of data, which reach the upper half of the memory | violation of `ReloadableAfterRun` |

Why the bounds are enough. Two requests are what a replay, a consumed number
after a denial, or a stale register of the previous transaction takes; two epochs
give one change at any cycle; the guard's run has the wrap; two roots and two
zeroizes let a late AES result of one root meet the derivation from the next; one
upset is the fault model the hardening claims (`tb_fault_campaign.sv`). In the
integrity tree a false read returns any block, counter or node ever stored, in any
combination, or junk; the engine never looks at a word, so that distinct ones for
distinct requests are as good as all; write, write, read is what a splice or a
rollback takes, and the second write of a block meets the last counter value. Four
free instructions hold every producer and consumer at distance one to three (the
pipeline is that deep behind decode), every branch position, and an illegal access
in front of and behind anything; the second block stores, loads and loops back, so
that blocks are fetched again through a one-line cache.

In `fabric` four calls on the stack are what encrypt, mask or write through, obfuscate
and decrypt take; three requests of two requesters delivered four times hold every
duplicate, gap and swap; an answer is compared with every request of the session. In
`image` a text of five words is three blocks, so that the map moves blocks, and a store
changes one of two words of a block; damage replaces any block or header field by junk
or by that of any image there has been, twice for images that are dumped, which holds
every splice of two images; the sizes are those at which a region, its padding or the
hiding place first fails to fit: with one block left free the search for the key's bits
gives up under both keys, with two it succeeds under one of them and gives up over a bit
already taken under the other. The image tools may stop, so that this run and
`fabric` do not check for deadlock: their scenarios end.

The pipeline's refinement: an instruction takes effect when it leaves the execute
stage, `pc` is the oldest instruction that has not, and the registers are those of
the file with the memory stage written back. ADD stands for all two-source R-type
operations, SLL for SRL, ADDI for ORI; words are taken modulo 32. Programs keep the
assembler's rule that targets are block-aligned, and in `pipeline` no branch of the
first three slots goes to its own block, the case of `pipeline_loop`.

Fairness. `WF(ClockEdge)`: the clock does not stop. `VtfSoc` also assumes that a
derivation the abstract key store has begun ends, which `KeysBecomeReady` shows
of the real schedule from the clock alone. No fairness is assumed of the
environment: it may never send, load or change anything; where the clock edge is
one action together with its inputs, an idle cycle is a stuttering step, and every
liveness property speaks of states in which the hardware itself moves.

### What the violations say

* `mit_subkey`: neither a zeroize nor an init stops the AES core of the integrity
  tree; a keystream under way is taken for the tree subkey. The tree stays
  consistent with itself (`NoFalseTamper` and `ReadsAreFresh` hold), but it is not
  the documented one, and its subkey is a keystream block.
* `pipeline_loop`: a misprediction is a difference of block addresses, so a taken
  branch from one of the first three slots to the start of its own block is not
  recognised and falls through. The assembler accepts such a loop.
* `image_overlap`: the hidden key avoids the text region but not the data region, and
  the encryptor accepts data in the words the key is hidden in. Such data decrypts to
  junk from the start, and the first legal store into such a block destroys hidden
  bits, so that resealing fails and the image cannot be loaded again.

Met while modelling, without a run of its own:

* one flipped rail of the guard's lockdown latch reads as locked and masks the severe
  event, so that the keys are not zeroized (`vertical_trust_guard.sv:182`; its header
  promises the zeroize for any mismatch);
* a severe event between the access and the signature sends the executed access's
  status 1 and word under the all-zero tag, which a comment calls a denial
  (`crypto3d_vtf_system_top.sv:344`); no requester that checks the tag believes it;
* an init of the integrity tree while it is busy also loses a done pulse of that cycle,
  and the engine never answers (`memory_integrity_tree.sv:222`; `RequestAnswered`
  excepts it through `interrupted`);
* the tag of a request is computed with the keys of the cycle it is taken in, and the
  epoch it names is compared afterwards, so that a request that names epoch *e+1* under
  a key of epoch *e* is served if the epoch moves in between
  (`crypto3d_vtf_system_top.sv:254`; `docs/THREAT_MODEL_2026.md:39`: "A tag from epoch
  *e* is useless in epoch *e+1*."). `AuthenticRequest` says exactly that;
* an epoch change between the signing and the verification of a response makes the
  bridge raise its sticky tamper flag;
* after an init of the integrity tree with the same keys the counters start over and
  what was stored before is accepted (`ReadsAreFresh` is stated for keys loaded once);
* a store to plain data drops the instructions behind it
  (`invalidateFrontendOnTextWrite`), which the encryptor's images never reach;
* a text that leaves less than two blocks of the memory free passes both size checks,
  but is almost never sealed. If it fills the memory, no word is left to hide the key in; with one
  block left (985 to 988 words of text, `text_end` = 1020) the 128 bits of the key must
  hit the 128 bits of that block in 2048 draws each over the whole upper half, which
  fails for almost every key (`3d.cpp:749`). `AcceptedIsSealed` says that the encryptor
  refuses an accepted program exactly when this search gives up;
* a run that is locked after a store writes the store back under the old image tag: the
  file is refused from then on. A `word_count` that cuts off hidden bits is refused;
* an older image put back opens (nothing in an image tells it from the newest);
* the software fabric answers status 1 to a write that a closed layer refuses, and
  sentinels installed on a closed or encrypted tier trip at the next check.

## 4. Proofs

Every theorem holds for every value of the constants that satisfies the named
assumptions of the modules: every number of requesters, layers, words, epochs, roots,
requests, AES rounds and cycles of a tag, every policy, every depth of tree, and every
layout, program and cache size. The assumptions on constants
say what the code's types and parameters guarantee (a role exists, a width is not
zero, the null value is not a key). Each invariant below is inductive: it holds
initially, every action keeps it, and the properties follow.

**`GuardProofs`** (about `GuardHarness`): `TypeCorrect`, `LockdownIsSticky`,
`ReplayProtection`, `LockdownIsFrozen`, the four properties of the run `guard`.
`LockdownSticky` alone is not inductive: a severe event must have moved *both* rails,
unless one was upset since; and `ConsumedInOrder` needs `last_sequence` to be the last
number served, unless an upset made the parity disagree. `IInv` therefore relates
rails, parities and shadow state by cases on `upsets`, and the assumption
`FaultBudget` says that the hardening is on and at most one register is upset
between resets: with two, both properties are false. The assumption `ParityOfZero`
(and `ParityOfZeroWord` in `VtfSystem`) states an instance of arithmetic on powers of
two that the provers do not evaluate; TLC evaluates it on every run.

**`KeyScheduleProofs`**: `TypeCorrect`, `OfferedKeysAreRight`, `ZeroizeWipes` and
`Refinement`, that `VtfKeySchedule` implements `KeyStore`. A zeroize may come while the
AES core is in the middle of a block of the old root, and the next root may be loaded
while it still runs. The invariant says for every state of the FSM where the core is
with the block it was given (`CoreInStep`) and which keys are already those of the root
(`Progress`); in an empty schedule the core may hold anything, but its result is not
taken. `ZeroizeWipes` is about the schedule's own registers: the core's result and
datapath registers are not wiped and keep key material until the next run of the core.

**`SystemProofs`**: `NoFalseAlarms` and `LockedForCause`, for any number of upsets
allowed, hardened or not; `TypeCorrect` and `Refinement`, that `VtfSystem` implements
`TrustedMemory`, under
`MaxUpsets = 0`. The invariant describes the transaction in flight state by state
(`InFlight`): which message and key the CMAC unit works on, what an accepted tag says of
the latched request, what the response registers say of the memory, all of it while keys
are wiped and the epoch moves in any cycle. `NoFalseAlarms` is about the alarm register
alone: before an upset no redundancy check raises it. What may lock the fabric before an
upset is the subject of `LockedForCause`: an event, a sentinel, or a request that is not
`Rightful`. It needs that until the fabric locks the CMAC key is that of the requester
and of the epoch in which the request was taken (`Authenticating`), so that a right tag
is recognised; it leaves out the request that names an epoch not yet active when it is
taken, which is checked with the key of the former one. After an upset it claims nothing of the
registers, so that the refinement with one upset stays with the run `system_campaign`.

**`SocProofs`**: `CpuIsToldTheTruth` and `BenignTrafficServed`. The invariant adds to
that of the fabric what the bridge holds of the transaction in each of its states
(`Link`) and, as long as nothing disturbed the system, that both key schedules, both
sequence counters and the tags on both sides agree (`Benign`). Disturbed means an event,
or an epoch change while an access is in flight: after either `BenignTrafficServed`
claims nothing.

**`FabricProofs`** (about `VerticalTrustFabric`, with lemmas on every method of the stack):
`KeysFollow`, `TakenOnceInOrder`, `WipedTierStaysWiped`, `NoFalseAlarms`. The order of
requests needs two things that are not in the property: which issued requests pass the
checks at all, namely those of this session (`Fresh`), and that the counters of both
sides are the lengths of the two histories (`Session`). That nothing altered passes is
the lemma `Authentic`: a tag is over all fields.

Its second part, about the words below: `EncryptionTransparent`, `HiddenKeyStays`,
`AnswersAreTrue`. The state of a stack after an arbitrary sequence of encryptions,
masks, writes through the encryption, copies, obfuscations and resets has no short
description in terms of the calls; the invariant (`Stored`, `Seen`) gives it in terms of
the same stack without AES: a layer that was not made unreadable holds its words, or
block by block their encryption under the layer's key and mask. It needs that words
the fabric and the host write are not themselves ciphertext (`PlainData`), that the
number of words is a multiple of the block (the constructor rounds it), and for hidden
keys `StashOK`. `AnswersOK` adds that an answer of status 1 repeats an issued request
that was executed, and was signed by the schedule that accepted it; that two schedules
with the same response key have the same request keys (`SameScheduleKeys`) ties it to
the present session.

**`MitProofs`** (about `MemoryIntegrityTree`): `EveryReadIsFresh`, `NoKeystreamTwice` and
`TruthIsNoTampering`. The first two hold as long as no key set is loaded for a second
init. The storage answers with anything, so that the invariant says
nothing of what is stored until a path has been checked: `Bound` says which counter of a
leaf the root admits, through the sequence of nodes that leads from the leaf to it, and
`Latest` that the admitted counter of a block is the one of its last write. When a commit
moves the root, the paths of all other leaves must lead to the new one (`OtherPaths`):
each meets the path of the write in a sibling that the verification just read.
`FreshNode` keeps this true while the tree is built by reads that may be false.
`NoFalseTamper` needs the opposite direction (`Honesty`): as long as no read was false,
the storage holds the tree of the root, and during a commit which of its nodes are
already new. The core and the tag unit are tracked cycle by cycle (`CoreOK`, `Coming`):
neither a zeroize nor an init stops them, and the proof needs `LatencyAssumption`, that a
tag takes no less time than a run of the AES core (it is two of them). Were the core
slower, a keystream of before an init could be taken for the one of the next request. The
powers of two in the indices are had from the cardinality of power sets, since the
provers know nothing else about exponents.

**`CpuProofs`** (about `CpuPipeline`): `AlwaysMoving`, for every image, and
`PipelineImplementsIsa`. The invariant `State` says of every stage which instruction of
the text it holds (through the map of text blocks and the lines of the instruction
cache), that plain data in the data cache is what memory holds, that decode read the
register file (`ReadFrom`) and that execute computed from the registers as all older
instructions leave them (`Operands`): this is where the order of the forwarding sources
and the load-use stall count, and where the proof fails if the oldest source is taken
first. `NeverStuck` follows from `Progress`: the number of idle cycles is bounded by
the first occupied stage. The refinement adds `Path`: behind each instruction in the
pipeline is its predicted successor, and one that leaves execute without misprediction
is followed by the instruction the program runs next. It holds for
`AssembledImage`, that is, under three conditions on the image, each of them necessary:
targets are the first word of a text block (the assembler refuses others,
`asm_to_hex.cpp:706`); no conditional branch goes to the start of the block it falls
through to, unless it is the next word itself (the disagreement shown by
`pipeline_loop`); an image with plain data has no stores (such a store drops the
instructions behind it, and the encryptor always encrypts data). Every image of the run
`pipeline` satisfies them (`MCImagesAssembled`). `PipelineAssumption` also takes from
`Toolchain` that the map of text blocks is injective, where TLC checks it
(`TextMapIsPermutation`).

**`ImageProofs`** (about `Toolchain`): `AssembledIsSealed`, `RunsKeepTheRest`,
`OnlySealedRuns`, `SealedOpens` and `RunsStayReloadable`, for every size of memory, header
and block, every program, key and epoch, and any number of tool runs, accesses, damages
and files put back. The argument has three layers.

* What the functions compute. `EncryptorIs` follows a program through region settings,
  the text map, encryption, hiding and both tags: the encryptor succeeds exactly if
  the search places every bit of the key, and `Made` says what is in the file. `ValidateIs`,
  `OpenIs`, `ResealIs`, `WriteIs` and `DecryptorIs` do the same for the other tools.
* `Shape`: files and processes are what these lemmas expect, and during a run whatever is
  loaded and not data is as it is in the file. From it follows `RunChangesOnlyData`.
* `Trust`: a tag in a file is zero or was computed when some file was sealed; a file with
  a recorded content is sound (`Sound`: the key comes out, every text and data block is
  under it, what they decrypt to is that content, the tags are right); a run under way
  has such an image but for the tag (`Live`), with its stores in it, and all the blocks it
  depends on are among those read from and written to the file, however few words the
  run loads. `Unforged` is the step against mixed files: an image tag covers fields,
  measurement, text and data, and the session key; a key tag covers the hidden key and
  the nonce it is bound to. A file that takes them from two sealed files still opens
  only with the contents of the first.

Two hypotheses stand before these theorems. `HexFiles`, that the assembler's output is
two sequences of words, is what a recursion over the source returns; TLC checks it as
part of `TwoPassesAgree`. `DataBelowKey`, that the data ends below the blocks the key may
be hidden in, is needed by the last three: without it all three are false, for the
reason the run `image_overlap` shows. Every program of the run `image` that is run,
damaged or dumped satisfies both; the programs of its size scenarios need not.
`MapAssumption` says that the map of text blocks is injective for the
constants at hand: it rests on the search in `Coprime`, and TLC evaluates it on every
run. `HiddenAssumption` says that the header is below the blocks a key may be hidden in.
Nothing is assumed of `HideDraw`: `AssembledIsSealed` does not say for which keys the
search succeeds, only that nothing else refuses and that it cannot when no block is free.

What the attempts changed in the models. The histories of the fabric claimed too much
or too little: `reused` must also be set when the key hierarchy is switched back to
the keys of an earlier session (`Reuse`), and `executed` must hold what was executed on
unreadable layers as well, after which `AcknowledgedMeansExecuted` holds without an
exception for them. A copy onto a layer makes it readable or unreadable as its
source is (`HostCopy`). A hidden key that does not fit the layer is not found again,
so that `HiddenKeySurvives` asks for the room. `AuthenticRequest` had to admit
a tag of an earlier epoch (see above). The run `fabric` has two scenarios for these cases.

Only model-checked:

* the liveness properties (`KeysBecomeReady`, `RequestAnswered`, `AccessAnswered`):
  fairness is out of the prover's reach;
* `ImplementsTrustedMemory` with an upset register;
* what a recursion over data computes for every input: the two passes of the assembler,
  the search in `Coprime`, and so `TwoPassesAgree`,
  `TextMapIsPermutation` and `LabelsMeanTheSame` of `Toolchain`.

## 5. Plan

In order of what matters most:

1. `ImplementsTrustedMemory` with one upset, from a description of the registers
   after each kind of upset; the guard's part is done in `GuardProofs`.
2. A detailed `AesCmac32` refining `CmacUnit`; a reset action of the system.
3. The C++ integrity tree (`memory_integrity.h`) refined by the RTL engine.

## 6. Not modelled

AES, SHA-256, HMAC and HKDF as functions on bits (symbolic here); the masked
S-box (a property of distributions); the PUF decoder; the TSV delay lines and
unprotected baselines (no control of their own); lexing, number and register syntax,
options and hex files of the tools, and the encryptor's random numbers; the logs,
statistics counters and random layer choice of the software stack and fabric; the C++
integrity tree apart from the RTL's; the result collection scripts.
