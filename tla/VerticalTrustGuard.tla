--------------------------- MODULE VerticalTrustGuard ---------------------------
(***************************************************************************)
(* The vertical trust guard (hardware_3d/rtl/vertical_trust_guard.sv): the  *)
(* policy, epoch, replay and environment checks in front of the stacked     *)
(* memory, with its lockdown latch.                                         *)
(*                                                                          *)
(* A step is one rising edge of clk.  `in' is the record of the wires the   *)
(* guard samples in that cycle; the combinational outputs are operators on  *)
(* `in' and on the registers, and Cycle(in) is the always_ff block.  A      *)
(* composing module supplies `in' from its own registers.                   *)
(***************************************************************************)
EXTENDS Integers, FiniteSets

CONSTANTS
    Layers,         \* tiers, the indices below LAYERS
    LayerRole,      \* layer_role_i
    Requesters,     \* requester indices below REQUESTERS
    SeqWidth,       \* bits of a sequence number: 32 in the code
    SeqMod,         \* 2^SeqWidth, where sequence numbers wrap
    MaxTempMc,      \* MAX_TEMP_MC
    FaultHarden,    \* FAULT_HARDEN
    Epochs,         \* security epochs the environment uses
    Temperatures    \* tier temperatures the environment produces

Roles == {"EXEC", "DATA", "KEY_HIDE", "SENTINEL", "RESERVED"}
RequesterIds == {"CPU_FETCH", "CPU_DATA", "SECURITY", "DMA", "DEBUG"}
NoRequester == "NO_REQUESTER"   \* a requester_i at or above REQUESTERS
NoLayer == "NO_LAYER"           \* a layer_i at or above LAYERS
DenyReasons == {"NONE", "LOCKDOWN", "POLICY", "AUTH", "REPLAY", "EPOCH",
                "THERMAL", "PHYSICAL", "SENTINEL", "FAULT"}

ASSUME GuardAssumption ==
    /\ Requesters \subseteq RequesterIds
    /\ NoLayer \notin Layers
    /\ LayerRole \in [Layers -> Roles]
    /\ SeqWidth \in Nat
    /\ SeqMod \in Nat \ {0}
    /\ SeqMod = 2 ^ SeqWidth
    /\ MaxTempMc \in Int
    /\ FaultHarden \in BOOLEAN
    /\ Temperatures \subseteq Int

Seqs == 0 .. SeqMod - 1

VARIABLES
    lockdown_q,     \* lockdown latch, true rail
    lockdown_n_q,   \* lockdown latch, complement rail
    last_sequence,  \* last sequence number consumed, per requester
    seq_par_q       \* parity of last_sequence, per requester

guardVars == <<lockdown_q, lockdown_n_q, last_sequence, seq_par_q>>

\* ^x, the reduction XOR: the parity of the set bits of a sequence number.
BitParity(x) ==
    Cardinality({k \in 0 .. SeqWidth - 1 : (x \div 2 ^ k) % 2 = 1}) % 2

\* Arithmetic the provers cannot do through 2 ^ k: zero has no set bit.
ASSUME ParityOfZero == BitParity(0) = 0

GuardInputs ==
    [req_valid      : BOOLEAN,
     requester      : Requesters \union {NoRequester},
     op_write       : BOOLEAN,
     layer          : Layers \union {NoLayer},
     sequence       : Seqs,
     epoch          : Epochs,
     active_epoch   : Epochs,
     auth_ok        : BOOLEAN,
     debug_unlocked : BOOLEAN,
     temperature_mc : [Layers -> Temperatures],
     physical_fault : BOOLEAN,
     sentinel_fault : BOOLEAN]

-----------------------------------------------------------------------------
(* Combinational logic.                                                      *)

thermal_alarm(in) == \E l \in Layers : in.temperature_mc[l] > MaxTempMc

\* Mutant of locked: only the true rail is read.
locked_one_rail == lockdown_q

\* Fail-safe decoding: with the hardening, either rail locks.
locked == lockdown_q \/ (FaultHarden /\ ~lockdown_n_q)

\* Mutant of internal_fault: the sequence parity is not checked.
internal_fault_rails_only == FaultHarden /\ lockdown_q = lockdown_n_q

internal_fault ==
    /\ FaultHarden
    /\ \/ lockdown_q = lockdown_n_q
       \/ \E r \in Requesters : BitParity(last_sequence[r]) # seq_par_q[r]

requester_ok(in) == in.requester \in Requesters
layer_ok(in) == in.layer \in Layers

policy_ok(in) ==
    /\ requester_ok(in)
    /\ layer_ok(in)
    /\ LET role == LayerRole[in.layer] IN
       \/ in.requester = "CPU_FETCH" /\ ~in.op_write /\ role = "EXEC"
       \/ in.requester \in {"CPU_DATA", "DMA"} /\ role = "DATA"
       \/ in.requester = "SECURITY"
       \/ in.requester = "DEBUG" /\ in.debug_unlocked /\ role \in {"EXEC", "DATA"}

environment_severe(in) ==
    in.physical_fault \/ in.sentinel_fault \/ thermal_alarm(in) \/ internal_fault

\* The four checks of a request, in the order of their deny reasons.
well_formed(in) == requester_ok(in) /\ layer_ok(in)
epoch_current(in) == in.epoch = in.active_epoch
sequence_next(in) ==
    in.sequence = (last_sequence[in.requester] + 1) % SeqMod

\* Mutant of examined: the lockdown latch is not looked at.
examined_in_lockdown(in) == in.req_valid /\ ~environment_severe(in)

\* The request reaches the request checks at all.
examined(in) == in.req_valid /\ ~locked /\ ~environment_severe(in)

\* Authentication, epoch and freshness succeeded: the sequence number is
\* consumed whether or not the policy then allows the access.
consume_sequence(in) ==
    /\ examined(in)
    /\ well_formed(in)
    /\ epoch_current(in)
    /\ in.auth_ok
    /\ sequence_next(in)

request_severe(in) == examined(in) /\ ~consume_sequence(in)
severe_event_o(in) == ~locked /\ (environment_severe(in) \/ request_severe(in))
key_zeroize_o(in) == severe_event_o(in)
lockdown_o(in) == locked \/ severe_event_o(in)
allow_o(in) == consume_sequence(in) /\ policy_ok(in)

deny_reason_o(in) ==
    IF locked THEN IF in.req_valid THEN "LOCKDOWN" ELSE "NONE"
    ELSE IF internal_fault THEN "FAULT"
    ELSE IF in.physical_fault THEN "PHYSICAL"
    ELSE IF in.sentinel_fault THEN "SENTINEL"
    ELSE IF thermal_alarm(in) THEN "THERMAL"
    ELSE IF ~in.req_valid THEN "NONE"
    ELSE IF ~well_formed(in) THEN "POLICY"
    ELSE IF ~epoch_current(in) THEN "EPOCH"
    ELSE IF ~in.auth_ok THEN "AUTH"
    ELSE IF ~sequence_next(in) THEN "REPLAY"
    ELSE IF ~policy_ok(in) THEN "POLICY"
    ELSE "NONE"

denied_o(in) == deny_reason_o(in) # "NONE"

-----------------------------------------------------------------------------
(* Registers.                                                                *)

ResetState ==
    /\ lockdown_q = FALSE
    /\ lockdown_n_q = TRUE
    /\ last_sequence = [r \in Requesters |-> 0]
    /\ seq_par_q = [r \in Requesters |-> 0]

\* rst_n low at the edge.
Reset ==
    /\ lockdown_q' = FALSE
    /\ lockdown_n_q' = TRUE
    /\ last_sequence' = [r \in Requesters |-> 0]
    /\ seq_par_q' = [r \in Requesters |-> 0]

\* Mutant of StoreSequence: the parity register takes the number itself.
StoreSequence_no_reduction(in) ==
    /\ last_sequence' = [last_sequence EXCEPT ![in.requester] = in.sequence]
    /\ seq_par_q' = [seq_par_q EXCEPT ![in.requester] = in.sequence]

StoreSequence(in) ==
    /\ last_sequence' = [last_sequence EXCEPT ![in.requester] = in.sequence]
    /\ seq_par_q' = [seq_par_q EXCEPT ![in.requester] = BitParity(in.sequence)]

\* Mutant of Cycle: a request the policy denies does not consume its number.
Cycle_allowed_only(in) ==
    /\ lockdown_q' = (lockdown_q \/ severe_event_o(in))
    /\ lockdown_n_q' = (lockdown_n_q /\ ~severe_event_o(in))
    /\ IF allow_o(in) THEN StoreSequence(in) ELSE UNCHANGED <<last_sequence, seq_par_q>>

Cycle(in) ==
    /\ lockdown_q' = (lockdown_q \/ severe_event_o(in))
    /\ lockdown_n_q' = (lockdown_n_q /\ ~severe_event_o(in))
    /\ IF consume_sequence(in)
       THEN StoreSequence(in)
       ELSE UNCHANGED <<last_sequence, seq_par_q>>

-----------------------------------------------------------------------------
(* Upsets of the guard's own registers, the fault model of FAULT_HARDEN.     *)
(* A flip of an odd number of bits of a sequence register is what its parity *)
(* bit can see; a single-bit upset is one of them.                           *)

FlipRail ==
    /\ \/ lockdown_q' = ~lockdown_q /\ UNCHANGED lockdown_n_q
       \/ lockdown_n_q' = ~lockdown_n_q /\ UNCHANGED lockdown_q
    /\ UNCHANGED <<last_sequence, seq_par_q>>

FlipSequence(r) ==
    /\ \E s \in Seqs :
          /\ BitParity(s) # BitParity(last_sequence[r])
          /\ last_sequence' = [last_sequence EXCEPT ![r] = s]
    /\ UNCHANGED <<lockdown_q, lockdown_n_q, seq_par_q>>

FlipParity(r) ==
    /\ seq_par_q' = [seq_par_q EXCEPT ![r] = 1 - seq_par_q[r]]
    /\ UNCHANGED <<lockdown_q, lockdown_n_q, last_sequence>>

=============================================================================
