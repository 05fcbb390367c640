------------------------------ MODULE GuardHarness ------------------------------
(***************************************************************************)
(* The guard under free inputs, as hardware_3d/formal/                      *)
(* vertical_trust_guard_props.sv drives it, with shadow state updated only  *)
(* from the guard's outputs, and with the register upsets of                *)
(* hardware_3d/tb/tb_fault_campaign.sv.                                     *)
(***************************************************************************)
EXTENDS VerticalTrustGuard, Sequences

CONSTANTS
    MaxServed,      \* bound: requests consumed per requester
    MaxUpsets       \* bound: register upsets since reset

ASSUME HarnessAssumption == MaxServed \in Nat /\ MaxUpsets \in Nat

VARIABLES
    severe_seen,    \* a severe event (hence a key zeroize) since reset
    served,         \* sequence numbers consumed since reset, per requester
    upsets          \* register upsets since reset

shadowVars == <<severe_seen, served, upsets>>
vars == <<guardVars, shadowVars>>

Init ==
    /\ ResetState
    /\ severe_seen = FALSE
    /\ served = [r \in Requesters |-> << >>]
    /\ upsets = 0

ClockEdge(in) ==
    /\ consume_sequence(in) => Len(served[in.requester]) < MaxServed
    /\ Cycle(in)
    /\ severe_seen' = (severe_seen \/ severe_event_o(in))
    /\ served' = IF consume_sequence(in)
                 THEN [served EXCEPT ![in.requester] = Append(@, in.sequence)]
                 ELSE served
    /\ UNCHANGED upsets

ResetEdge ==
    /\ Reset
    /\ severe_seen' = FALSE
    /\ served' = [r \in Requesters |-> << >>]
    /\ upsets' = 0

Upset ==
    /\ upsets < MaxUpsets
    /\ FlipRail \/ \E r \in Requesters : FlipSequence(r) \/ FlipParity(r)
    /\ upsets' = upsets + 1
    /\ UNCHANGED <<severe_seen, served>>

Next ==
    \/ \E in \in GuardInputs : ClockEdge(in)
    \/ ResetEdge
    \/ Upset

Spec == Init /\ [][Next]_vars

-----------------------------------------------------------------------------
(* Properties.                                                               *)

TypeOK ==
    /\ lockdown_q \in BOOLEAN
    /\ lockdown_n_q \in BOOLEAN
    /\ last_sequence \in [Requesters -> Seqs]
    /\ seq_par_q \in [Requesters -> {0, 1}]
    /\ severe_seen \in BOOLEAN
    /\ served \in [Requesters -> Seq(Seqs)]
    /\ upsets \in 0 .. MaxUpsets

\* A severe event locks the guard until reset, even when one bit of its own
\* lockdown latch is upset afterwards; and while no register was upset, nothing
\* but a severe event locks it (P3 and the converse of P4 in
\* vertical_trust_guard_props.sv, the dual-rail claim of the guard's header).
LockdownSticky ==
    /\ severe_seen => locked
    /\ upsets = 0 /\ locked => severe_seen

\* The n-th sequence number the requester consumed, the reset value before the first.
LastServed(r, n) == IF n = 0 THEN 0 ELSE served[r][n]

\* Each consumed request carries exactly the number after the requester's last
\* consumed one, whatever the environment sends and although one upset may
\* corrupt last_sequence: the parity check denies before a corrupted counter
\* lets an old number through (P2 of vertical_trust_guard_props.sv).
ConsumedInOrder ==
    \A r \in Requesters : \A n \in 1 .. Len(served[r]) :
        served[r][n] = (LastServed(r, n - 1) + 1) % SeqMod

\* From a severe event on, no request is consumed until the guard is reset.
LockdownFreezes ==
    [][severe_seen /\ severe_seen' => served' = served]_vars

=============================================================================
