------------------------------ MODULE GuardProofs ------------------------------
(***************************************************************************)
(* Proofs about the vertical trust guard, for every set of requesters and   *)
(* tiers, every sequence width and every environment.                       *)
(*                                                                          *)
(* What makes the safety properties inductive is a description of what one  *)
(* upset can do: before it, every redundant register agrees with the shadow *)
(* state (Clean); after it, the hardened guard is locked or sees an         *)
(* internal fault, so it never consumes a request again before reset.       *)
(***************************************************************************)
EXTENDS GuardHarness, FiniteSetTheorems, TLAPS

\* The configurations the guard's header promises to withstand: at most one
\* upset with the hardening, none without it.
FaultBudget == MaxUpsets = 0 \/ (FaultHarden /\ MaxUpsets = 1)

Clean ==
    /\ lockdown_q = severe_seen
    /\ lockdown_n_q = ~severe_seen
    /\ \A r \in Requesters :
          /\ seq_par_q[r] = BitParity(last_sequence[r])
          /\ last_sequence[r] = LastServed(r, Len(served[r]))

IInv ==
    /\ TypeOK
    /\ upsets = 0 => Clean
    /\ upsets # 0 => FaultHarden /\ (locked \/ internal_fault)
    /\ severe_seen => locked
    /\ ConsumedInOrder

-----------------------------------------------------------------------------
\* The parity of a register is one bit.
LEMMA ParityType == \A x : BitParity(x) \in {0, 1}
<1> TAKE x
<1> DEFINE S == {k \in 0 .. SeqWidth - 1 : (x \div 2 ^ k) % 2 = 1}
<1>1. IsFiniteSet(0 .. SeqWidth - 1)
  BY FS_Interval, GuardAssumption
<1>2. IsFiniteSet(S)
  BY <1>1, FS_Subset
<1>3. Cardinality(S) \in Nat
  BY <1>2, FS_CardinalityType
<1>4. \A n \in Nat : n % 2 \in {0, 1}
  OBVIOUS
<1>5. BitParity(x) = Cardinality(S) % 2
  BY DEF BitParity
<1>6. QED
  BY <1>3, <1>4, <1>5

\* A consumed request passed every check: the guard was unlocked and saw no
\* internal fault.
LEMMA ConsumeNeedsHealth ==
    ASSUME NEW in \in GuardInputs, consume_sequence(in)
    PROVE  /\ ~locked /\ ~internal_fault
           /\ in.requester \in Requesters
           /\ in.sequence \in Seqs
           /\ in.sequence = (last_sequence[in.requester] + 1) % SeqMod
BY DEF consume_sequence, examined, environment_severe, well_formed,
       requester_ok, sequence_next, GuardInputs

\* Initial states satisfy the inductive invariant.
LEMMA InitInv == Init => IInv
<1> SUFFICES ASSUME Init PROVE IInv
  OBVIOUS
<1>1. 0 \in Seqs
  BY GuardAssumption DEF Seqs
<1>2. TypeOK
  <2>1. lockdown_q \in BOOLEAN /\ lockdown_n_q \in BOOLEAN
        /\ severe_seen \in BOOLEAN
    BY DEF Init, ResetState
  <2>2. last_sequence \in [Requesters -> Seqs] /\ seq_par_q \in [Requesters -> {0, 1}]
    BY <1>1 DEF Init, ResetState
  <2>3. << >> \in Seq(Seqs)
    OBVIOUS
  <2>4. served \in [Requesters -> Seq(Seqs)]
    BY <2>3 DEF Init
  <2>5. upsets \in 0 .. MaxUpsets
    BY HarnessAssumption DEF Init
  <2>6. QED
    BY <2>1, <2>2, <2>4, <2>5 DEF TypeOK
<1>3. Clean
  BY ParityOfZero DEF Init, ResetState, Clean, LastServed
<1>4. ~severe_seen /\ upsets = 0
  BY DEF Init
<1>5. ConsumedInOrder
  BY DEF Init, ConsumedInOrder
<1>6. QED
  BY <1>2, <1>3, <1>4, <1>5 DEF IInv

\* A clock edge preserves the inductive invariant.
LEMMA ClockEdgeInv ==
    ASSUME FaultBudget, IInv, NEW in \in GuardInputs, ClockEdge(in)
    PROVE  IInv'
<1> DEFINE r0 == in.requester
           sev == severe_event_o(in)
<1>1. /\ lockdown_q' = (lockdown_q \/ sev)
      /\ lockdown_n_q' = (lockdown_n_q /\ ~sev)
      /\ severe_seen' = (severe_seen \/ sev)
      /\ upsets' = upsets
  BY DEF ClockEdge, Cycle, StoreSequence
<1>2. sev => ~locked
  BY DEF severe_event_o
<1>3. sev \in BOOLEAN
  BY DEF severe_event_o
<1>4. TypeOK
  BY DEF IInv
<1>5. CASE consume_sequence(in)
  <2>1. /\ ~locked /\ ~internal_fault
        /\ r0 \in Requesters
        /\ in.sequence \in Seqs
        /\ in.sequence = (last_sequence[r0] + 1) % SeqMod
    BY <1>5, ConsumeNeedsHealth
  <2>2. /\ last_sequence' = [last_sequence EXCEPT ![r0] = in.sequence]
        /\ seq_par_q' = [seq_par_q EXCEPT ![r0] = BitParity(in.sequence)]
        /\ served' = [served EXCEPT ![r0] = Append(@, in.sequence)]
    BY <1>5 DEF ClockEdge, Cycle, StoreSequence
  <2>3. upsets = 0 /\ Clean
    BY <2>1 DEF IInv
  <2>4. ~sev
    BY <1>5 DEF severe_event_o, request_severe, consume_sequence, examined
  <2>5. TypeOK'
    BY <1>1, <1>3, <1>4, <2>1, <2>2, ParityType DEF TypeOK
  <2>6. Clean'
    <3>1. lockdown_q' = severe_seen' /\ lockdown_n_q' = ~severe_seen'
      BY <1>1, <2>3, <2>4 DEF Clean
    <3>2. ASSUME NEW r \in Requesters
          PROVE  /\ seq_par_q'[r] = BitParity(last_sequence'[r])
                 /\ last_sequence'[r] = LastServed(r, Len(served[r]))'
      <4>1. CASE r = r0
        <5>1. /\ last_sequence'[r] = in.sequence
              /\ seq_par_q'[r] = BitParity(in.sequence)
              /\ served'[r] = Append(served[r], in.sequence)
          BY <4>1, <2>1, <2>2, <1>4 DEF TypeOK
        <5>2. served[r] \in Seq(Seqs)
          BY <1>4 DEF TypeOK
        <5>3. Len(served'[r]) = Len(served[r]) + 1 /\ Len(served[r]) \in Nat
              /\ served'[r][Len(served[r]) + 1] = in.sequence
          BY <5>1, <5>2, <2>1
        <5>4. QED
          BY <5>1, <5>3 DEF LastServed
      <4>2. CASE r # r0
        BY <4>2, <2>2, <2>3, <1>4 DEF TypeOK, Clean, LastServed
      <4>3. QED
        BY <4>1, <4>2
    <3>3. QED
      BY <3>1, <3>2 DEF Clean
  <2>7. ConsumedInOrder'
    <3> SUFFICES ASSUME NEW r \in Requesters, NEW n \in 1 .. Len(served'[r])
                 PROVE  served'[r][n] = (LastServed(r, n - 1)' + 1) % SeqMod
      BY DEF ConsumedInOrder
    <3>1. CASE r = r0
      <4>1. served[r] \in Seq(Seqs) /\ served'[r] = Append(served[r], in.sequence)
        BY <3>1, <1>4, <2>1, <2>2 DEF TypeOK
      <4>2. /\ Len(served[r]) \in Nat
            /\ Len(served'[r]) = Len(served[r]) + 1
            /\ \A m \in 1 .. Len(served[r]) : served'[r][m] = served[r][m]
            /\ served'[r][Len(served[r]) + 1] = in.sequence
        BY <4>1, <2>1
      <4>3. CASE n = Len(served[r]) + 1
        <5>1. last_sequence[r] = LastServed(r, Len(served[r]))
          BY <2>3 DEF Clean
        <5>2. LastServed(r, n - 1)' = LastServed(r, Len(served[r]))
          BY <4>2, <4>3 DEF LastServed
        <5>3. QED
          BY <3>1, <4>2, <4>3, <5>1, <5>2, <2>1
      <4>4. CASE n \in 1 .. Len(served[r])
        <5>1. LastServed(r, n - 1)' = LastServed(r, n - 1)
          BY <4>2, <4>4 DEF LastServed
        <5>2. QED
          BY <4>2, <4>4, <5>1 DEF IInv, ConsumedInOrder
      <4>5. QED
        BY <4>2, <4>3, <4>4
    <3>2. CASE r # r0
      <4>1. served'[r] = served[r]
        BY <3>2, <2>2, <1>4 DEF TypeOK
      <4>2. LastServed(r, n - 1)' = LastServed(r, n - 1)
        BY <4>1 DEF LastServed
      <4>3. QED
        BY <4>1, <4>2 DEF IInv, ConsumedInOrder
    <3>3. QED
      BY <3>1, <3>2
  <2>8. severe_seen' => locked'
    BY <1>1, <2>4, <2>6 DEF Clean, locked
  <2>9. QED
    BY <2>3, <2>5, <2>6, <2>7, <2>8, <1>1 DEF IInv
<1>6. CASE ~consume_sequence(in)
  <2>1. UNCHANGED <<last_sequence, seq_par_q, served>>
    BY <1>6 DEF ClockEdge, Cycle, StoreSequence
  <2>2. TypeOK'
    BY <1>1, <1>3, <1>4, <2>1 DEF TypeOK
  <2>3. ConsumedInOrder'
    BY <2>1 DEF IInv, ConsumedInOrder, LastServed
  <2>4. upsets' = 0 => Clean'
    BY <1>1, <1>3, <1>4, <2>1 DEF IInv, Clean, LastServed, TypeOK
  <2>5. locked => locked'
    BY <1>1, <1>2, <1>3, <1>4 DEF locked, TypeOK
  <2>6. ~locked /\ internal_fault => sev
    BY DEF severe_event_o, environment_severe
  <2>7. sev => locked'
    BY <1>1 DEF locked
  <2>8. QED
    BY <1>1, <2>2, <2>3, <2>4, <2>5, <2>6, <2>7 DEF IInv
<1>7. QED
  BY <1>5, <1>6

\* A reset edge re-establishes the inductive invariant.
LEMMA ResetEdgeInv == ASSUME ResetEdge PROVE IInv'
<1>1. 0 \in Seqs
  BY GuardAssumption DEF Seqs
<1>2. << >> \in Seq(Seqs)
  OBVIOUS
<1>3. /\ lockdown_q' = FALSE /\ lockdown_n_q' = TRUE
      /\ severe_seen' = FALSE /\ upsets' = 0
      /\ last_sequence' = [r \in Requesters |-> 0]
      /\ seq_par_q' = [r \in Requesters |-> 0]
      /\ served' = [r \in Requesters |-> << >>]
  BY DEF ResetEdge, Reset
<1>4. TypeOK'
  <2>1. /\ last_sequence' \in [Requesters -> Seqs]
        /\ seq_par_q' \in [Requesters -> {0, 1}]
        /\ served' \in [Requesters -> Seq(Seqs)]
    BY <1>1, <1>2, <1>3
  <2>2. upsets' \in 0 .. MaxUpsets
    BY <1>3, HarnessAssumption
  <2>3. QED
    BY <1>3, <2>1, <2>2, Zenon DEF TypeOK
<1>5. Clean'
  BY <1>3, ParityOfZero DEF Clean, LastServed
<1>6. ConsumedInOrder'
  BY <1>3 DEF ConsumedInOrder
<1>7. QED
  BY <1>3, <1>4, <1>5, <1>6 DEF IInv

\* An upset preserves the inductive invariant: the budget allows one, it hits a
\* hardened guard in a Clean state, and leaves it locked or with a visible fault.
LEMMA UpsetInv ==
    ASSUME FaultBudget, IInv, Upset
    PROVE  IInv'
<1>1. FaultHarden /\ upsets = 0 /\ upsets' = 1 /\ Clean /\ MaxUpsets = 1
  BY DEF FaultBudget, Upset, IInv, TypeOK
<1>2. UNCHANGED <<severe_seen, served>>
  BY DEF Upset
<1>3. TypeOK
  BY DEF IInv
<1>4. ConsumedInOrder'
  BY <1>2 DEF IInv, ConsumedInOrder, LastServed
<1>5. CASE FlipRail
  <2>1. TypeOK'
    <3>1. lockdown_q' \in BOOLEAN /\ lockdown_n_q' \in BOOLEAN
      BY <1>3, <1>5, Zenon DEF TypeOK, FlipRail
    <3>2. UNCHANGED <<last_sequence, seq_par_q>>
      BY <1>5 DEF FlipRail
    <3>3. upsets' \in 0 .. MaxUpsets
      BY <1>1
    <3>4. QED
      BY <1>2, <1>3, <3>1, <3>2, <3>3 DEF TypeOK
  <2>2. locked'
    BY <1>1, <1>3, <1>5 DEF FlipRail, Clean, locked, TypeOK
  <2>3. QED
    BY <1>1, <1>4, <2>1, <2>2 DEF IInv
<1>6. ASSUME NEW r \in Requesters, FlipSequence(r)
      PROVE  IInv'
  <2>1. PICK s \in Seqs : /\ BitParity(s) # BitParity(last_sequence[r])
                          /\ last_sequence' = [last_sequence EXCEPT ![r] = s]
    BY <1>6 DEF FlipSequence
  <2>2. UNCHANGED <<lockdown_q, lockdown_n_q, seq_par_q>>
    BY <1>6 DEF FlipSequence
  <2>3. TypeOK'
    BY <1>1, <1>2, <1>3, <2>1, <2>2 DEF TypeOK
  <2>4. BitParity(last_sequence'[r]) # seq_par_q'[r]
    BY <1>1, <1>3, <2>1, <2>2 DEF Clean, TypeOK
  <2>5. internal_fault'
    BY <1>1, <2>4 DEF internal_fault
  <2>6. severe_seen' => locked'
    BY <1>2, <2>2 DEF IInv, locked
  <2>7. QED
    BY <1>1, <1>4, <2>3, <2>5, <2>6 DEF IInv
<1>7. ASSUME NEW r \in Requesters, FlipParity(r)
      PROVE  IInv'
  <2>1. /\ seq_par_q' = [seq_par_q EXCEPT ![r] = 1 - seq_par_q[r]]
        /\ UNCHANGED <<lockdown_q, lockdown_n_q, last_sequence>>
    BY <1>7 DEF FlipParity
  <2>2. 1 - seq_par_q[r] \in {0, 1} /\ 1 - seq_par_q[r] # seq_par_q[r]
    BY <1>3 DEF TypeOK
  <2>3. TypeOK'
    BY <1>1, <1>2, <1>3, <2>1, <2>2 DEF TypeOK
  <2>4. BitParity(last_sequence'[r]) # seq_par_q'[r]
    BY <1>1, <1>3, <2>1, <2>2 DEF Clean, TypeOK
  <2>5. internal_fault'
    BY <1>1, <2>4 DEF internal_fault
  <2>6. severe_seen' => locked'
    BY <1>2, <2>1 DEF IInv, locked
  <2>7. QED
    BY <1>1, <1>4, <2>3, <2>5, <2>6 DEF IInv
<1>8. QED
  BY <1>5, <1>6, <1>7 DEF Upset

\* The inductive invariant holds in every reachable state.
THEOREM GuardInvariant == ASSUME FaultBudget PROVE Spec => []IInv
<1>1. Init => IInv
  BY InitInv
<1>2. IInv /\ [Next]_vars => IInv'
  <2> SUFFICES ASSUME IInv, [Next]_vars PROVE IInv'
    OBVIOUS
  <2>1. CASE \E in \in GuardInputs : ClockEdge(in)
    BY <2>1, ClockEdgeInv
  <2>2. CASE ResetEdge
    BY <2>2, ResetEdgeInv
  <2>3. CASE Upset
    BY <2>3, UpsetInv
  <2>4. CASE UNCHANGED vars
    BY <2>4 DEF vars, guardVars, shadowVars, IInv, TypeOK, Clean, LastServed,
                locked, internal_fault, ConsumedInOrder
  <2>5. QED
    BY <2>1, <2>2, <2>3, <2>4 DEF Next
<1>3. QED
  BY <1>1, <1>2, PTL DEF Spec

\* Every register of the guard and of the harness stays in its type.
THEOREM TypeCorrect == ASSUME FaultBudget PROVE Spec => []TypeOK
<1>1. IInv => TypeOK
  BY DEF IInv
<1>2. QED
  BY <1>1, GuardInvariant, PTL

\* Lockdown is permanent until reset, and only a severe event or an upset causes
\* it: the dual-rail latch of the guard withstands one upset.
THEOREM LockdownIsSticky == ASSUME FaultBudget PROVE Spec => []LockdownSticky
<1>1. IInv => LockdownSticky
  BY DEF IInv, LockdownSticky, Clean, locked, TypeOK
<1>2. QED
  BY <1>1, GuardInvariant, PTL

\* Replay protection: requests are consumed with consecutive sequence numbers,
\* for any environment, any width, and one upset of the hardened guard.
THEOREM ReplayProtection == ASSUME FaultBudget PROVE Spec => []ConsumedInOrder
<1>1. IInv => ConsumedInOrder
  BY DEF IInv
<1>2. QED
  BY <1>1, GuardInvariant, PTL

\* No request is consumed between a severe event and the next reset.
THEOREM LockdownIsFrozen == ASSUME FaultBudget PROVE Spec => LockdownFreezes
<1>1. IInv /\ [Next]_vars => [severe_seen /\ severe_seen' => served' = served]_vars
  <2> SUFFICES ASSUME IInv, Next, severe_seen, severe_seen' PROVE served' = served
    OBVIOUS
  <2>1. locked
    BY DEF IInv
  <2>2. ASSUME NEW in \in GuardInputs, ClockEdge(in) PROVE served' = served
    <3>1. ~consume_sequence(in)
      BY <2>1 DEF consume_sequence, examined
    <3>2. QED
      BY <2>2, <3>1 DEF ClockEdge
  <2>3. CASE ResetEdge
    BY <2>3 DEF ResetEdge
  <2>4. CASE Upset
    BY <2>4 DEF Upset
  <2>5. QED
    BY <2>2, <2>3, <2>4 DEF Next
<1>2. QED
  BY <1>1, GuardInvariant, PTL DEF Spec, LockdownFreezes

=============================================================================
