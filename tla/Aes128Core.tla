------------------------------- MODULE Aes128Core -------------------------------
(***************************************************************************)
(* The iterative AES-128 core (hardware_3d/rtl/aes128_core.sv): a start     *)
(* pulse is taken only when the core is idle, one round is done per cycle,  *)
(* and the result comes with a one-cycle done pulse.  The cipher itself is  *)
(* an uninterpreted injective term, Encrypt(key, block).                    *)
(***************************************************************************)
EXTENDS Integers

CONSTANT Rounds     \* rounds of one encryption: 10 in the code

VARIABLES
    busy_o,
    done_o,
    result_o,
    round_q,        \* 0 when idle
    work_q          \* the <<key, block>> in the datapath, << >> when idle

aesVars == <<busy_o, done_o, result_o, round_q, work_q>>

Zero == << >>       \* the all-zero block or key

Encrypt(key, block) == <<"aes", key, block>>

ResetCore ==
    /\ busy_o = FALSE
    /\ done_o = FALSE
    /\ result_o = Zero
    /\ round_q = 0
    /\ work_q = Zero

StartRound(key, block) ==
    /\ ~busy_o
    /\ busy_o' = TRUE
    /\ done_o' = FALSE
    /\ round_q' = 1
    /\ work_q' = <<key, block>>
    /\ UNCHANGED result_o

IdleCore ==
    /\ ~busy_o
    /\ done_o' = FALSE
    /\ UNCHANGED <<busy_o, result_o, round_q, work_q>>

NextRound ==
    /\ busy_o
    /\ round_q # Rounds
    /\ round_q' = round_q + 1
    /\ done_o' = FALSE
    /\ UNCHANGED <<busy_o, result_o, work_q>>

LastRound ==
    /\ busy_o
    /\ round_q = Rounds
    /\ result_o' = Encrypt(work_q[1], work_q[2])
    /\ busy_o' = FALSE
    /\ done_o' = TRUE
    /\ round_q' = 0
    /\ work_q' = Zero

\* One clock edge; start is ignored while the core is busy.
Edge(start, key, block) ==
    \/ start /\ StartRound(key, block)
    \/ ~start /\ IdleCore
    \/ NextRound
    \/ LastRound

=============================================================================
