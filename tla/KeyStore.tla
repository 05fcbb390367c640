-------------------------------- MODULE KeyStore --------------------------------
(***************************************************************************)
(* What the VTF key schedule promises its users: working keys exist only    *)
(* after a root was loaded, they belong to one root and one epoch, an epoch *)
(* change withdraws them until they are derived again, and a zeroize        *)
(* destroys them until the next load.  VtfKeySchedule implements this.      *)
(***************************************************************************)
EXTENDS Integers

CONSTANTS
    Roots,          \* device root keys secure boot may load
    NoRoot,
    MaxEpoch        \* bound on the security epoch

Epochs == 0 .. MaxEpoch
NoEpoch == -1

VARIABLES
    phase,          \* "EMPTY", "DERIVING" or "READY"
    root,           \* the root the keys come from
    epoch,          \* the epoch of the working keys, NoEpoch before there are any
    active_epoch,   \* active_epoch_i
    epoch_keys      \* EPOCH_KEYS, fixed in a build: derive the working keys per epoch

keyStoreVars == <<phase, root, epoch, active_epoch>>

ready == phase = "READY" /\ (epoch_keys => epoch = active_epoch)

Init ==
    /\ phase = "EMPTY"
    /\ root = NoRoot
    /\ epoch = NoEpoch
    /\ active_epoch = 0
    /\ epoch_keys \in BOOLEAN

Load(r) ==
    /\ phase = "EMPTY"
    /\ phase' = "DERIVING"
    /\ root' = r
    /\ UNCHANGED <<epoch, active_epoch>>

\* The working keys are derived for the epoch that is active when their
\* derivation begins, even if the epoch moves on before it ends.
BindEpoch ==
    /\ phase = "DERIVING"
    /\ epoch = NoEpoch
    /\ epoch' = active_epoch
    /\ UNCHANGED <<phase, root, active_epoch>>

Finish ==
    /\ phase = "DERIVING"
    /\ epoch # NoEpoch
    /\ phase' = "READY"
    /\ UNCHANGED <<root, epoch, active_epoch>>

Rekey ==
    /\ epoch_keys
    /\ phase = "READY"
    /\ epoch # active_epoch
    /\ phase' = "DERIVING"
    /\ epoch' = active_epoch
    /\ UNCHANGED <<root, active_epoch>>

Zeroize ==
    /\ phase' = "EMPTY"
    /\ root' = NoRoot
    /\ epoch' = NoEpoch
    /\ UNCHANGED active_epoch

AdvanceEpoch ==
    /\ active_epoch < MaxEpoch
    /\ active_epoch' = active_epoch + 1
    /\ UNCHANGED <<phase, root, epoch>>

Next ==
    /\ \/ \E r \in Roots : Load(r)
       \/ BindEpoch
       \/ Finish
       \/ Rekey
       \/ Zeroize
       \/ AdvanceEpoch
    /\ UNCHANGED epoch_keys

Spec == Init /\ [][Next]_<<keyStoreVars, epoch_keys>>

=============================================================================
