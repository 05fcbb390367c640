-------------------------------- MODULE CmacUnit --------------------------------
(***************************************************************************)
(* The AES-CMAC unit (hardware_3d/rtl/aes_cmac32.sv) as its users see it: a *)
(* start is taken when the unit is idle and not being cleared, the tag      *)
(* comes some cycles later with a one-cycle done pulse, and a clear aborts  *)
(* the computation, after which the unit drains before it is idle again.    *)
(* A tag is the pair of the key and the message.                            *)
(***************************************************************************)
EXTENDS Integers

CONSTANT CmacCycles     \* cycles of one tag computation

VARIABLE cmac           \* [left, live, done, tag]

Zero == << >>           \* the all-zero key or tag
Mac(key, msg) == <<key, msg>>

busy_o == cmac.left > 0

ResetUnit == cmac = [left |-> 0, live |-> FALSE, done |-> FALSE, tag |-> Zero]

TakeStart(start, key, msg, clear) ==
    /\ ~busy_o
    /\ start /\ ~clear
    /\ cmac' = [left |-> CmacCycles, live |-> TRUE, done |-> FALSE, tag |-> Mac(key, msg)]

StayIdle(start, clear) ==
    /\ ~busy_o
    /\ ~start \/ clear
    /\ cmac' = [cmac EXCEPT !.done = FALSE]

\* A clear in the last cycle comes too late: the tag is still delivered.
Deliver ==
    /\ cmac.left = 1
    /\ cmac' = [cmac EXCEPT !.left = 0, !.live = FALSE, !.done = cmac.live]

\* Mutant of Compute: the last cycle is not told apart.
Compute_off_by_one ==
    /\ cmac.left > 0
    /\ cmac' = [cmac EXCEPT !.left = @ - 1]

Compute ==
    /\ cmac.left > 1
    /\ cmac' = [cmac EXCEPT !.left = @ - 1]

Abort ==
    /\ cmac.left > 1
    /\ \E n \in 0 .. cmac.left - 1 : cmac' = [cmac EXCEPT !.left = n, !.live = FALSE]

\* One clock edge.
UnitEdge(start, key, msg, clear) ==
    \/ TakeStart(start, key, msg, clear)
    \/ StayIdle(start, clear)
    \/ Deliver
    \/ ~clear /\ Compute
    \/ clear /\ Abort

=============================================================================
