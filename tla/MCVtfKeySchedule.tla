---------------------------- MODULE MCVtfKeySchedule ----------------------------
(* VtfKeySchedule for TLC: two roots, so that a reload can mix them up.       *)
EXTENDS VtfKeySchedule

=============================================================================
