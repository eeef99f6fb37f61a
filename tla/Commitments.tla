----------------------------- MODULE Commitments -----------------------------
(* The commitments of a block, in the order in which it reaches them, and   *)
(* what stands for a block that is not known at all.                        *)
Absent    == 0
Processed == 1
Confirmed == 2
Finalized == 3
Commitment == {Processed, Confirmed, Finalized}
==============================================================================
