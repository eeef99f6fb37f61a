--------------------------- MODULE MCTpuConnections --------------------------
(* One leader that is removed and comes back, two transactions of different *)
(* fees, a heap and a broadcast channel with room for one, one permit.      *)
EXTENDS TpuConnections, TLC

CONSTANTS v1, cheap, dear

MCFeeOf == [tx \in Tx |-> IF tx = cheap THEN 0 ELSE 1]

MCLastValidOf == [tx \in Tx |-> IF tx = cheap THEN 1 ELSE 2]
==============================================================================
